------------------------------ MODULE LockProofs ------------------------------
(* Proofs about LockRealtime, for every set of clients, operators and      *)
(* sessions and every window, and about LockMinute, for every length of a  *)
(* minute and of the trend.                                                *)
EXTENDS LockRealtime, LockMinute, SequenceTheorems, WellFoundedInduction, TLAPS

USE NoneAssumption, TickAssumption

-----------------------------------------------------------------------------
(* Records: what an update of one field does to the type of a record       *)

\* The empty records are of their types.
LEMMA EmptyRecords ==
  /\ NoSnapshot \in Snapshot
  /\ NoTask \in Task
  /\ NoKill \in Killer
BY DEF NoSnapshot, Snapshot, NoTask, Task, TaskPc, NoKill, Killer, Result, Time

\* A task moves on, with or without a new snapshot, and may get its callback.
LEMMA TaskUpdate ==
  ASSUME NEW x \in Task, NEW p \in TaskPc, NEW n \in Snapshot
  PROVE  /\ [x EXCEPT !.pc = p] \in Task
         /\ [x EXCEPT !.pc = p, !.snap = n] \in Task
         /\ [x EXCEPT !.hook = TRUE] \in Task
BY DEF Task

\* A snapshot gets its kill targets.
LEMMA SnapshotUpdate ==
  ASSUME NEW x \in Snapshot, NEW k \in SUBSET Session
  PROVE  [x EXCEPT !.killTargets = k] \in Snapshot
BY DEF Snapshot

\* A request moves on, starts to wait for a task, or is answered.
LEMMA ViewerUpdate ==
  ASSUME NEW x \in Viewer, NEW p \in {"idle", "miss", "submit", "join", "spin"},
         NEW d \in Client \cup {None}, NEW n \in Snapshot
  PROVE  /\ [x EXCEPT !.pc = p] \in Viewer
         /\ [x EXCEPT !.pc = p, !.on = d] \in Viewer
         /\ [x EXCEPT !.pc = p, !.shown = n] \in Viewer
         /\ [x EXCEPT !.pc = p, !.on = d, !.shown = n] \in Viewer
BY DEF Viewer

\* A KILL request records what it has just done, and goes on to the next session.
LEMMA KillerUpdate ==
  ASSUME NEW x \in Killer, NEW s \in Session, NEW r \in Result, NEW k \in SUBSET Session
  PROVE  /\ [x EXCEPT !.pc = "auditing", !.doing = s, !.tries = 0, !.result = r, !.done = k] \in Killer
         /\ [x EXCEPT !.pc = "killing", !.todo = k] \in Killer
         /\ [x EXCEPT !.pc = "killing", !.current = k] \in Killer
<1>1. [x EXCEPT !.pc = "auditing", !.doing = s, !.tries = 0, !.result = r, !.done = k] \in Killer
  <2>1. \A y \in Killer : [y EXCEPT !.pc = "auditing"] \in Killer
    BY DEF Killer
  <2>2. \A y \in Killer : [y EXCEPT !.doing = s] \in Killer
    BY DEF Killer
  <2>3. \A y \in Killer : [y EXCEPT !.tries = 0] \in Killer
    BY DEF Killer
  <2>4. \A y \in Killer : [y EXCEPT !.result = r] \in Killer
    BY DEF Killer
  <2>5. \A y \in Killer : [y EXCEPT !.done = k] \in Killer
    BY DEF Killer
  <2> QED BY <2>1, <2>2, <2>3, <2>4, <2>5
<1>2. [x EXCEPT !.pc = "killing", !.todo = k] \in Killer
  BY DEF Killer
<1>3. [x EXCEPT !.pc = "killing", !.current = k] \in Killer
  BY DEF Killer
<1> QED BY <1>1, <1>2, <1>3

-----------------------------------------------------------------------------
(* Type correctness, one lemma per group of actions                        *)

\* A request thread keeps the types.
LEMMA ClientTypes ==
  ASSUME TypeOK, NEW c \in Client, Realtime(c) \/ ClientStep(c)
  PROVE  TypeOK'
<1>1. CASE Realtime(c)
  <2>1. client' \in [Client -> Viewer]
    BY <1>1, EmptyRecords DEF Realtime, Viewer, TypeOK
  <2> QED BY <1>1, <2>1 DEF Realtime, TypeOK
<1>2. CASE JoinInFlight(c)
  <2>1. /\ [client[c] EXCEPT !.pc = "idle", !.shown = task[inFlight].snap] \in Viewer
        /\ [client[c] EXCEPT !.pc = "join", !.on = inFlight] \in Viewer
    BY <1>2, ViewerUpdate, EmptyRecords DEF JoinInFlight, Task, TypeOK
  <2>2. client' \in [Client -> Viewer]
    BY <1>2, <2>1 DEF JoinInFlight, TypeOK
  <2> QED BY <1>2, <2>2 DEF JoinInFlight, TypeOK
<1>3. CASE Submit(c)
  <2>1. /\ [client[c] EXCEPT !.pc = "submit", !.on = c] \in Viewer
        /\ [NoTask EXCEPT !.pc = "queued", !.since = now] \in Task
    BY ViewerUpdate, EmptyRecords DEF Task, TaskPc, TypeOK
  <2>2. client' \in [Client -> Viewer] /\ task' \in [Client -> Task]
    BY <1>3, <2>1 DEF Submit, TypeOK
  <2> QED BY <1>3, <2>2 DEF Submit, TypeOK
<1>4. CASE Install(c)
  <2>0. client[c] \in Viewer /\ task[c] \in Task
    BY DEF TypeOK
  <2>1. /\ [client[c] EXCEPT !.pc = "join"] \in Viewer
        /\ [task[c] EXCEPT !.hook = TRUE] \in Task
    BY <2>0 DEF Viewer, Task
  <2>2. client' \in [Client -> Viewer] /\ task' \in [Client -> Task]
    BY <1>4, <2>1 DEF Install, TypeOK
  <2> QED BY <1>4, <2>2 DEF Install, TypeOK
<1>5. CASE InstallLate(c)
  <2>1. /\ [client[c] EXCEPT !.pc = "idle", !.shown = task[c].snap] \in Viewer
        /\ [client[c] EXCEPT !.pc = "spin"] \in Viewer
    BY ViewerUpdate, EmptyRecords DEF Task, TypeOK
  <2>2. client' \in [Client -> Viewer]
    BY <1>5, <2>1 DEF InstallLate, TypeOK
  <2> QED BY <1>5, <2>2 DEF InstallLate, TypeOK
<1> QED BY <1>1, <1>2, <1>3, <1>4, <1>5 DEF ClientStep

\* A task keeps the types.
LEMMA TaskTypes ==
  ASSUME TypeOK, NEW t \in Client, TaskStep(t)
  PROVE  TypeOK'
<1>0. task[t] \in Task /\ task[t].snap \in Snapshot
  BY DEF TypeOK, Task
<1>1. CASE BeginQuery(t)
  <2>1. [at |-> now, ok |-> TRUE, killTargets |-> {}, set |-> TRUE] \in Snapshot /\ "querying" \in TaskPc
    BY DEF Snapshot, TaskPc, TypeOK
  <2>2. task' \in [Client -> Task]
    BY <1>0, <1>1, <2>1, TaskUpdate DEF BeginQuery, TypeOK
  <2> QED BY <1>1, <2>2 DEF BeginQuery, TypeOK
<1>2. CASE ReadHolders(t)
  <2>1. KillTargets \in SUBSET Session /\ "have" \in TaskPc
    BY DEF KillTargets, TmHolders, TaskPc
  <2>2. [task[t].snap EXCEPT !.killTargets = KillTargets] \in Snapshot
    BY <1>0, <2>1, SnapshotUpdate
  <2>3. [task[t] EXCEPT !.pc = "have", !.snap = [task[t].snap EXCEPT !.killTargets = KillTargets]] \in Task
    BY <1>0, <2>1, <2>2, TaskUpdate
  <2>4. task' = [task EXCEPT ![t] = [task[t] EXCEPT !.pc = "have",
                                       !.snap = [task[t].snap EXCEPT !.killTargets = KillTargets]]]
    BY <1>0, <1>2 DEF ReadHolders, TypeOK, Task
  <2>5. task' \in [Client -> Task]
    BY <2>3, <2>4 DEF TypeOK
  <2> QED BY <1>2, <2>5 DEF ReadHolders, TypeOK
<1>3. CASE QueryFails(t)
  <2>1. Failed(now) \in Snapshot /\ "have" \in TaskPc
    BY DEF Failed, Snapshot, TaskPc, TypeOK
  <2>2. task' \in [Client -> Task]
    BY <1>0, <1>3, <2>1, TaskUpdate DEF QueryFails, TypeOK
  <2> QED BY <1>3, <2>2 DEF QueryFails, TypeOK
<1>4. CASE PutCache(t)
  <2>1. [task[t] EXCEPT !.pc = "put"] \in Task
    BY <1>0 DEF Task, TaskPc
  <2>2. task' \in [Client -> Task]
    BY <1>4, <2>1 DEF PutCache, TypeOK
  <2> QED BY <1>0, <1>4, <2>2 DEF PutCache, TypeOK
<1>5. CASE Complete(t)
  <2>1. [task[t] EXCEPT !.pc = "completed"] \in Task
    BY <1>0 DEF Task, TaskPc
  <2>2. task' \in [Client -> Task]
    BY <1>5, <2>1 DEF Complete, TypeOK
  <2>3. \A c \in Client : [client[c] EXCEPT !.pc = "idle", !.on = None, !.shown = task[t].snap] \in Viewer
    BY <1>0, ViewerUpdate DEF TypeOK
  <2>4. client' \in [Client -> Viewer]
    BY <1>5, <2>3 DEF Complete, TypeOK
  <2> QED BY <1>5, <2>2, <2>4 DEF Complete, TypeOK
<1>6. CASE RemoveInFlight(t)
  <2>1. task' \in [Client -> Task]
    BY <1>6, EmptyRecords DEF RemoveInFlight, TypeOK
  <2> QED BY <1>6, <2>1 DEF RemoveInFlight, TypeOK
<1> QED BY <1>1, <1>2, <1>3, <1>4, <1>5, <1>6 DEF TaskStep

\* A KILL call keeps the types.
LEMMA KillTypes ==
  ASSUME TypeOK, KillScope, NEW o \in Operator,
         (\E req \in SUBSET Session : KillCall(o, req)) \/ KillStep(o)
  PROVE  TypeOK'
<1>0. killer[o] \in Killer
  BY DEF TypeOK
<1>1. ASSUME NEW req \in SUBSET Session, KillCall(o, req) PROVE TypeOK'
  <2>1. [NoKill EXCEPT !.pc = "called", !.req = req, !.todo = req] \in Killer
    <3>1. NoKill \in Killer
      BY EmptyRecords
    <3>2. [NoKill EXCEPT !.pc = "called", !.req = req] \in Killer
      BY <3>1 DEF Killer
    <3>3. [NoKill EXCEPT !.pc = "called", !.req = req, !.todo = req]
            = [[NoKill EXCEPT !.pc = "called", !.req = req] EXCEPT !.todo = req]
      BY DEF NoKill
    <3> QED BY <3>2, <3>3 DEF Killer
  <2>2. killer' \in [Operator -> Killer]
    BY <1>1, <2>1 DEF KillCall, TypeOK
  <2> QED BY <1>1, <2>2 DEF KillCall, TypeOK
<1>2. CASE KillRequery(o)
  <2>1. KillTargets \in SUBSET Session
    BY DEF KillTargets, TmHolders
  <2>2. /\ [killer[o] EXCEPT !.pc = "killing", !.current = KillTargets] \in Killer
        /\ [killer[o] EXCEPT !.pc = "finally"] \in Killer
    BY <1>0, <2>1 DEF Killer
  <2>3. killer' \in [Operator -> Killer]
    BY <1>2, <2>2 DEF KillRequery, TypeOK
  <2> QED BY <1>2, <2>3 DEF KillRequery, TypeOK
<1>3. ASSUME NEW s \in Session, KillOne(o, s) PROVE TypeOK'
  <2>1. PICK out \in (IF s \in killer[o].current THEN KillOutcome(s)
                      ELSE {[result |-> "SKIPPED", after |-> life[s]]}) :
          /\ life' = [life EXCEPT ![s] = out.after]
          /\ killer' = [killer EXCEPT ![o].pc = "auditing", ![o].doing = s, ![o].tries = 0,
                                      ![o].result = out.result,
                                      ![o].done = @ \cup {d \in {s} : out.result = "SUCCESS"}]
    BY <1>3 DEF KillOne
  <2>2. out.result \in Result /\ out.after \in Life
    BY <2>1 DEF KillOutcome, Result, Life, TypeOK
  <2>3. killer[o].done \cup {d \in {s} : out.result = "SUCCESS"} \in SUBSET Session
    BY <1>0 DEF Killer
  <2> DEFINE done == killer[o].done \cup {d \in {s} : out.result = "SUCCESS"}
             next == [killer[o] EXCEPT !.pc = "auditing", !.doing = s, !.tries = 0,
                                       !.result = out.result, !.done = done]
  <2>4. next \in Killer
    BY <1>0, <2>2, <2>3, KillerUpdate
  <2>5. killer' = [killer EXCEPT ![o] = next]
    BY <1>0, <2>1 DEF Killer, TypeOK
  <2>6. killer' \in [Operator -> Killer] /\ life' \in [Session -> Life]
    <3> HIDE DEF next
    <3>1. killer' \in [Operator -> Killer]
      BY <2>4, <2>5 DEF TypeOK
    <3>2. life' \in [Session -> Life]
      BY <2>1, <2>2 DEF TypeOK
    <3> QED BY <3>1, <3>2
  <2> QED BY <1>3, <2>6 DEF KillOne, TypeOK
<1>4. CASE AuditOk(o)
  <2>1. killer[o].doing \in Session /\ killer[o].result \in Result
    BY <1>0, <1>4 DEF AuditOk, KillScope, Killer
  <2>2. [session |-> killer[o].doing, result |-> killer[o].result] \in AuditRow
    BY <2>1 DEF AuditRow
  <2>3. killer[o].todo \ {killer[o].doing} \in SUBSET Session
    BY <1>0 DEF Killer
  <2>4. [killer[o] EXCEPT !.pc = "killing", !.todo = killer[o].todo \ {killer[o].doing}] \in Killer
    BY <1>0, <2>1, <2>3, KillerUpdate
  <2>5. killer' \in [Operator -> Killer] /\ audit' \subseteq AuditRow
    BY <1>4, <2>2, <2>4 DEF AuditOk, TypeOK
  <2> QED BY <1>4, <2>5 DEF AuditOk, TypeOK
<1>5. CASE AuditFails(o)
  <2>1. killer[o].doing \in Session /\ killer[o].result \in Result
    BY <1>0, <1>5 DEF AuditFails, KillScope, Killer
  <2>2. killer[o].todo \ {killer[o].doing} \in SUBSET Session
    BY <1>0 DEF Killer
  <2>3. [killer[o] EXCEPT !.pc = "killing", !.todo = killer[o].todo \ {killer[o].doing}] \in Killer
    BY <1>0, <2>1, <2>2, KillerUpdate
  <2>4. [killer[o] EXCEPT !.tries = 1] \in Killer
    BY <1>0 DEF Killer
  <2>5. killer' \in [Operator -> Killer] /\ unaudited' \subseteq Session
    BY <1>5, <2>1, <2>3, <2>4 DEF AuditFails, TypeOK
  <2> QED BY <1>5, <2>5 DEF AuditFails, TypeOK
<1>6. CASE KillFinally(o)
  <2>1. [NoKill EXCEPT !.pc = "answered"] \in Killer
    BY EmptyRecords DEF Killer
  <2>2. killer' \in [Operator -> Killer]
    BY <1>6, <2>1 DEF KillFinally, TypeOK
  <2>3. announced' \in [Session -> Times]
    BY <1>6 DEF KillFinally, TypeOK, Times
  <2> QED BY <1>6, <2>2, <2>3, EmptyRecords DEF KillFinally, TypeOK
<1> QED BY <1>1, <1>2, <1>3, <1>4, <1>5, <1>6 DEF KillStep

-----------------------------------------------------------------------------
(* The slot of the in-flight map                                           *)

\* A task that runs is the one being submitted or the one in the map.
LEMMA SlotKept ==
  ASSUME TypeOK, OneSlot, [Next]_vars
  PROVE  OneSlot'
<1>1. CASE UNCHANGED <<binOwner, inFlight, task, client>>
  BY <1>1 DEF OneSlot
<1>2. ASSUME NEW c \in Client, Realtime(c) \/ JoinInFlight(c) PROVE OneSlot'
  <2>1. \A d \in Client : client'[d].pc = "submit" => client[d].pc = "submit"
    BY <1>2 DEF Realtime, JoinInFlight, TypeOK, Viewer
  <2>2. UNCHANGED <<binOwner, inFlight, task>>
    BY <1>2 DEF Realtime, JoinInFlight
  <2> QED BY <2>1, <2>2 DEF OneSlot
<1>3. ASSUME NEW c \in Client, Submit(c) PROVE OneSlot'
  BY <1>3 DEF Submit, OneSlot, TypeOK, NoTask
<1>4. ASSUME NEW c \in Client, Install(c) PROVE OneSlot'
  BY <1>4 DEF Install, OneSlot, TypeOK
<1>5. ASSUME NEW c \in Client, InstallLate(c) PROVE OneSlot'
  <2>1. binOwner = c /\ inFlight = None /\ task[c].pc \notin Running
    BY <1>5 DEF InstallLate, OneSlot, TypeOK, Running
  <2>2. \A d \in Client : task[d].pc \notin Running
    BY <2>1 DEF OneSlot
  <2>3. \A d \in Client : client'[d].pc = "submit" => client[d].pc = "submit" /\ d # c
    BY <1>5 DEF InstallLate, TypeOK, Viewer
  <2>4. \A d \in Client : client'[d].pc # "submit"
    BY <2>1, <2>3 DEF OneSlot
  <2>5. task' = task /\ (binOwner' # None => inFlight' = None)
    BY <1>5, <2>1 DEF InstallLate
  <2> QED BY <2>2, <2>4, <2>5 DEF OneSlot
<1>6. ASSUME NEW t \in Client, BeginQuery(t) \/ ReadHolders(t) \/ QueryFails(t) \/ PutCache(t) PROVE OneSlot'
  <2>1. /\ task[t].pc \in Running
        /\ \A c \in Client : c # t => task'[c] = task[c]
        /\ UNCHANGED <<binOwner, inFlight, client>>
    BY <1>6 DEF BeginQuery, ReadHolders, QueryFails, PutCache, TypeOK, Running
  <2> QED BY <2>1 DEF OneSlot
<1>7. ASSUME NEW t \in Client, Complete(t) PROVE OneSlot'
  <2>1. \A c \in Client : client'[c].pc = "submit" => client[c].pc = "submit"
    BY <1>7 DEF Complete, TypeOK, Viewer
  <2>2. \A c \in Client : task'[c].pc \in Running => task[c].pc \in Running
    BY <1>7 DEF Complete, TypeOK, Running
  <2> QED BY <1>7, <2>1, <2>2 DEF Complete, OneSlot
<1>8. ASSUME NEW t \in Client, RemoveInFlight(t) PROVE OneSlot'
  <2>1. \A c \in Client : task'[c].pc \in Running => task[c].pc \in Running /\ c # t
    BY <1>8 DEF RemoveInFlight, TypeOK, Running, NoTask
  <2> QED BY <1>8, <2>1 DEF RemoveInFlight, OneSlot
<1>9. ASSUME NEW o \in Operator,
             (\E req \in SUBSET Session : KillCall(o, req)) \/ KillStep(o)
      PROVE  UNCHANGED <<binOwner, inFlight, task, client>>
  BY <1>9 DEF KillCall, KillStep, KillRequery, KillOne, AuditOk, AuditFails, KillFinally
<1> QED
  BY <1>1, <1>2, <1>3, <1>4, <1>5, <1>6, <1>7, <1>8, <1>9
     DEF Next, ClientStep, TaskStep, Tick, SessionStep, vars

-----------------------------------------------------------------------------
(* The scope of a KILL                                                     *)

\* A KILL stays with what its call asked for and its re-query found.
LEMMA ScopeKept ==
  ASSUME TypeOK, KillScope, [Next]_vars
  PROVE  KillScope'
<1>1. CASE UNCHANGED killer
  BY <1>1 DEF KillScope
<1>2. ASSUME NEW o \in Operator, NEW req \in SUBSET Session, KillCall(o, req) PROVE KillScope'
  BY <1>2 DEF KillCall, KillScope, TypeOK, NoKill
<1>3. ASSUME NEW o \in Operator, KillRequery(o) PROVE KillScope'
  BY <1>3 DEF KillRequery, KillScope, TypeOK, KillTargets, Killer
<1>4. ASSUME NEW o \in Operator, NEW s \in Session, KillOne(o, s) PROVE KillScope'
  <2>1. /\ killer'[o].todo = killer[o].todo
        /\ killer'[o].req = killer[o].req
        /\ killer'[o].current = killer[o].current
        /\ killer'[o].doing = s
        /\ \A p \in Operator : p # o => killer'[p] = killer[p]
    BY <1>4 DEF KillOne, TypeOK, Killer
  <2> QED BY <2>1 DEF KillScope
<1>5. ASSUME NEW o \in Operator, AuditOk(o) \/ AuditFails(o) PROVE KillScope'
  <2>1. /\ killer'[o].todo \subseteq killer[o].todo
        /\ killer'[o].req = killer[o].req
        /\ killer'[o].current = killer[o].current
        /\ killer'[o].doing = killer[o].doing
        /\ killer[o].pc = "auditing"
        /\ \A p \in Operator : p # o => killer'[p] = killer[p]
    BY <1>5 DEF AuditOk, AuditFails, TypeOK, Killer
  <2> QED BY <2>1 DEF KillScope
<1>6. ASSUME NEW o \in Operator, KillFinally(o) PROVE KillScope'
  BY <1>6 DEF KillFinally, KillScope, TypeOK, NoKill
<1>7. ASSUME NEW c \in Client, Realtime(c) \/ ClientStep(c) \/ TaskStep(c) PROVE UNCHANGED killer
  BY <1>7 DEF Realtime, ClientStep, JoinInFlight, Submit, Install, InstallLate, TaskStep,
              BeginQuery, ReadHolders, QueryFails, PutCache, Complete, RemoveInFlight
<1> QED
  BY <1>1, <1>2, <1>3, <1>4, <1>5, <1>6, <1>7 DEF Next, KillStep, Tick, SessionStep, vars

-----------------------------------------------------------------------------
(* The theorems                                                            *)

\* The inductive invariant: types, the one slot of the in-flight map, and the
\* scope of every KILL call.
THEOREM InductiveInvariant == Spec => []Inductive
<1>1. Init => Inductive
  <2>1. Init => TypeOK
    BY EmptyRecords
       DEF Init, TypeOK, Time, Viewer, Snapshot, NoSnapshot, Never, Times, Life
  <2>2. Init => OneSlot /\ KillScope
    BY DEF Init, OneSlot, KillScope, NoTask, NoKill, Running
  <2> QED BY <2>1, <2>2 DEF Inductive
<1>2. Inductive /\ [Next]_vars => Inductive'
  <2> SUFFICES ASSUME Inductive, [Next]_vars PROVE Inductive'
    OBVIOUS
  <2>1. TypeOK /\ OneSlot /\ KillScope
    BY DEF Inductive
  <2>2. TypeOK'
    <3>1. CASE Tick
      BY <2>1, <3>1 DEF Tick, TypeOK, Time
    <3>2. ASSUME NEW s \in Session, SessionStep(s) PROVE TypeOK'
      <4>1. life' \in [Session -> Life]
        BY <2>1, <3>2 DEF SessionStep, TypeOK, Life
      <4> QED BY <2>1, <3>2, <4>1 DEF SessionStep, TypeOK
    <3>3. CASE UNCHANGED vars
      BY <2>1, <3>3 DEF vars, TypeOK
    <3> QED
      BY <2>1, <3>1, <3>2, <3>3, ClientTypes, TaskTypes, KillTypes DEF Next
  <2>3. OneSlot' /\ KillScope'
    BY <2>1, SlotKept, ScopeKept
  <2> QED BY <2>2, <2>3 DEF Inductive
<1> QED
  BY <1>1, <1>2, PTL DEF Spec

\* Every variable of the lock service keeps its type, whatever the threads do.
THEOREM TypeCorrect == Spec => []TypeOK
<1>1. Inductive => TypeOK
  BY DEF Inductive
<1> QED BY <1>1, InductiveInvariant, PTL

\* Load control of realtime(): for any number of viewers, and whether or not a
\* task may finish before its callback is registered, at most one task at a
\* time is alive against the monitored database.
THEOREM OneQueryAtATime == Spec => []AtMostOneQuery
<1>1. Inductive => AtMostOneQuery
  BY DEF Inductive, OneSlot, AtMostOneQuery
<1> QED BY <1>1, InductiveInvariant, PTL

\* killTmHolders only ever kills a session of type USER that its own call asked
\* for and its own re-query still found holding a TM lock.
THEOREM KillsInScope == Spec => KillsOnlyWhatWasAsked
<1>1. ASSUME Inductive, [Next]_vars,
             NEW s \in Session, life[s] # "killed", life'[s] = "killed"
      PROVE  \E o \in Operator : /\ killer[o].pc = "killing"
                                 /\ s \in killer[o].req \cap killer[o].current
                                 /\ s \in UserSession
  <2>1. PICK o \in Operator, r \in Session : KillOne(o, r)
    <3>1. ASSUME NEW r \in Session, SessionStep(r) PROVE FALSE
      BY <1>1, <3>1 DEF SessionStep, Inductive, TypeOK
    <3>2. ASSUME NEW c \in Client, Realtime(c) \/ ClientStep(c) \/ TaskStep(c) PROVE UNCHANGED life
      BY <3>2 DEF Realtime, ClientStep, JoinInFlight, Submit, Install, InstallLate, TaskStep,
                  BeginQuery, ReadHolders, QueryFails, PutCache, Complete, RemoveInFlight
    <3> QED
      BY <1>1, <3>1, <3>2
         DEF Next, Tick, KillCall, KillStep, KillRequery, AuditOk, AuditFails, KillFinally, vars
  <2>2. r = s
    BY <1>1, <2>1 DEF KillOne, Inductive, TypeOK
  <2>3. s \in killer[o].current
    BY <1>1, <2>1, <2>2 DEF KillOne, Inductive, TypeOK
  <2> QED
    BY <1>1, <2>1, <2>2, <2>3 DEF KillOne, Inductive, KillScope
<1>2. Inductive /\ [Next]_vars =>
        [\A s \in Session : life[s] # "killed" /\ life'[s] = "killed" =>
           \E o \in Operator : /\ killer[o].pc = "killing"
                               /\ s \in killer[o].req \cap killer[o].current
                               /\ s \in UserSession]_vars
  BY <1>1
<1> QED
  BY <1>2, InductiveInvariant, PTL DEF Spec, KillsOnlyWhatWasAsked

\* No KILL is silent: whatever fails on the way, a killed session is in the
\* audit table, in an answer that carries auditWriteFailed, or being audited.
THEOREM KillIsTraced == Spec => []KillLeavesTrace
<1>1. Init => KillLeavesTrace
  BY DEF Init, KillLeavesTrace
<1>2. ASSUME Inductive, KillLeavesTrace, [Next]_vars PROVE KillLeavesTrace'
  <2>0. TypeOK /\ KillScope
    BY <1>2 DEF Inductive
  <2>1. CASE UNCHANGED <<life, audit, unaudited, killer>>
    BY <1>2, <2>1 DEF KillLeavesTrace
  <2>2. ASSUME NEW s \in Session, SessionStep(s) PROVE KillLeavesTrace'
    <3>1. \A r \in Session : life'[r] = "killed" => life[r] = "killed"
      BY <2>0, <2>2 DEF SessionStep, TypeOK
    <3>2. UNCHANGED <<audit, unaudited, killer>>
      BY <2>2 DEF SessionStep
    <3> QED BY <1>2, <3>1, <3>2 DEF KillLeavesTrace
  <2>3. ASSUME NEW c \in Client, Realtime(c) \/ ClientStep(c) \/ TaskStep(c)
        PROVE  UNCHANGED <<life, audit, unaudited, killer>>
    BY <2>3 DEF Realtime, ClientStep, JoinInFlight, Submit, Install, InstallLate, TaskStep,
                BeginQuery, ReadHolders, QueryFails, PutCache, Complete, RemoveInFlight
  <2>4. ASSUME NEW o \in Operator, NEW req \in SUBSET Session,
               KillCall(o, req) \/ KillRequery(o) \/ KillFinally(o)
        PROVE  KillLeavesTrace'
    <3>1. \A p \in Operator : killer[p].pc = "auditing" => killer'[p] = killer[p]
      BY <2>0, <2>4 DEF KillCall, KillRequery, KillFinally, TypeOK
    <3>2. UNCHANGED <<life, audit, unaudited>>
      BY <2>4 DEF KillCall, KillRequery, KillFinally
    <3> QED BY <1>2, <3>1, <3>2 DEF KillLeavesTrace
  <2>5. ASSUME NEW o \in Operator, NEW s \in Session, KillOne(o, s) PROVE KillLeavesTrace'
    <3>1. \A p \in Operator : killer[p].pc = "auditing" => killer'[p] = killer[p]
      BY <2>0, <2>5 DEF KillOne, TypeOK
    <3>2. \A r \in Session : r # s => life'[r] = life[r]
      BY <2>0, <2>5 DEF KillOne, TypeOK
    <3>3. \/ life'[s] = life[s]
          \/ killer'[o].pc = "auditing" /\ killer'[o].doing = s /\ killer'[o].result # "SKIPPED"
      <4>1. PICK out \in (IF s \in killer[o].current THEN KillOutcome(s)
                          ELSE {[result |-> "SKIPPED", after |-> life[s]]}) :
              /\ life' = [life EXCEPT ![s] = out.after]
              /\ killer' = [killer EXCEPT ![o].pc = "auditing", ![o].doing = s, ![o].tries = 0,
                                          ![o].result = out.result,
                                          ![o].done = @ \cup {d \in {s} : out.result = "SUCCESS"}]
        BY <2>5 DEF KillOne
      <4>2. out.after = life[s] \/ out.result # "SKIPPED"
        BY <4>1 DEF KillOutcome
      <4>3. killer'[o].pc = "auditing" /\ killer'[o].doing = s /\ killer'[o].result = out.result
        BY <2>0, <4>1 DEF TypeOK, Killer
      <4> QED BY <2>0, <4>1, <4>2, <4>3 DEF TypeOK
    <3>4. UNCHANGED <<audit, unaudited>>
      BY <2>5 DEF KillOne
    <3> QED BY <1>2, <3>1, <3>2, <3>3, <3>4 DEF KillLeavesTrace
  <2>6. ASSUME NEW o \in Operator, AuditOk(o) PROVE KillLeavesTrace'
    <3>1. /\ killer[o].result \in Result
          /\ \A p \in Operator : p # o => killer'[p] = killer[p]
          /\ life' = life /\ unaudited' = unaudited
          /\ audit' = audit \cup {[session |-> killer[o].doing, result |-> killer[o].result]}
      BY <2>0, <2>6 DEF AuditOk, TypeOK, Killer
    <3> SUFFICES ASSUME NEW s \in Session, life'[s] = "killed"
                 PROVE  \/ \E row \in audit' : row.session = s /\ row.result \in {"SUCCESS", "FAILED"}
                        \/ s \in unaudited'
                        \/ \E p \in Operator : killer'[p].pc = "auditing" /\ killer'[p].doing = s
                                               /\ killer'[p].result # "SKIPPED"
      BY DEF KillLeavesTrace
    <3>2. CASE s \in unaudited \/ \E row \in audit : row.session = s /\ row.result \in {"SUCCESS", "FAILED"}
      BY <3>1, <3>2
    <3>3. ASSUME NEW p \in Operator, p # o, killer[p].pc = "auditing", killer[p].doing = s,
                 killer[p].result # "SKIPPED"
          PROVE  killer'[p].pc = "auditing" /\ killer'[p].doing = s /\ killer'[p].result # "SKIPPED"
      BY <3>1, <3>3
    <3>4. ASSUME killer[o].doing = s, killer[o].result # "SKIPPED"
          PROVE  \E row \in audit' : row.session = s /\ row.result \in {"SUCCESS", "FAILED"}
      <4>1. [session |-> killer[o].doing, result |-> killer[o].result] \in audit'
        BY <3>1
      <4> QED BY <3>1, <3>4, <4>1 DEF Result
    <3> QED BY <1>2, <3>1, <3>2, <3>3, <3>4 DEF KillLeavesTrace
  <2>7. ASSUME NEW o \in Operator, AuditFails(o) PROVE KillLeavesTrace'
    <3>1. /\ \A p \in Operator : p # o => killer'[p] = killer[p]
          /\ life' = life /\ audit' = audit /\ unaudited \subseteq unaudited'
          /\ \/ killer[o].doing \in unaudited'
             \/ /\ killer'[o].pc = killer[o].pc
                /\ killer'[o].doing = killer[o].doing
                /\ killer'[o].result = killer[o].result
      BY <2>0, <2>7 DEF AuditFails, TypeOK, Killer
    <3> SUFFICES ASSUME NEW s \in Session, life'[s] = "killed"
                 PROVE  \/ \E row \in audit' : row.session = s /\ row.result \in {"SUCCESS", "FAILED"}
                        \/ s \in unaudited'
                        \/ \E p \in Operator : killer'[p].pc = "auditing" /\ killer'[p].doing = s
                                               /\ killer'[p].result # "SKIPPED"
      BY DEF KillLeavesTrace
    <3>2. CASE \E row \in audit : row.session = s /\ row.result \in {"SUCCESS", "FAILED"}
      BY <3>1, <3>2
    <3>3. CASE s \in unaudited
      BY <3>1, <3>3
    <3>4. ASSUME NEW p \in Operator, killer[p].pc = "auditing", killer[p].doing = s,
                 killer[p].result # "SKIPPED"
          PROVE  s \in unaudited' \/ (/\ killer'[p].pc = "auditing" /\ killer'[p].doing = s
                                      /\ killer'[p].result # "SKIPPED")
      BY <3>1, <3>4
    <3> QED BY <1>2, <3>1, <3>2, <3>3, <3>4 DEF KillLeavesTrace
  <2> QED
    BY <1>2, <2>1, <2>2, <2>3, <2>4, <2>5, <2>6, <2>7 DEF Next, KillStep, Tick, vars
<1> QED
  BY <1>1, <1>2, InductiveInvariant, PTL DEF Spec

-----------------------------------------------------------------------------
(* The age of an answer                                                    *)

\* A task that runs, or that still has its callback to run, is no older than
\* QueryTicks; its snapshot was taken in its life.  Nobody asks in the future.
TaskTimes(t) ==
  /\ (task[t].pc \in Running \/ task[t].hook) => task[t].since <= now /\ now - task[t].since <= QueryTicks
  /\ task[t].pc \in {"querying", "have", "put", "completed"} => task[t].since <= task[t].snap.at
  /\ client[t].pc = "submit" => ~task[t].hook
Clocked == \A t \in Client : TaskTimes(t) /\ client[t].asked <= now

\* The numbers of a state are numbers.
LEMMA LockNumbers ==
  ASSUME TypeOK
  PROVE  /\ now \in Nat /\ QueryTicks \in Nat /\ CacheTicks \in Nat /\ Longest \in Nat
         /\ CacheTicks <= Longest /\ QueryTicks <= Longest
         /\ \A t \in Client : /\ task[t].since \in Nat /\ task[t].snap.at \in Nat
                              /\ client[t].asked \in Nat /\ client[t].shown.at \in Nat
                              /\ client[t].shown.set \in BOOLEAN /\ task[t].hook \in BOOLEAN
                              /\ task[t] \in Task /\ client[t] \in Viewer
                              /\ task[t].snap \in Snapshot /\ client[t].shown \in Snapshot
         /\ cache.at \in Nat
<1>1. Time \subseteq Nat
  BY DEF Time
<1>2. \A n \in Snapshot : n.at \in Nat /\ n.set \in BOOLEAN
  BY <1>1 DEF Snapshot
<1>3. \A x \in Task : x.since \in Nat /\ x.snap \in Snapshot /\ x.hook \in BOOLEAN
  BY <1>1 DEF Task
<1>4. \A x \in Viewer : x.asked \in Nat /\ x.shown \in Snapshot
  BY <1>1 DEF Viewer
<1>5. \A t \in Client : task[t] \in Task /\ client[t] \in Viewer
  BY DEF TypeOK
<1>6. now \in Nat /\ cache \in Snapshot
  BY <1>1 DEF TypeOK
<1>7. Longest \in Nat /\ CacheTicks <= Longest /\ QueryTicks <= Longest
  BY DEF Longest
<1> QED
  BY <1>2, <1>3, <1>4, <1>5, <1>6, <1>7

\* A future that was left behind in the map stays there.
LEMMA LeftBehindStays ==
  ASSUME Inductive, [Next]_vars, LeftBehind
  PROVE  LeftBehind'
<1>1. inFlight \in Client /\ task[inFlight].pc = "completed" /\ ~task[inFlight].hook /\ binOwner = None
  BY DEF Inductive, TypeOK, OneSlot, LeftBehind
<1>2. CASE UNCHANGED <<inFlight, task>>
  BY <1>2 DEF LeftBehind
<1>3. ASSUME NEW c \in Client, Submit(c) \/ Install(c) \/ InstallLate(c)
      PROVE  FALSE
  BY <1>1, <1>3 DEF Submit, Install, InstallLate, Inductive, OneSlot
<1>4. ASSUME NEW t \in Client, BeginQuery(t) \/ ReadHolders(t) \/ QueryFails(t) \/ PutCache(t) \/ Complete(t)
      PROVE  inFlight' = inFlight /\ task'[inFlight] = task[inFlight]
  <2>1. t # inFlight
    BY <1>1, <1>4 DEF BeginQuery, ReadHolders, QueryFails, PutCache, Complete
  <2> QED
    BY <1>1, <1>4, <2>1 DEF BeginQuery, ReadHolders, QueryFails, PutCache, Complete, Inductive, TypeOK
<1>5. ASSUME NEW t \in Client, RemoveInFlight(t)
      PROVE  inFlight' = inFlight /\ task'[inFlight] = task[inFlight]
  BY <1>1, <1>5 DEF RemoveInFlight, Inductive, TypeOK
<1>6. ASSUME NEW c \in Client, Realtime(c) \/ JoinInFlight(c) PROVE UNCHANGED <<inFlight, task>>
  BY <1>6 DEF Realtime, JoinInFlight
<1>7. ASSUME NEW o \in Operator,
             (\E req \in SUBSET Session : KillCall(o, req)) \/ KillStep(o)
      PROVE  UNCHANGED <<inFlight, task>>
  BY <1>7 DEF KillCall, KillStep, KillRequery, KillOne, AuditOk, AuditFails, KillFinally
<1>8. inFlight' = inFlight /\ task'[inFlight] = task[inFlight] => LeftBehind'
  BY DEF LeftBehind
<1> QED
  BY <1>2, <1>3, <1>4, <1>5, <1>6, <1>7, <1>8 DEF Next, ClientStep, TaskStep, Tick, SessionStep, vars

\* Every step keeps the times of the tasks.
LEMMA ClockedStep ==
  ASSUME Inductive, Clocked, [Next]_vars
  PROVE  Clocked'
<1>0. TypeOK /\ task \in [Client -> Task] /\ client \in [Client -> Viewer]
  BY DEF Inductive, TypeOK
<1>1. CASE UNCHANGED <<now, task, client>>
  BY <1>1 DEF Clocked, TaskTimes
<1>2. CASE Tick
  <2>1. /\ now' = now + 1 /\ task' = task /\ client' = client
        /\ \A c \in Client : (task[c].pc \in Running \/ task[c].hook) => now - task[c].since < QueryTicks
    BY <1>2 DEF Tick
  <2> QED
    BY <1>0, <2>1, LockNumbers DEF Clocked, TaskTimes
<1>3. ASSUME NEW c \in Client, Realtime(c) PROVE Clocked'
  <2>1. /\ client'[c].asked = now /\ client'[c].pc # "submit" /\ now' = now /\ task' = task
        /\ \A d \in Client : d # c => client'[d] = client[d]
    BY <1>0, <1>3 DEF Realtime
  <2> QED
    BY <1>0, <2>1, LockNumbers DEF Clocked, TaskTimes
<1>4. ASSUME NEW c \in Client, JoinInFlight(c) \/ InstallLate(c) PROVE Clocked'
  <2>1. /\ now' = now /\ task' = task
        /\ \A d \in Client : /\ client'[d].asked = client[d].asked
                             /\ client'[d].pc = "submit" => client[d].pc = "submit"
    BY <1>0, <1>4 DEF JoinInFlight, InstallLate, Viewer
  <2> QED
    BY <2>1 DEF Clocked, TaskTimes
<1>5. ASSUME NEW c \in Client, Submit(c) PROVE Clocked'
  <2>1. /\ now' = now /\ task'[c].pc = "queued" /\ task'[c].since = now /\ ~task'[c].hook
        /\ \A d \in Client : d # c => task'[d] = task[d] /\ client'[d] = client[d]
        /\ client'[c].asked = client[c].asked
    BY <1>0, <1>5 DEF Submit, NoTask, Viewer
  <2> QED
    BY <1>0, <2>1, LockNumbers DEF Clocked, TaskTimes
<1>6. ASSUME NEW c \in Client, Install(c) PROVE Clocked'
  <2>1. /\ now' = now /\ task[c].pc \in Running /\ task'[c].pc = task[c].pc /\ task'[c].since = task[c].since
        /\ task'[c].snap = task[c].snap
        /\ \A d \in Client : d # c => task'[d] = task[d] /\ client'[d] = client[d]
        /\ client'[c].asked = client[c].asked /\ client'[c].pc # "submit"
    BY <1>0, <1>6 DEF Install, Viewer, Task
  <2>2. TaskTimes(c)'
    BY <2>1 DEF Clocked, TaskTimes
  <2>3. \A d \in Client : d # c => TaskTimes(d)'
    BY <2>1 DEF Clocked, TaskTimes
  <2>4. \A d \in Client : client'[d].asked <= now'
    BY <2>1 DEF Clocked
  <2> QED
    BY <2>2, <2>3, <2>4 DEF Clocked
<1>7. ASSUME NEW t \in Client, BeginQuery(t) \/ ReadHolders(t) \/ QueryFails(t) \/ PutCache(t) PROVE Clocked'
  <2>1. task[t] \in Task /\ task[t].snap \in Snapshot
    BY <1>0, LockNumbers
  <2>2. /\ now' = now /\ client' = client /\ task[t].pc \in Running
        /\ task'[t].since = task[t].since /\ task'[t].hook = task[t].hook
        /\ \A d \in Client : d # t => task'[d] = task[d]
    BY <1>0, <1>7, <2>1 DEF BeginQuery, ReadHolders, QueryFails, PutCache, Task, Running
  <2>3. \/ task'[t].snap.at = now
        \/ task'[t].snap.at = task[t].snap.at /\ task[t].pc \in {"querying", "have"}
    BY <1>0, <1>7, <2>1 DEF BeginQuery, ReadHolders, QueryFails, PutCache, Task, Snapshot, Failed
  <2>4. task[t].since <= now
    BY <2>2 DEF Clocked, TaskTimes
  <2> QED
    BY <2>2, <2>3, <2>4 DEF Clocked, TaskTimes
<1>8. ASSUME NEW t \in Client, Complete(t) PROVE Clocked'
  <2>1. /\ now' = now /\ task[t].pc = "put"
        /\ task'[t].since = task[t].since /\ task'[t].hook = task[t].hook /\ task'[t].snap = task[t].snap
        /\ \A d \in Client : d # t => task'[d] = task[d]
    BY <1>0, <1>8 DEF Complete, Task
  <2>2. \A d \in Client : /\ client'[d].asked = client[d].asked
                          /\ client'[d].pc = "submit" => client[d].pc = "submit"
    BY <1>0, <1>8 DEF Complete, Viewer
  <2>3. TaskTimes(t)'
    BY <2>1, <2>2 DEF Clocked, TaskTimes, Running
  <2>4. \A d \in Client : d # t => TaskTimes(d)'
    BY <2>1, <2>2 DEF Clocked, TaskTimes
  <2>5. \A d \in Client : client'[d].asked <= now'
    BY <2>1, <2>2 DEF Clocked
  <2> QED
    BY <2>3, <2>4, <2>5 DEF Clocked
<1>9. ASSUME NEW t \in Client, RemoveInFlight(t) PROVE Clocked'
  <2>1. /\ now' = now /\ client' = client /\ task'[t] = NoTask
        /\ \A d \in Client : d # t => task'[d] = task[d]
    BY <1>0, <1>9 DEF RemoveInFlight
  <2> QED
    BY <2>1 DEF Clocked, TaskTimes, NoTask, Running
<1>10. ASSUME NEW o \in Operator,
              (\E req \in SUBSET Session : KillCall(o, req)) \/ KillStep(o)
       PROVE  UNCHANGED <<now, task, client>>
  BY <1>10 DEF KillCall, KillStep, KillRequery, KillOne, AuditOk, AuditFails, KillFinally
<1> QED
  BY <1>1, <1>2, <1>3, <1>4, <1>5, <1>6, <1>7, <1>8, <1>9, <1>10 DEF Next, ClientStep, TaskStep, SessionStep, vars

\* An answer is fresh when it is given, and its age at the question never changes.
LEMMA FreshStep ==
  ASSUME Inductive, Clocked, FreshEnough, [Next]_vars
  PROVE  FreshEnough'
<1> DEFINE Young(c) == client[c].shown.set => client[c].asked - client[c].shown.at <= Longest
<1> SUFFICES ASSUME ~LeftBehind'
             PROVE  \A c \in Client : Young(c)'
  BY DEF FreshEnough
<1>0. /\ TypeOK /\ task \in [Client -> Task] /\ client \in [Client -> Viewer]
      /\ \A c \in Client : Young(c)
  BY LeftBehindStays DEF Inductive, TypeOK, FreshEnough
<1>1. \A c \in Client : client'[c].asked = client[c].asked /\ client'[c].shown = client[c].shown => Young(c)'
  BY <1>0
<1>2. \A c, t \in Client : /\ task[t].pc \in {"put", "completed"} /\ (task[t].pc \in Running \/ task[t].hook)
                           /\ client'[c].asked = client[c].asked /\ client'[c].shown = task[t].snap
                          => Young(c)'
  BY <1>0, LockNumbers DEF Clocked, TaskTimes
<1> HIDE DEF Young
<1>3. ASSUME NEW c \in Client, Realtime(c) PROVE \A d \in Client : Young(d)'
  <2>1. /\ \A d \in Client : d # c => client'[d] = client[d]
        /\ client'[c].asked = now
        /\ IF Fresh(cache) THEN client'[c].shown = cache ELSE client'[c].shown = NoSnapshot
    BY <1>0, <1>3 DEF Realtime
  <2>2. Young(c)'
    BY <1>0, <2>1, LockNumbers DEF Young, Fresh, NoSnapshot
  <2> QED
    BY <1>1, <2>1, <2>2
<1>4. ASSUME NEW c \in Client, JoinInFlight(c) PROVE \A d \in Client : Young(d)'
  <2>1. /\ \A d \in Client : d # c => client'[d] = client[d]
        /\ client'[c].asked = client[c].asked /\ inFlight \in Client /\ UNCHANGED <<inFlight, task>>
        /\ \/ client'[c].shown = client[c].shown
           \/ task[inFlight].pc = "completed" /\ client'[c].shown = task[inFlight].snap
    BY <1>0, <1>4 DEF JoinInFlight, TypeOK, Viewer
  <2>2. task[inFlight].pc = "completed" => task[inFlight].hook
    BY <2>1 DEF LeftBehind
  <2> QED
    BY <1>1, <1>2, <2>1, <2>2
<1>5. ASSUME NEW c \in Client, InstallLate(c) PROVE \A d \in Client : Young(d)'
  <2>1. task' = task /\ task[c].pc = "completed" /\ client[c].pc = "submit" /\ ~task[c].hook
    BY <1>5 DEF InstallLate, Clocked, TaskTimes
  <2>2. inFlight' # c
    BY <2>1 DEF LeftBehind
  <2>3. client' = [client EXCEPT ![c].pc = "spin"]
    BY <1>5, <2>2 DEF InstallLate
  <2>4. \A d \in Client : client'[d].asked = client[d].asked /\ client'[d].shown = client[d].shown
    BY <1>0, <2>3 DEF Viewer
  <2> QED
    BY <1>1, <2>4
<1>6. ASSUME NEW c \in Client, Submit(c) \/ Install(c)
      PROVE  \A d \in Client : client'[d].asked = client[d].asked /\ client'[d].shown = client[d].shown
  BY <1>0, <1>6 DEF Submit, Install, Viewer
<1>7. ASSUME NEW t \in Client, Complete(t) PROVE \A d \in Client : Young(d)'
  <2>1. task[t].pc = "put" /\ task[t].pc \in Running
    BY <1>7 DEF Complete, Running
  <2> SUFFICES ASSUME NEW d \in Client
               PROVE  Young(d)'
    OBVIOUS
  <2>2. /\ client'[d].asked = client[d].asked
        /\ client'[d].shown = client[d].shown \/ client'[d].shown = task[t].snap
    BY <1>0, <1>7 DEF Complete, Viewer
  <2> QED
    BY <1>1, <1>2, <2>1, <2>2
<1>8. ASSUME NEW t \in Client, BeginQuery(t) \/ ReadHolders(t) \/ QueryFails(t) \/ PutCache(t) \/ RemoveInFlight(t)
      PROVE  client' = client
  BY <1>8 DEF BeginQuery, ReadHolders, QueryFails, PutCache, RemoveInFlight
<1>9. ASSUME NEW o \in Operator,
             (\E req \in SUBSET Session : KillCall(o, req)) \/ KillStep(o)
      PROVE  client' = client
  BY <1>9 DEF KillCall, KillStep, KillRequery, KillOne, AuditOk, AuditFails, KillFinally
<1>10. Tick \/ UNCHANGED vars \/ (\E s \in Session : SessionStep(s)) => client' = client
  BY DEF Tick, SessionStep, vars
<1>11. client' = client => \A c \in Client : Young(c)'
  BY <1>1
<1> QED
  BY <1>1, <1>3, <1>4, <1>5, <1>6, <1>7, <1>8, <1>9, <1>10, <1>11 DEF Next, ClientStep, TaskStep

\* No viewer, of any number, is ever shown a picture older than the cache window or the
\* longest query, but by a future that was left behind.
THEOREM AnswersAreFresh == Spec => []FreshEnough
<1>1. Init => Clocked /\ FreshEnough
  BY DEF Init, Clocked, TaskTimes, FreshEnough, NoTask, NoSnapshot, Running
<1>2. Inductive /\ Clocked /\ FreshEnough /\ [Next]_vars => Clocked' /\ FreshEnough'
  BY ClockedStep, FreshStep
<1> QED
  BY <1>1, <1>2, InductiveInvariant, PTL DEF Spec

-----------------------------------------------------------------------------
(* Who was killed is not listed                                            *)

\* Who was announced as killed, or will be by a call under way, is killed, and a
\* killed session stays so.
Announced ==
  /\ \A s \in Session : announced[s] # Never => announced[s] <= now /\ life[s] = "killed"
  /\ \A o \in Operator : \A s \in killer[o].done : life[s] = "killed"

\* A snapshot of a query that began after a KILL was announced does not list its session.
Honest(n) == n.at <= now /\ \A s \in Session : n.at > announced[s] => s \notin n.killTargets
AllHonest == /\ Honest(cache)
             /\ \A c \in Client : Honest(task[c].snap) /\ Honest(client[c].shown)

\* Every step keeps the announcements true.
LEMMA AnnouncedStep ==
  ASSUME Inductive, Announced, [Next]_vars
  PROVE  /\ Announced'
         /\ \A s \in Session : announced'[s] = announced[s] \/ announced'[s] = now
         /\ now' >= now /\ now' \in Nat
<1>0. /\ TypeOK /\ killer \in [Operator -> Killer] /\ life \in [Session -> Life] /\ now \in Nat
      /\ announced \in [Session -> Times]
  BY LockNumbers DEF Inductive, TypeOK
<1> DEFINE Good == /\ Announced'
                   /\ \A s \in Session : announced'[s] = announced[s] \/ announced'[s] = now
                   /\ now' >= now /\ now' \in Nat
<1>1. CASE UNCHANGED <<now, life, killer, announced>>
  BY <1>0, <1>1 DEF Announced
<1>2. CASE Tick
  BY <1>0, <1>2 DEF Tick, Announced, TypeOK, Times, Time, Never
<1>3. ASSUME NEW s \in Session, SessionStep(s) PROVE Good
  <2>1. /\ \A r \in Session : life[r] = "killed" => life'[r] = "killed"
        /\ UNCHANGED <<now, killer, announced>>
    BY <1>0, <1>3 DEF SessionStep, Alive
  <2> QED
    BY <1>0, <2>1 DEF Announced, Killer
<1>4. ASSUME NEW o \in Operator, NEW req \in SUBSET Session, KillCall(o, req) PROVE Good
  <2>1. /\ killer'[o].done = {} /\ (\A q \in Operator : q # o => killer'[q] = killer[q])
        /\ UNCHANGED <<now, life, announced>>
    BY <1>0, <1>4 DEF KillCall, NoKill
  <2> QED
    BY <1>0, <2>1 DEF Announced
<1>5. ASSUME NEW o \in Operator, KillRequery(o) \/ AuditOk(o) \/ AuditFails(o) PROVE Good
  <2>1. /\ \A q \in Operator : killer'[q].done = killer[q].done
        /\ UNCHANGED <<now, life, announced>>
    BY <1>0, <1>5 DEF KillRequery, AuditOk, AuditFails, Killer
  <2> QED
    BY <1>0, <2>1 DEF Announced
<1>6. ASSUME NEW o \in Operator, NEW s \in Session, KillOne(o, s) PROVE Good
  <2>1. PICK out \in IF s \in killer[o].current THEN KillOutcome(s)
                     ELSE {[result |-> "SKIPPED", after |-> life[s]]} :
          /\ life' = [life EXCEPT ![s] = out.after]
          /\ killer' = [killer EXCEPT ![o].pc = "auditing", ![o].doing = s, ![o].tries = 0,
                                      ![o].result = out.result,
                                      ![o].done = @ \cup {d \in {s} : out.result = "SUCCESS"}]
    BY <1>6 DEF KillOne
  <2>2. /\ out.after \in {life[s], "killed"}
        /\ out.result = "SUCCESS" => out.after = "killed"
    BY <2>1 DEF KillOutcome
  <2>3. /\ killer'[o].done = killer[o].done \cup {d \in {s} : out.result = "SUCCESS"}
        /\ \A q \in Operator : q # o => killer'[q] = killer[q]
    BY <1>0, <2>1 DEF Killer
  <2>4. /\ \A r \in Session : life[r] = "killed" => life'[r] = "killed"
        /\ out.result = "SUCCESS" => life'[s] = "killed"
        /\ UNCHANGED <<now, announced>>
    BY <1>0, <1>6, <2>1, <2>2 DEF KillOne
  <2>5. \A q \in Operator : killer[q].done \subseteq Session
    BY <1>0 DEF Killer
  <2>6. \A q \in Operator : \A r \in killer'[q].done : life'[r] = "killed"
    BY <2>3, <2>4, <2>5 DEF Announced
  <2> QED
    BY <1>0, <2>4, <2>6 DEF Announced
<1>7. ASSUME NEW o \in Operator, KillFinally(o) PROVE Good
  <2>1. /\ killer'[o].done = {} /\ (\A q \in Operator : q # o => killer'[q] = killer[q])
        /\ UNCHANGED <<now, life>>
        /\ announced' = [s \in Session |->
             IF s \in killer[o].done /\ announced[s] = Never THEN now ELSE announced[s]]
    BY <1>0, <1>7 DEF KillFinally, NoKill
  <2>2. \A s \in Session : announced'[s] = announced[s] \/ (announced'[s] = now /\ s \in killer[o].done)
    BY <2>1
  <2> QED
    BY <1>0, <2>1, <2>2 DEF Announced
<1>8. ASSUME NEW c \in Client, Realtime(c) \/ ClientStep(c) \/ TaskStep(c)
      PROVE  UNCHANGED <<now, life, killer, announced>>
  BY <1>8 DEF Realtime, ClientStep, JoinInFlight, Submit, Install, InstallLate, TaskStep,
              BeginQuery, ReadHolders, QueryFails, PutCache, Complete, RemoveInFlight
<1>9. UNCHANGED vars => UNCHANGED <<now, life, killer, announced>>
  BY DEF vars
<1> QED
  BY <1>1, <1>2, <1>3, <1>4, <1>5, <1>6, <1>7, <1>8, <1>9 DEF Next, KillStep

\* A snapshot that was honest stays so: later announcements are later than it.
LEMMA HonestStays ==
  ASSUME Inductive, Announced, [Next]_vars, NEW n \in Snapshot, Honest(n)
  PROVE  Honest(n)'
<1>1. n.at \in Nat /\ now \in Nat
  BY LockNumbers DEF Inductive, Snapshot, Time
<1> QED
  BY <1>1, AnnouncedStep DEF Honest

\* Every snapshot, cached, in a task or shown, stays honest.
LEMMA AllHonestStep ==
  ASSUME Inductive, Announced, AllHonest, [Next]_vars
  PROVE  AllHonest'
<1> DEFINE Later(n) == n.at <= now' /\ \A s \in Session : n.at > announced'[s] => s \notin n.killTargets
           Kept == Later(cache') /\ \A c \in Client : Later(task'[c].snap) /\ Later(client'[c].shown)
<1>0. /\ TypeOK /\ task \in [Client -> Task] /\ client \in [Client -> Viewer] /\ cache \in Snapshot
      /\ now \in Nat /\ now <= MaxTime
      /\ \A c \in Client : task[c].snap \in Snapshot /\ client[c].shown \in Snapshot
  BY LockNumbers DEF Inductive, TypeOK, Time
<1>1. /\ Later(cache)
      /\ \A c \in Client : Later(task[c].snap) /\ Later(client[c].shown)
  <2>1. \A n \in Snapshot : Honest(n) => Later(n)
    BY HonestStays DEF Honest
  <2> QED
    BY <1>0, <2>1 DEF AllHonest
<1>2. /\ Later(NoSnapshot) /\ Later(Failed(now))
      /\ Later([at |-> now, ok |-> TRUE, killTargets |-> {}, set |-> TRUE])
  <2>1. 0 <= now' /\ now <= now'
    BY <1>0, AnnouncedStep
  <2> QED
    BY <2>1 DEF NoSnapshot, Failed
<1> HIDE DEF Later
<1>3. ASSUME NEW c \in Client, Realtime(c) PROVE Kept
  <2>1. /\ UNCHANGED <<cache, task>> /\ (\A d \in Client : d # c => client'[d] = client[d])
        /\ client'[c].shown = cache \/ client'[c].shown = NoSnapshot
    BY <1>0, <1>3 DEF Realtime
  <2> QED
    BY <1>1, <1>2, <2>1
<1>4. ASSUME NEW c \in Client, ClientStep(c) PROVE Kept
  <2>1. /\ cache' = cache /\ (\A d \in Client : d # c => client'[d] = client[d] /\ task'[d] = task[d])
        /\ task'[c].snap = task[c].snap \/ task'[c].snap = NoSnapshot
    <3>1. CASE JoinInFlight(c) \/ InstallLate(c)
      BY <1>0, <3>1 DEF JoinInFlight, InstallLate
    <3>2. CASE Submit(c)
      BY <1>0, <3>2 DEF Submit, NoTask
    <3>3. CASE Install(c)
      BY <1>0, <3>3 DEF Install, Task
    <3> QED
      BY <1>4, <3>1, <3>2, <3>3 DEF ClientStep
  <2>2. client'[c].shown = client[c].shown \/ \E t \in Client : client'[c].shown = task[t].snap
    <3>1. CASE JoinInFlight(c)
      BY <1>0, <3>1 DEF JoinInFlight, TypeOK, Viewer
    <3>2. CASE Submit(c) \/ Install(c) \/ InstallLate(c)
      BY <1>0, <3>2 DEF Submit, Install, InstallLate, Viewer
    <3> QED
      BY <1>4, <3>1, <3>2 DEF ClientStep
  <2> QED
    BY <1>1, <1>2, <2>1, <2>2
<1>5. ASSUME NEW t \in Client, BeginQuery(t) \/ QueryFails(t) PROVE Kept
  <2>1. /\ UNCHANGED <<cache, client>> /\ (\A d \in Client : d # t => task'[d] = task[d])
        /\ \/ task'[t].snap = Failed(now)
           \/ task'[t].snap = [at |-> now, ok |-> TRUE, killTargets |-> {}, set |-> TRUE]
    BY <1>0, <1>5 DEF BeginQuery, QueryFails, Task
  <2> QED
    BY <1>1, <1>2, <2>1
<1>6. ASSUME NEW t \in Client, ReadHolders(t) PROVE Kept
  <2>1. /\ UNCHANGED <<now, life, cache, client, announced>> /\ (\A d \in Client : d # t => task'[d] = task[d])
        /\ task'[t].snap.at = task[t].snap.at /\ task'[t].snap.killTargets = KillTargets
    BY <1>0, <1>6 DEF ReadHolders, Task, Snapshot
  <2>2. task[t].snap.at <= now /\ task[t].snap.at \in Nat
    BY LockNumbers DEF Inductive, AllHonest, Honest
  <2>3. \A s \in Session : task[t].snap.at > announced[s] => s \notin KillTargets
    <3> SUFFICES ASSUME NEW s \in Session, task[t].snap.at > announced[s]
                 PROVE  life[s] = "killed"
      BY DEF KillTargets, TmHolders
    <3>1. announced[s] # Never
      BY <1>0, <2>2 DEF Never
    <3> QED
      BY <3>1 DEF Announced
  <2>4. Later(task'[t].snap)
    BY <2>1, <2>2, <2>3 DEF Later
  <2> QED
    BY <1>1, <2>1, <2>4
<1>7. ASSUME NEW t \in Client, PutCache(t) PROVE Kept
  <2>1. cache' = task[t].snap /\ client' = client /\ (\A d \in Client : task'[d].snap = task[d].snap)
    BY <1>0, <1>7 DEF PutCache, Task
  <2> QED
    BY <1>1, <2>1
<1>8. ASSUME NEW t \in Client, Complete(t) PROVE Kept
  <2>1. cache' = cache /\ \A d \in Client : task'[d].snap = task[d].snap
    BY <1>0, <1>8 DEF Complete, Task
  <2>2. \A d \in Client : client'[d].shown = client[d].shown \/ client'[d].shown = task[t].snap
    BY <1>0, <1>8 DEF Complete, Viewer
  <2> QED
    BY <1>1, <2>1, <2>2
<1>9. ASSUME NEW t \in Client, RemoveInFlight(t) PROVE Kept
  <2>1. /\ UNCHANGED <<cache, client>> /\ (\A d \in Client : d # t => task'[d] = task[d])
        /\ task'[t].snap = NoSnapshot
    BY <1>0, <1>9 DEF RemoveInFlight, NoTask
  <2> QED
    BY <1>1, <1>2, <2>1
<1>10. ASSUME NEW o \in Operator,
              (\E req \in SUBSET Session : KillCall(o, req)) \/ KillStep(o)
       PROVE  Kept
  <2>1. /\ UNCHANGED <<task, client>>
        /\ cache' = cache \/ cache' = NoSnapshot
    BY <1>10 DEF KillCall, KillStep, KillRequery, KillOne, AuditOk, AuditFails, KillFinally
  <2> QED
    BY <1>1, <1>2, <2>1
<1>11. ASSUME Tick \/ (\E s \in Session : SessionStep(s)) \/ UNCHANGED vars
       PROVE  Kept
  <2>1. cache' = cache /\ task' = task /\ client' = client
    BY <1>11 DEF Tick, SessionStep, vars
  <2> QED
    BY <1>1, <2>1
<1>12. Kept => AllHonest'
  BY DEF AllHonest, Honest, Later
<1> QED
  BY <1>3, <1>4, <1>5, <1>6, <1>7, <1>8, <1>9, <1>10, <1>11, <1>12 DEF Next, TaskStep

\* Whoever asks later than one cache window or one query after a KILL was answered is not
\* shown the killed session, for any number of viewers, operators and sessions.
THEOREM KilledAreGone == Spec => []KilledGoneAfterGrace
<1>1. Init => Announced /\ AllHonest
  BY DEF Init, Announced, AllHonest, Honest, NoTask, NoSnapshot, NoKill
<1>2. Inductive /\ Announced /\ AllHonest /\ [Next]_vars => Announced' /\ AllHonest'
  BY AnnouncedStep, AllHonestStep
<1>3. Inductive /\ Announced /\ AllHonest /\ FreshEnough => KilledGoneAfterGrace
  <2> SUFFICES ASSUME Inductive, Announced, AllHonest, FreshEnough, ~LeftBehind,
                      NEW c \in Client, NEW s \in Session,
                      client[c].shown.set, client[c].asked > announced[s] + Longest
               PROVE  s \notin client[c].shown.killTargets
    BY DEF KilledGoneAfterGrace
  <2>1. /\ client[c].asked \in Nat /\ client[c].shown.at \in Nat /\ Longest \in Nat
        /\ announced[s] \in Nat
    BY LockNumbers DEF Inductive, TypeOK, Times, Time, Never
  <2>2. client[c].asked - client[c].shown.at <= Longest
    BY DEF FreshEnough
  <2>3. client[c].shown.at > announced[s]
    BY <2>1, <2>2
  <2> QED
    BY <2>3 DEF AllHonest, Honest
<1> QED
  BY <1>1, <1>2, <1>3, InductiveInvariant, AnswersAreFresh, PTL DEF Spec

-----------------------------------------------------------------------------
(* The trend and the one-minute maxima (LockMinute)                        *)

\* The summary in memory is of no later minute than the clock or the running query, and of
\* a count that was recorded for its minute.
SummaryOfPast ==
  /\ query # Nothing => query.at <= clock
  /\ cur # Nothing => /\ cur.minute <= MinuteOf(clock)
                      /\ query # Nothing => cur.minute <= MinuteOf(query.at)
                      /\ cur.over \in seen[cur.minute]

\* What was recorded for a minute is in memory, unless a row of it was saved or lost.
NothingForgotten ==
  \A m \in Minute :
    \/ stored[m] # Nothing \/ m \in lost
    \/ IF cur # Nothing /\ cur.minute = m THEN \A n \in seen[m] : n <= cur.over ELSE seen[m] = {}

\* The trend ends with the past.
TrendOfPast ==
  \A i \in 1..Len(history) : /\ history[i].t <= clock
                             /\ query # Nothing => history[i].t <= query.at

MinuteInv ==
  /\ ShownWasMeasured /\ SummaryOfPast /\ NothingForgotten /\ TrendOfPast

Point == [t : 0..LastTick, over : Counts]
Summary == [minute : Minute, over : Counts]
Ordered(h) == \A i, j \in 1..Len(h) : i < j => h[i].t <= h[j].t
InWindow(h) == \A i, j \in 1..Len(h) : i < j => h[j].t - h[i].t <= WindowTicks

-----------------------------------------------------------------------------
\* The minute of a later instant is no earlier, and every instant has a minute.
LEMMA MinuteOrder ==
  ASSUME NEW a \in 0..LastTick, NEW b \in 0..LastTick
  PROVE  MinuteOf(a) \in Minute /\ (a <= b => MinuteOf(a) <= MinuteOf(b))
<1> DEFINE d == MinuteTicks
<1>1. d \in Nat /\ d > 0 /\ LastTick \in Nat
  BY MinuteAssumption
<1>2. ASSUME NEW x \in Nat, NEW y \in Nat, x <= y
      PROVE  x \div d <= y \div d
  BY <1>1, <1>2
<1>3. \A x \in Nat : x \div d \in Nat
  BY <1>1
<1> QED
  BY <1>1, <1>2, <1>3 DEF MinuteOf, Minute

\* A set of numbers has a least one.
LEMMA LeastNumber ==
  ASSUME NEW T \in SUBSET Nat, T # {}
  PROVE  \E m \in T : \A n \in T : m <= n
<1>1. PICK m \in T : \A n \in T : ~(<<n, m>> \in OpToRel(<, Nat))
  BY NatLessThanWellFounded, WFMin
<1>2. ASSUME NEW n \in T, n < m
      PROVE  FALSE
  <2>1. <<n, m>> \in OpToRel(<, Nat)
    BY <1>2 DEF OpToRel
  <2> QED
    BY <1>1, <2>1
<1>3. \A n \in T : m <= n
  BY <1>2
<1> QED
  BY <1>3

\* The trend with one more point is what of it lies in the window of that point.
LEMMA TrendInWindow ==
  ASSUME NEW p \in Point, history \in Seq(Point), Ordered(history),
         \A i \in 1..Len(history) : history[i].t <= p.t
  PROVE  /\ Trend(p) \in Seq(Point) /\ Ordered(Trend(p)) /\ InWindow(Trend(p))
         /\ \A i \in 1..Len(Trend(p)) : Trend(p)[i].t <= p.t
<1> DEFINE points == Append(history, p)
           n == Len(history) + 1
           Old(i) == points[i].t < p.t - WindowTicks
           first == CHOOSE i \in 1..Len(points) : ~Old(i) /\ \A j \in 1..(i - 1) : Old(j)
           h == SubSeq(points, first, Len(points))
<1>0. Len(history) \in Nat /\ WindowTicks \in Nat /\ n \in Nat
  BY MinuteAssumption, LenProperties
<1>1. /\ points \in Seq(Point) /\ Len(points) = n /\ points[n] = p
      /\ \A i \in 1..Len(history) : points[i] = history[i]
  BY AppendProperties
<1>2. Trend(p) = h
  BY DEF Trend
<1> HIDE DEF points
<1>3. \A i \in 1..n : points[i] \in Point
  BY <1>1, ElementOfSeq
<1>4. \A i \in 1..n : i = n \/ i \in 1..Len(history)
  BY <1>0
<1>5. \A i \in 1..n : points[i].t <= p.t
  BY <1>1, <1>4 DEF Point
<1>6. \A i, j \in 1..n : i < j => points[i].t <= points[j].t
  <2>1. TAKE i \in 1..n, j \in 1..n
  <2>2. CASE j = n
    BY <1>1, <1>5, <2>2
  <2>3. CASE j # n /\ i < j
    <3>1. i \in 1..Len(history) /\ j \in 1..Len(history)
      BY <1>0, <1>4, <2>3
    <3> QED
      BY <1>1, <2>3, <3>1 DEF Ordered
  <2> QED
    BY <2>2, <2>3
<1>7. \E i \in 1..Len(points) : ~Old(i) /\ \A j \in 1..(i - 1) : Old(j)
  <2> DEFINE T == {i \in 1..n : ~Old(i)}
  <2>1. n \in T
    BY <1>0, <1>1 DEF Point
  <2>2. T \subseteq Nat
    OBVIOUS
  <2>3. PICK i \in T : \A j \in T : i <= j
    BY <2>1, <2>2, LeastNumber
  <2>4. \A j \in 1..(i - 1) : j \in 1..n /\ ~(i <= j)
    BY <1>0, <2>3
  <2>5. \A j \in 1..(i - 1) : Old(j)
    BY <2>3, <2>4
  <2> QED
    BY <1>1, <2>3, <2>5
<1>8. first \in 1..n /\ ~Old(first)
  BY <1>1, <1>7
<1> HIDE DEF first
<1> DEFINE k == n - first + 1
<1>9. /\ h \in Seq(Point) /\ Len(h) = k /\ k \in Nat
      /\ \A i \in 1..k : h[i] = points[first + i - 1] /\ first + i - 1 \in 1..n /\ first + i - 1 >= first
  <2>1. first \in Int /\ n \in Int /\ first <= n /\ k \in Nat
    BY <1>0, <1>8
  <2>2. \A i \in first..n : points[i] \in Point
    BY <1>3, <1>8
  <2>3. /\ SubSeq(points, first, n) \in Seq(Point)
        /\ Len(SubSeq(points, first, n)) = IF first <= n THEN n - first + 1 ELSE 0
        /\ \A i \in 1..(n - first + 1) : SubSeq(points, first, n)[i] = points[first + i - 1]
    BY <2>1, <2>2, SubSeqProperties
  <2>4. \A i \in 1..k : first + i - 1 \in 1..n /\ first + i - 1 >= first
    BY <1>0, <1>8
  <2> QED
    BY <1>1, <2>1, <2>3, <2>4
<1> HIDE DEF h, k
<1>10. Ordered(h)
  <2> SUFFICES ASSUME NEW i \in 1..k, NEW j \in 1..k, i < j
               PROVE  h[i].t <= h[j].t
    BY <1>9 DEF Ordered
  <2>1. first + i - 1 < first + j - 1
    BY <1>8
  <2> QED
    BY <1>6, <1>9, <2>1
<1>11. InWindow(h)
  <2> SUFFICES ASSUME NEW i \in 1..k, NEW j \in 1..k, i < j
               PROVE  h[j].t - h[i].t <= WindowTicks
    BY <1>9 DEF InWindow
  <2> DEFINE a == points[first + i - 1].t
             z == points[first + j - 1].t
             f == points[first].t
  <2>1. a \in Int /\ z \in Int /\ f \in Int /\ p.t \in Int
    <3>1. /\ points[first + i - 1] \in Point /\ points[first + j - 1] \in Point
          /\ points[first] \in Point /\ p \in Point
      BY <1>3, <1>8, <1>9
    <3>2. \A x \in Point : x.t \in Int
      BY MinuteAssumption DEF Point
    <3> QED
      BY <3>1, <3>2
  <2>2. z <= p.t
    BY <1>5, <1>9
  <2>3. f <= a
    <3>1. CASE first + i - 1 = first
      BY <2>1, <3>1
    <3>2. CASE first + i - 1 > first
      BY <1>6, <1>8, <1>9, <3>2
    <3> QED
      BY <1>8, <1>9, <3>1, <3>2
  <2>4. f >= p.t - WindowTicks
    BY <1>0, <1>8, <2>1
  <2>5. h[i].t = a /\ h[j].t = z
    BY <1>9
  <2> HIDE DEF a, z, f
  <2> QED
    BY <1>0, <2>1, <2>2, <2>3, <2>4, <2>5
<1>12. \A i \in 1..Len(h) : h[i].t <= p.t
  BY <1>5, <1>9
<1> QED
  BY <1>2, <1>9, <1>10, <1>11, <1>12

-----------------------------------------------------------------------------
\* Time passes, a query begins or fails.
LEMMA ClockStep ==
  ASSUME MinuteInv, ClockTick \/ BeginMeasure \/ MeasureFails
  PROVE  MinuteInv'
<1>1. UNCHANGED <<cur, stored, history, seen, lost>> /\ clock \in 0..LastTick /\ LastTick \in Nat
  BY MinuteAssumption DEF ClockTick, BeginMeasure, MeasureFails, MinuteInv, ShownWasMeasured, MinuteTypeOK
<1>2. clock' \in 0..LastTick /\ clock <= clock'
  BY <1>1 DEF ClockTick, BeginMeasure, MeasureFails
<1>3. MinuteOf(clock) <= MinuteOf(clock') /\ MinuteOf(clock) \in Nat /\ MinuteOf(clock') \in Nat
  BY <1>1, <1>2, MinuteOrder DEF Minute
<1>4. query' \in [at : 0..LastTick, over : Counts] \cup {Nothing}
  BY <1>1 DEF ClockTick, BeginMeasure, MeasureFails, MinuteInv, ShownWasMeasured, MinuteTypeOK
<1>5. query' # Nothing => (query'.at = clock' \/ (query # Nothing /\ query' = query)) /\ query'.at <= clock'
  <2>1. CASE ClockTick
    <3>1. query # Nothing => query.at \in 0..LastTick
      BY DEF MinuteInv, ShownWasMeasured, MinuteTypeOK
    <3> QED
      BY <1>1, <1>2, <2>1, <3>1 DEF ClockTick, MinuteInv, SummaryOfPast
  <2>2. CASE BeginMeasure
    BY <1>1, <2>2 DEF BeginMeasure
  <2>3. CASE MeasureFails
    BY <2>3 DEF MeasureFails
  <2> QED
    BY <2>1, <2>2, <2>3
<1>6. MinuteTypeOK'
  BY <1>1, <1>2, <1>4 DEF MinuteInv, ShownWasMeasured, MinuteTypeOK
<1>7. StoredIsFinished' /\ StoredIsNotInvented' /\ TrendIsWindow'
  BY <1>1, <1>3 DEF MinuteInv, ShownWasMeasured, StoredIsFinished, StoredIsNotInvented, TrendIsWindow, Minute
<1>8. SummaryOfPast'
  <2>1. cur # Nothing => cur.minute \in Nat
    BY DEF MinuteInv, ShownWasMeasured, MinuteTypeOK, Minute
  <2> QED
    BY <1>1, <1>3, <1>5, <2>1 DEF MinuteInv, SummaryOfPast
<1>9. NothingForgotten'
  BY <1>1 DEF MinuteInv, NothingForgotten
<1>10. TrendOfPast'
  <2>1. \A i \in 1..Len(history) : history[i].t \in 0..LastTick
    <3>1. history \in Seq(Point)
      BY DEF MinuteInv, ShownWasMeasured, MinuteTypeOK, Point
    <3>2. \A i \in 1..Len(history) : history[i] \in Point
      BY <3>1, ElementOfSeq
    <3> QED
      BY <3>2 DEF Point
  <2> QED
    BY <1>1, <1>2, <1>5, <2>1 DEF MinuteInv, TrendOfPast
<1> QED
  BY <1>6, <1>7, <1>8, <1>9, <1>10 DEF MinuteInv, ShownWasMeasured

\* A row is saved of a summary whose minute is over, or it is lost.
LEMMA SaveStep ==
  ASSUME MinuteInv, cur # Nothing, SaveSummary(cur), cur.minute < MinuteOf(clock), UNCHANGED clock
  PROVE  /\ stored' \in [Minute -> Counts \cup {Nothing}] /\ lost' \subseteq Minute
         /\ StoredIsFinished'
         /\ \A m \in Minute : stored'[m] # Nothing => \E n \in seen[m] : stored'[m] <= n
         /\ stored'[cur.minute] # Nothing \/ cur.minute \in lost'
         /\ \A m \in Minute \ {cur.minute} : stored'[m] = stored[m] /\ (m \in lost' <=> m \in lost)
         /\ stored[cur.minute] # Nothing => stored'[cur.minute] # Nothing
         /\ cur.minute \in lost => cur.minute \in lost'
         /\ stored' = stored \/ stored' = [stored EXCEPT ![cur.minute] = cur.over]
<1>1. cur.minute \in Minute /\ cur.over \in Counts /\ cur.over \in Nat /\ cur.over # Nothing
  BY CountsAssumption DEF MinuteInv, ShownWasMeasured, MinuteTypeOK
<1>2. stored \in [Minute -> Counts \cup {Nothing}] /\ lost \subseteq Minute
  BY DEF MinuteInv, ShownWasMeasured, MinuteTypeOK
<1>3. cur.over \in seen[cur.minute]
  BY DEF MinuteInv, SummaryOfPast
<1>4. CASE stored' = [stored EXCEPT ![cur.minute] = cur.over] /\ lost' = lost
  <2>1. stored'[cur.minute] = cur.over /\ \A m \in Minute \ {cur.minute} : stored'[m] = stored[m]
    BY <1>1, <1>2, <1>4
  <2>2. stored' \in [Minute -> Counts \cup {Nothing}]
    BY <1>1, <1>2, <1>4
  <2>3. StoredIsFinished'
    BY <2>1 DEF MinuteInv, ShownWasMeasured, StoredIsFinished
  <2>4. \A m \in Minute : stored'[m] # Nothing => \E n \in seen[m] : stored'[m] <= n
    BY <1>1, <1>3, <2>1 DEF MinuteInv, ShownWasMeasured, StoredIsNotInvented
  <2> QED
    BY <1>1, <1>2, <1>4, <2>1, <2>2, <2>3, <2>4
<1>5. CASE stored' = stored /\ lost' = lost \cup {cur.minute}
  BY <1>1, <1>2, <1>5 DEF MinuteInv, ShownWasMeasured, StoredIsFinished, StoredIsNotInvented
<1> QED
  BY <1>4, <1>5 DEF SaveSummary

\* The flush saves the summary of a minute that is over.
LEMMA FlushStep ==
  ASSUME MinuteInv, Flush
  PROVE  MinuteInv'
<1>1. /\ cur # Nothing /\ cur.minute < MinuteOf(clock) /\ SaveSummary(cur) /\ cur' = Nothing
      /\ UNCHANGED <<clock, query, history, seen>>
  BY DEF Flush
<1>2. /\ stored' \in [Minute -> Counts \cup {Nothing}] /\ lost' \subseteq Minute
      /\ StoredIsFinished'
      /\ \A m \in Minute : stored'[m] # Nothing => \E n \in seen[m] : stored'[m] <= n
      /\ stored'[cur.minute] # Nothing \/ cur.minute \in lost'
      /\ \A m \in Minute \ {cur.minute} : stored'[m] = stored[m] /\ (m \in lost' <=> m \in lost)
  BY <1>1, SaveStep
<1>3. MinuteTypeOK'
  BY <1>1, <1>2 DEF MinuteInv, ShownWasMeasured, MinuteTypeOK
<1>4. StoredIsNotInvented' /\ TrendIsWindow' /\ SummaryOfPast' /\ TrendOfPast'
  BY <1>1, <1>2 DEF MinuteInv, ShownWasMeasured, StoredIsNotInvented, TrendIsWindow, SummaryOfPast, TrendOfPast
<1>5. NothingForgotten'
  BY <1>1, <1>2 DEF MinuteInv, NothingForgotten
<1> QED
  BY <1>2, <1>3, <1>4, <1>5 DEF MinuteInv, ShownWasMeasured

\* A count is recorded in the summary of its minute; that of an earlier one is saved first.
LEMMA RecordStep ==
  ASSUME MinuteInv, Record
  PROVE  MinuteInv'
<1> DEFINE M == MinuteOf(query.at)
           goesOn == cur # Nothing /\ cur.minute = M
           n0 == query.over
<1>1. /\ query # Nothing /\ query.at \in 0..LastTick /\ n0 \in Counts /\ n0 \in Nat /\ query.at <= clock
      /\ clock \in 0..LastTick /\ LastTick \in Nat
  BY CountsAssumption, MinuteAssumption DEF Record, MinuteInv, ShownWasMeasured, MinuteTypeOK, SummaryOfPast
<1>2. M \in Minute /\ M \in Nat /\ MinuteOf(clock) \in Nat /\ M <= MinuteOf(clock)
  BY <1>1, MinuteOrder DEF Minute
<1>3. /\ history' = Trend([t |-> query.at, over |-> n0])
      /\ cur' = [minute |-> M, over |-> Larger(IF goesOn THEN cur.over ELSE Nothing, n0)]
      /\ seen' = [seen EXCEPT ![M] = @ \cup {n0}]
      /\ query' = Nothing /\ clock' = clock
      /\ IF cur # Nothing /\ cur.minute # M THEN SaveSummary(cur) ELSE UNCHANGED <<stored, lost>>
  BY DEF Record
<1> HIDE DEF M
<1>4. cur # Nothing => /\ cur.minute \in Minute /\ cur.minute \in Nat /\ cur.minute <= M
                       /\ cur.over \in Counts /\ cur.over \in Nat /\ cur.over \in seen[cur.minute]
  <2>1. cur # Nothing => cur.minute \in Minute /\ cur.over \in Counts
    BY DEF MinuteInv, ShownWasMeasured, MinuteTypeOK
  <2>2. cur # Nothing => cur.minute <= M /\ cur.over \in seen[cur.minute]
    BY <1>1 DEF MinuteInv, SummaryOfPast, M
  <2>3. Minute \subseteq Nat /\ Counts \subseteq Nat
    BY CountsAssumption DEF Minute
  <2> QED
    BY <2>1, <2>2, <2>3
<1>5. seen \in [Minute -> SUBSET Counts] /\ seen' \in [Minute -> SUBSET Counts]
  BY <1>1, <1>2, <1>3 DEF MinuteInv, ShownWasMeasured, MinuteTypeOK
<1>6. seen'[M] = seen[M] \cup {n0} /\ \A m \in Minute \ {M} : seen'[m] = seen[m]
  BY <1>2, <1>3, <1>5
<1>7. /\ cur' # Nothing /\ cur'.minute = M /\ cur' \in Summary
      /\ cur'.over \in seen'[M] /\ n0 <= cur'.over
      /\ goesOn => cur.over <= cur'.over
  <2> DEFINE o == Larger(IF goesOn THEN cur.over ELSE Nothing, n0)
  <2>1. o \in Counts /\ o \in Nat /\ n0 <= o /\ o \in seen'[M] /\ (goesOn => cur.over <= o)
    <3>1. CASE goesOn
      <4>1. o = IF cur.over < n0 THEN n0 ELSE cur.over
        <5>1. cur.over # Nothing
          BY <1>4, <3>1, CountsAssumption
        <5> QED
          BY <3>1, <5>1 DEF Larger
      <4> QED
        BY <1>1, <1>4, <1>6, <3>1, <4>1
    <3>2. CASE ~goesOn
      <4>1. o = n0
        BY <3>2 DEF Larger
      <4> QED
        BY <1>1, <1>6, <3>2, <4>1
    <3> QED
      BY <3>1, <3>2
  <2> HIDE DEF o
  <2>2. cur' = [minute |-> M, over |-> o]
    BY <1>3 DEF o
  <2>3. cur' \in Summary
    BY <1>2, <2>1, <2>2 DEF Summary
  <2> QED
    BY <2>1, <2>2, <2>3, NothingAssumption DEF Summary
<1>8. /\ history' \in Seq(Point) /\ Ordered(history') /\ InWindow(history')
      /\ \A i \in 1..Len(history') : history'[i].t <= query.at
  <2> DEFINE p == [t |-> query.at, over |-> n0]
  <2>1. p \in Point /\ p.t = query.at
    BY <1>1 DEF Point
  <2>2. history \in Seq(Point) /\ \A i \in 1..Len(history) : history[i].t <= query.at
    BY <1>1 DEF MinuteInv, ShownWasMeasured, MinuteTypeOK, TrendOfPast, Point
  <2>3. Ordered(history)
    BY DEF MinuteInv, ShownWasMeasured, TrendIsWindow, Ordered
  <2> HIDE DEF p
  <2>4. history' = Trend(p)
    BY <1>3 DEF p
  <2> QED
    BY <2>1, <2>2, <2>3, <2>4, TrendInWindow
<1>9. /\ stored' \in [Minute -> Counts \cup {Nothing}] /\ lost' \subseteq Minute
      /\ StoredIsFinished'
      /\ \A m \in Minute : stored'[m] # Nothing => \E n \in seen[m] : stored'[m] <= n
      /\ \A m \in Minute : stored[m] # Nothing \/ m \in lost => stored'[m] # Nothing \/ m \in lost'
      /\ cur # Nothing /\ cur.minute # M => stored'[cur.minute] # Nothing \/ cur.minute \in lost'
  <2>1. CASE cur # Nothing /\ cur.minute # M
    <3>1. SaveSummary(cur) /\ cur.minute < MinuteOf(clock) /\ cur.minute \in Minute
      BY <1>2, <1>3, <1>4, <2>1
    <3> QED
      BY <1>3, <2>1, <3>1, SaveStep
  <2>2. CASE ~(cur # Nothing /\ cur.minute # M)
    <3>1. stored' = stored /\ lost' = lost /\ clock' = clock
      BY <1>3, <2>2
    <3> QED
      BY <2>2, <3>1 DEF MinuteInv, ShownWasMeasured, MinuteTypeOK, StoredIsFinished, StoredIsNotInvented
  <2> QED
    BY <2>1, <2>2
<1>10. MinuteTypeOK'
  BY <1>1, <1>3, <1>5, <1>7, <1>8, <1>9 DEF MinuteTypeOK, Summary, Point
<1>11. StoredIsNotInvented'
  BY <1>6, <1>9 DEF StoredIsNotInvented
<1>12. TrendIsWindow'
  BY <1>8 DEF TrendIsWindow, Ordered, InWindow
<1>13. SummaryOfPast'
  BY <1>2, <1>3, <1>7 DEF SummaryOfPast
<1>14. TrendOfPast'
  <2>1. \A i \in 1..Len(history') : history'[i].t \in 0..LastTick
    <3>1. \A i \in 1..Len(history') : history'[i] \in Point
      BY <1>8, ElementOfSeq
    <3> QED
      BY <3>1 DEF Point
  <2> QED
    BY <1>1, <1>3, <1>8, <2>1 DEF TrendOfPast
<1>15. NothingForgotten'
  <2> SUFFICES ASSUME NEW m \in Minute, stored'[m] = Nothing, m \notin lost'
               PROVE  IF cur'.minute = m THEN \A n \in seen'[m] : n <= cur'.over ELSE seen'[m] = {}
    BY <1>7 DEF NothingForgotten
  <2>1. stored[m] = Nothing /\ m \notin lost
    BY <1>9
  <2>2. IF cur # Nothing /\ cur.minute = m THEN \A n \in seen[m] : n <= cur.over ELSE seen[m] = {}
    BY <2>1 DEF MinuteInv, NothingForgotten
  <2>3. seen[m] \subseteq Nat
    BY <1>5, CountsAssumption
  <2>4. CASE m = M
    <3>1. \A n \in seen[m] : n <= cur'.over
      <4>1. CASE goesOn
        <5>1. cur.over \in Nat /\ cur'.over \in Nat /\ cur.over <= cur'.over
          BY <1>4, <1>7, <4>1, CountsAssumption DEF Summary
        <5> QED
          BY <2>2, <2>3, <2>4, <4>1, <5>1
      <4>2. CASE ~goesOn
        BY <2>2, <2>4, <4>2
      <4> QED
        BY <4>1, <4>2
    <3> QED
      BY <1>6, <1>7, <2>4, <3>1
  <2>5. CASE m # M
    <3>1. ~(cur # Nothing /\ cur.minute = m)
      BY <1>9, <2>5
    <3> QED
      BY <1>6, <1>7, <2>2, <2>5, <3>1
  <2> QED
    BY <2>4, <2>5
<1> QED
  BY <1>9, <1>10, <1>11, <1>12, <1>13, <1>14, <1>15 DEF MinuteInv, ShownWasMeasured

\* Every step keeps the invariant.
LEMMA MinuteStep ==
  ASSUME MinuteInv, [MinuteNext]_minuteVars
  PROVE  MinuteInv'
<1>1. CASE UNCHANGED minuteVars
  BY <1>1 DEF minuteVars, MinuteInv, ShownWasMeasured, MinuteTypeOK, StoredIsFinished, StoredIsNotInvented,
              TrendIsWindow, SummaryOfPast, NothingForgotten, TrendOfPast
<1> QED
  BY <1>1, ClockStep, RecordStep, FlushStep DEF MinuteNext

\* At the start nothing was measured.
LEMMA MinuteInitInv == MinuteInit => MinuteInv
<1> SUFFICES ASSUME MinuteInit
             PROVE  MinuteInv
  OBVIOUS
<1>1. history \in Seq(Point) /\ Len(history) = 0
  BY EmptySeq DEF MinuteInit
<1>2. TrendIsWindow /\ TrendOfPast
  BY <1>1 DEF TrendIsWindow, TrendOfPast
<1>3. MinuteTypeOK
  BY <1>1, MinuteAssumption DEF MinuteInit, MinuteTypeOK, Point
<1> QED
  BY <1>2, <1>3 DEF MinuteInit, MinuteInv, ShownWasMeasured, StoredIsFinished, StoredIsNotInvented, SummaryOfPast,
                    NothingForgotten

\* A row that appears for a minute is of the summary in memory, which has forgotten nothing.
LEMMA FirstRow ==
  ASSUME MinuteInv, [MinuteNext]_minuteVars,
         NEW m \in Minute, stored[m] = Nothing, stored'[m] # Nothing, m \notin lost
  PROVE  \A n \in seen[m] : n <= stored'[m]
<1>1. cur # Nothing /\ SaveSummary(cur) /\ cur.minute < MinuteOf(clock) /\ clock' = clock
  <2>1. CASE Flush
    BY <2>1 DEF Flush
  <2>2. CASE Record
    <3> DEFINE M == MinuteOf(query.at)
    <3>1. clock' = clock /\ IF cur # Nothing /\ cur.minute # M THEN SaveSummary(cur) ELSE UNCHANGED <<stored, lost>>
      BY <2>2 DEF Record
    <3>2. /\ query # Nothing /\ query.at \in 0..LastTick /\ query.at <= clock /\ clock \in 0..LastTick
      BY <2>2 DEF Record, MinuteInv, ShownWasMeasured, MinuteTypeOK, SummaryOfPast
    <3>3. M \in Nat /\ MinuteOf(clock) \in Nat /\ M <= MinuteOf(clock)
      BY <3>2, MinuteOrder DEF Minute
    <3>4. cur # Nothing => cur.minute \in Nat /\ cur.minute <= M
      BY <3>2 DEF MinuteInv, ShownWasMeasured, MinuteTypeOK, SummaryOfPast, Minute
    <3> HIDE DEF M
    <3> QED
      BY <3>1, <3>3, <3>4
  <2>3. CASE ClockTick \/ BeginMeasure \/ MeasureFails \/ UNCHANGED minuteVars
    BY <2>3 DEF ClockTick, BeginMeasure, MeasureFails, minuteVars
  <2> QED
    BY <2>1, <2>2, <2>3 DEF MinuteNext
<1>2. stored' = [stored EXCEPT ![cur.minute] = cur.over] /\ cur.minute = m
  <2>1. stored' = stored \/ stored' = [stored EXCEPT ![cur.minute] = cur.over]
    BY <1>1, SaveStep
  <2>2. stored \in [Minute -> Counts \cup {Nothing}]
    BY DEF MinuteInv, ShownWasMeasured, MinuteTypeOK
  <2> QED
    BY <2>1, <2>2
<1>3. stored'[m] = cur.over
  BY <1>2 DEF MinuteInv, ShownWasMeasured, MinuteTypeOK
<1>4. \A n \in seen[m] : n <= cur.over
  BY <1>1, <1>2 DEF MinuteInv, NothingForgotten
<1> QED
  BY <1>3, <1>4

\* However queries, records and flushes interleave and saves fail: no row of a minute that
\* is not over, no row of more holders than were found, and a trend in order and in its window.
THEOREM MeasuredOnly == MinuteSpec => []ShownWasMeasured
<1>1. MinuteInit => MinuteInv
  BY MinuteInitInv
<1>2. MinuteInv /\ [MinuteNext]_minuteVars => MinuteInv'
  BY MinuteStep
<1>3. MinuteInv => ShownWasMeasured
  BY DEF MinuteInv
<1> QED
  BY <1>1, <1>2, <1>3, PTL DEF MinuteSpec

\* The first row saved of a minute, if no save of it failed before, is the largest count
\* recorded for it until then, also when the minute left the memory in between.
THEOREM MaximumComesFirst == MinuteSpec => FirstRowIsMaximum
<1>1. MinuteInit => MinuteInv
  BY MinuteInitInv
<1>2. MinuteInv /\ [MinuteNext]_minuteVars => MinuteInv'
  BY MinuteStep
<1>3. MinuteInv /\ [MinuteNext]_minuteVars =>
        [\A m \in Minute : stored[m] = Nothing /\ stored'[m] # Nothing /\ m \notin lost
           => \A n \in seen[m] : n <= stored'[m]]_minuteVars
  BY FirstRow
<1> QED
  BY <1>1, <1>2, <1>3, PTL DEF MinuteSpec, FirstRowIsMaximum
=============================================================================
