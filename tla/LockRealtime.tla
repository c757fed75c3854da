---------------------------- MODULE LockRealtime ----------------------------
(***************************************************************************)
(* LockRealtimeService for one monitored database: the two-second snapshot *)
(* cache, the shared in-flight query, and the KILL of TM lock holders.     *)
(*                                                                         *)
(* Every map of the service is keyed by the database id and no step reads  *)
(* the entry of another database, so one database is modelled.  A Client   *)
(* is a browser request thread, a task is the CompletableFuture (and the   *)
(* worker thread running it) that the request of the same name submitted,  *)
(* an Operator is one call of killTmHolders, so their number bounds the    *)
(* KILL calls of a run.                                                    *)
(***************************************************************************)
EXTENDS Integers, FiniteSets

CONSTANTS
  Client,        \* request threads of GET .../lock-realtime
  Operator,      \* calls of POST .../kill
  Session,       \* Oracle sessions, one per (SID, SERIAL#) pair
  UserSession,   \* those whose v$session.type is USER
  SidOf,         \* the SID of each session: a SID is reused with a new SERIAL#
  CacheTicks,    \* dbagent.monitor.lock-cache-millis, in clock ticks
  QueryTicks,    \* longest life of a task: connection wait plus query timeouts
  FastTask,      \* may a task complete before its callback is registered?
  MaxTime,       \* bound on the clock
  None

ASSUME UserAssumption == UserSession \subseteq Session
ASSUME TickAssumption == CacheTicks \in Nat /\ QueryTicks \in Nat /\ MaxTime \in Nat
ASSUME FastAssumption == FastTask \in BOOLEAN
ASSUME NoneAssumption == None \notin Client

VARIABLES
  now,        \* System.currentTimeMillis()
  life,       \* the target database: what each session is doing
  cache,      \* cache.get(id)
  inFlight,   \* inFlight.get(id): the client whose future is in the map
  binOwner,   \* the client inside computeIfAbsent's mapping function (bin locked)
  task,       \* the futures
  client,     \* the realtime() requests
  killer,     \* the killTmHolders() requests
  audit,      \* mon_kill_audit rows
  unaudited,  \* sessions answered with auditWriteFailed
  announced   \* when the KILL of a session was answered (history variable)

vars == <<now, life, cache, inFlight, binOwner, task, client, killer,
          audit, unaudited, announced>>

-----------------------------------------------------------------------------
Time == 0..MaxTime
NoSnapshot == [at |-> 0, ok |-> FALSE, killTargets |-> {}, set |-> FALSE]
Snapshot == [at : Time, ok : BOOLEAN, killTargets : SUBSET Session, set : BOOLEAN]
Failed(t) == [at |-> t, ok |-> FALSE, killTargets |-> {}, set |-> TRUE]

Alive(s) == life[s] \in {"holding", "idle"}
TmHolders == {s \in Session : life[s] = "holding"}

\* evaluate and isKillable with the default settings: USER sessions only.
KillTargets == TmHolders \cap UserSession

\* Mutant: a cached snapshot is served whatever its age.
FreshIfCached(snap) == snap.set

\* realtime(): cached != null && now - cached.at < cacheMillis
Fresh(snap) == snap.set /\ now - snap.at < CacheTicks

TaskPc == {"none", "queued", "querying", "have", "put", "completed"}
Running == {"queued", "querying", "have", "put"}
NoTask == [pc |-> "none", since |-> 0, snap |-> NoSnapshot, hook |-> FALSE]
NoKill == [pc |-> "idle", req |-> {}, todo |-> {}, current |-> {}, doing |-> None,
           result |-> "SKIPPED", tries |-> 0, done |-> {}]

Task == [pc : TaskPc, since : Time, snap : Snapshot, hook : BOOLEAN]
Viewer == [pc : {"idle", "miss", "submit", "join", "spin"},
           on : Client \cup {None}, asked : Time, shown : Snapshot]
Result == {"SKIPPED", "SUCCESS", "FAILED"}
Killer == [pc : {"idle", "called", "killing", "auditing", "finally", "answered"},
           req : SUBSET Session, todo : SUBSET Session, current : SUBSET Session,
           doing : Session \cup {None}, result : Result, tries : 0..1, done : SUBSET Session]
AuditRow == [session : Session, result : Result]
Life == {"unborn", "holding", "idle", "gone", "killed"}
Never == MaxTime + 1
Times == Time \cup {Never}

TypeOK ==
  /\ now \in Time
  /\ life \in [Session -> Life]
  /\ cache \in Snapshot
  /\ inFlight \in Client \cup {None}
  /\ binOwner \in Client \cup {None}
  /\ task \in [Client -> Task]
  /\ client \in [Client -> Viewer]
  /\ killer \in [Operator -> Killer]
  /\ audit \subseteq AuditRow
  /\ unaudited \subseteq Session
  /\ announced \in [Session -> Times]

Init ==
  /\ now = 0
  /\ life = [s \in Session |-> "unborn"]
  /\ cache = NoSnapshot
  /\ inFlight = None
  /\ binOwner = None
  /\ task = [c \in Client |-> NoTask]
  /\ client = [c \in Client |-> [pc |-> "idle", on |-> None, asked |-> 0, shown |-> NoSnapshot]]
  /\ killer = [o \in Operator |-> NoKill]
  /\ audit = {}
  /\ unaudited = {}
  /\ announced = [s \in Session |-> Never]

-----------------------------------------------------------------------------
(* The environment: the clock and the target database.                     *)

\* A task, callback included, lives at most QueryTicks.  A future left in the
\* map without a callback is not a running task and does not hold the clock.
Tick ==
  /\ now < MaxTime
  /\ \A c \in Client : (task[c].pc \in Running \/ task[c].hook) => now - task[c].since < QueryTicks
  /\ now' = now + 1
  /\ UNCHANGED <<life, cache, inFlight, binOwner, task, client, killer, audit, unaudited, announced>>

SessionStep(s) ==
  /\ \/ /\ life[s] = "unborn"
        /\ \A r \in Session : SidOf[r] = SidOf[s] => ~Alive(r)
        /\ life' = [life EXCEPT ![s] = "holding"]
     \/ life[s] = "holding" /\ life' = [life EXCEPT ![s] = "idle"]
     \/ Alive(s) /\ life' = [life EXCEPT ![s] = "gone"]
  /\ UNCHANGED <<now, cache, inFlight, binOwner, task, client, killer, audit, unaudited, announced>>

-----------------------------------------------------------------------------
(* realtime() and inFlightFor()                                            *)

\* The cache is read once, before and outside the lock of the in-flight map.
Realtime(c) ==
  /\ client[c].pc = "idle"
  /\ client' = [client EXCEPT ![c] =
       [pc |-> IF Fresh(cache) THEN "idle" ELSE "miss", on |-> None, asked |-> now,
        shown |-> IF Fresh(cache) THEN cache ELSE NoSnapshot]]
  /\ UNCHANGED <<now, life, cache, inFlight, binOwner, task, killer, audit, unaudited, announced>>

\* computeIfAbsent finds a future: join() waits, or returns at once when it is complete.
JoinInFlight(c) ==
  /\ client[c].pc = "miss"
  /\ binOwner = None
  /\ inFlight # None
  /\ client' = IF task[inFlight].pc = "completed"
               THEN [client EXCEPT ![c].pc = "idle", ![c].shown = task[inFlight].snap]
               ELSE [client EXCEPT ![c].pc = "join", ![c].on = inFlight]
  /\ UNCHANGED <<now, life, cache, inFlight, binOwner, task, killer, audit, unaudited, announced>>

\* Mutant: get and put instead of computeIfAbsent, so two requests may both submit.
SubmitUnlocked(c) ==
  /\ client[c].pc = "miss"
  /\ inFlight = None
  /\ binOwner' = c
  /\ task' = [task EXCEPT ![c] = [NoTask EXCEPT !.pc = "queued", !.since = now]]
  /\ client' = [client EXCEPT ![c].pc = "submit", ![c].on = c]
  /\ UNCHANGED <<now, life, cache, inFlight, killer, audit, unaudited, announced>>

\* computeIfAbsent finds nothing: the mapping function submits the task.
Submit(c) ==
  /\ client[c].pc = "miss"
  /\ binOwner = None
  /\ inFlight = None
  /\ binOwner' = c
  /\ task' = [task EXCEPT ![c] = [NoTask EXCEPT !.pc = "queued", !.since = now]]
  /\ client' = [client EXCEPT ![c].pc = "submit", ![c].on = c]
  /\ UNCHANGED <<now, life, cache, inFlight, killer, audit, unaudited, announced>>

\* f.whenComplete(...) on a running future, then the entry is installed.
Install(c) ==
  /\ client[c].pc = "submit"
  /\ task[c].pc \in Running
  /\ task' = [task EXCEPT ![c].hook = TRUE]
  /\ inFlight' = c
  /\ binOwner' = None
  /\ client' = [client EXCEPT ![c].pc = "join"]
  /\ UNCHANGED <<now, life, cache, killer, audit, unaudited, announced>>

\* f.whenComplete(...) on a future that is already complete runs the callback
\* in this thread: inFlight.remove re-enters the map inside computeIfAbsent.
\* Either it removes nothing and the entry is installed afterwards, or (an
\* empty bin, Java 8) it spins on the reservation.
InstallLate(c) ==
  /\ client[c].pc = "submit"
  /\ task[c].pc = "completed"
  /\ \/ /\ inFlight' = c
        /\ binOwner' = None
        /\ client' = [client EXCEPT ![c].pc = "idle", ![c].shown = task[c].snap]
     \/ /\ client' = [client EXCEPT ![c].pc = "spin"]
        /\ UNCHANGED <<inFlight, binOwner>>
  /\ UNCHANGED <<now, life, cache, task, killer, audit, unaudited, announced>>

-----------------------------------------------------------------------------
(* The task: query(), cache.put, record, completion, callback              *)

\* getConnection succeeded: new Snapshot(currentTimeMillis()).
BeginQuery(t) ==
  /\ task[t].pc = "queued"
  /\ task' = [task EXCEPT ![t].pc = "querying",
                          ![t].snap = [at |-> now, ok |-> TRUE, killTargets |-> {}, set |-> TRUE]]
  /\ UNCHANGED <<now, life, cache, inFlight, binOwner, client, killer, audit, unaudited, announced>>

\* queryHolders and evaluate.
ReadHolders(t) ==
  /\ task[t].pc = "querying"
  /\ task' = [task EXCEPT ![t].pc = "have", ![t].snap.killTargets = KillTargets]
  /\ UNCHANGED <<now, life, cache, inFlight, binOwner, client, killer, audit, unaudited, announced>>

\* No connection (cooldown, pool exhausted), an SQL error or a query timeout.
QueryFails(t) ==
  /\ task[t].pc \in {"queued", "querying"}
  /\ task' = [task EXCEPT ![t].pc = "have", ![t].snap = Failed(now)]
  /\ UNCHANGED <<now, life, cache, inFlight, binOwner, client, killer, audit, unaudited, announced>>

PutCache(t) ==
  /\ task[t].pc = "have"
  /\ cache' = task[t].snap
  /\ task' = [task EXCEPT ![t].pc = "put"]
  /\ UNCHANGED <<now, life, inFlight, binOwner, client, killer, audit, unaudited, announced>>

\* Mutant: only the request that submitted the task is answered.
CompleteOwn(t) ==
  /\ task[t].pc = "put"
  /\ FastTask \/ task[t].hook
  /\ task' = [task EXCEPT ![t].pc = "completed"]
  /\ client' = [client EXCEPT ![t].pc = "idle", ![t].on = None, ![t].shown = task[t].snap]
  /\ UNCHANGED <<now, life, cache, inFlight, binOwner, killer, audit, unaudited, announced>>

\* The supplier returns: every join() on the future gets its snapshot.
Complete(t) ==
  /\ task[t].pc = "put"
  /\ FastTask \/ task[t].hook
  /\ task' = [task EXCEPT ![t].pc = "completed"]
  /\ client' = [c \in Client |->
       IF client[c].pc = "join" /\ client[c].on = t
       THEN [client[c] EXCEPT !.pc = "idle", !.on = None, !.shown = task[t].snap]
       ELSE client[c]]
  /\ UNCHANGED <<now, life, cache, inFlight, binOwner, killer, audit, unaudited, announced>>

\* The callback registered by Install: inFlight.remove(id, f).
RemoveInFlight(t) ==
  /\ task[t].pc = "completed"
  /\ task[t].hook
  /\ binOwner = None
  /\ inFlight' = IF inFlight = t THEN None ELSE inFlight
  /\ task' = [task EXCEPT ![t] = NoTask]
  /\ UNCHANGED <<now, life, cache, binOwner, client, killer, audit, unaudited, announced>>

-----------------------------------------------------------------------------
(* killTmHolders()                                                         *)

KillCall(o, req) ==
  /\ killer[o].pc = "idle"
  /\ killer' = [killer EXCEPT ![o] = [NoKill EXCEPT !.pc = "called", !.req = req, !.todo = req]]
  /\ UNCHANGED <<now, life, cache, inFlight, binOwner, task, client, audit, unaudited, announced>>

\* The holders are read again just before the KILL; an exception goes to finally.
KillRequery(o) ==
  /\ killer[o].pc = "called"
  /\ \/ killer' = [killer EXCEPT ![o].pc = "killing", ![o].current = KillTargets]
     \/ killer' = [killer EXCEPT ![o].pc = "finally"]
  /\ UNCHANGED <<now, life, cache, inFlight, binOwner, task, client, audit, unaudited, announced>>

\* What ALTER SYSTEM KILL SESSION does to a session the re-query returned.  It
\* may fail outright (no privilege, no such session), or answer with an error
\* (session marked for kill) and still end the session.
KillOutcome(s) ==
  {[result |-> "FAILED", after |-> life[s]]} \cup
  (IF Alive(s) THEN {[result |-> "SUCCESS", after |-> "killed"],
                     [result |-> "FAILED", after |-> "killed"]} ELSE {})

KillOne(o, s) ==
  /\ killer[o].pc = "killing"
  /\ s \in killer[o].todo
  /\ \E out \in IF s \in killer[o].current THEN KillOutcome(s)
                ELSE {[result |-> "SKIPPED", after |-> life[s]]} :
       /\ life' = [life EXCEPT ![s] = out.after]
       /\ killer' = [killer EXCEPT ![o].pc = "auditing", ![o].doing = s, ![o].tries = 0,
                                   ![o].result = out.result,
                                   ![o].done = @ \cup {d \in {s} : out.result = "SUCCESS"}]
  /\ UNCHANGED <<now, cache, inFlight, binOwner, task, client, audit, unaudited, announced>>

AuditOk(o) ==
  /\ killer[o].pc = "auditing"
  /\ audit' = audit \cup {[session |-> killer[o].doing, result |-> killer[o].result]}
  /\ killer' = [killer EXCEPT ![o].pc = "killing", ![o].todo = @ \ {killer[o].doing}]
  /\ UNCHANGED <<now, life, cache, inFlight, binOwner, task, client, unaudited, announced>>

\* Mutant: a failed audit write is given up without telling the operator.
AuditGivesUp(o) ==
  /\ killer[o].pc = "auditing"
  /\ killer' = [killer EXCEPT ![o].pc = "killing", ![o].todo = @ \ {killer[o].doing}]
  /\ UNCHANGED <<now, life, cache, inFlight, binOwner, task, client, audit, unaudited, announced>>

\* One retry, then the session is answered with auditWriteFailed.
AuditFails(o) ==
  /\ killer[o].pc = "auditing"
  /\ \/ /\ killer[o].tries = 0
        /\ killer' = [killer EXCEPT ![o].tries = 1]
        /\ UNCHANGED unaudited
     \/ /\ killer[o].tries = 1
        /\ killer' = [killer EXCEPT ![o].pc = "killing", ![o].todo = @ \ {killer[o].doing}]
        /\ unaudited' = unaudited \cup {killer[o].doing}
  /\ UNCHANGED <<now, life, cache, inFlight, binOwner, task, client, audit, announced>>

\* finally: cache.remove(id); the answer tells the operator what was killed.
KillFinally(o) ==
  /\ killer[o].pc = "finally" \/ (killer[o].pc = "killing" /\ killer[o].todo = {})
  /\ cache' = NoSnapshot
  /\ announced' = [s \in Session |->
       IF s \in killer[o].done /\ announced[s] = Never THEN now ELSE announced[s]]
  /\ killer' = [killer EXCEPT ![o] = [NoKill EXCEPT !.pc = "answered"]]
  /\ UNCHANGED <<now, life, inFlight, binOwner, task, client, audit, unaudited>>

-----------------------------------------------------------------------------
ClientStep(c) == JoinInFlight(c) \/ Submit(c) \/ Install(c) \/ InstallLate(c)
TaskStep(t) ==
  BeginQuery(t) \/ ReadHolders(t) \/ QueryFails(t) \/ PutCache(t) \/ Complete(t) \/ RemoveInFlight(t)
KillStep(o) ==
  \/ KillRequery(o)
  \/ \E s \in Session : KillOne(o, s)
  \/ AuditOk(o)
  \/ AuditFails(o)
  \/ KillFinally(o)

Next ==
  \/ Tick
  \/ \E s \in Session : SessionStep(s)
  \/ \E c \in Client : Realtime(c) \/ ClientStep(c) \/ TaskStep(c)
  \/ \E o \in Operator : (\E req \in SUBSET Session : req # {} /\ KillCall(o, req)) \/ KillStep(o)

Spec == Init /\ [][Next]_vars

\* Threads that can run do run: request threads and the unbounded worker pool.
FairSpec ==
  /\ Spec
  /\ \A c \in Client : WF_vars(ClientStep(c)) /\ WF_vars(TaskStep(c))

-----------------------------------------------------------------------------
(* Properties                                                              *)

\* The inductive part of what follows: a task that runs is the one being
\* submitted or the one in the in-flight map, never one of each, and a KILL
\* works on what its call asked for and its re-query found.
OneSlot ==
  /\ \A c \in Client : task[c].pc \in Running => binOwner = c \/ inFlight = c
  /\ \A c \in Client : client[c].pc = "submit" => binOwner = c
  /\ binOwner # None => inFlight = None
KillScope ==
  \A o \in Operator :
    /\ killer[o].todo \subseteq killer[o].req
    /\ killer[o].current \subseteq UserSession
    /\ killer[o].pc = "auditing" => killer[o].doing \in Session
Inductive == TypeOK /\ OneSlot /\ KillScope

\* Load control: whatever the number of viewers, the monitored database runs at
\* most one lock query of this service at a time.
AtMostOneQuery ==
  \A c, d \in Client : task[c].pc \in Running /\ task[d].pc \in Running => c = d

\* A future that was complete before its callback was registered stays in the
\* map for ever, and every later viewer without a cached snapshot gets it.
LeftBehind == inFlight # None /\ task[inFlight].pc = "completed" /\ ~task[inFlight].hook

\* A viewer is never shown a picture older than the cache window or the longest
\* query: an answer is either a cached snapshot inside its window or the result
\* of a query that was running when the viewer asked.
Longest == IF CacheTicks > QueryTicks THEN CacheTicks ELSE QueryTicks
FreshEnough ==
  ~LeftBehind => \A c \in Client :
    client[c].shown.set => client[c].asked - client[c].shown.at <= Longest

\* A session whose KILL was answered SUCCESS is not listed any more to a viewer
\* who asks after the grace of one cache window or one query.
KilledGoneAfterGrace ==
  ~LeftBehind => \A c \in Client, s \in Session :
    client[c].shown.set /\ client[c].asked > announced[s] + Longest
      => s \notin client[c].shown.killTargets

\* "The next query sees the state after the KILL" (comment on cache.remove):
\* a viewer who asks after the answer is not shown the killed session.
NextQuerySeesKill ==
  \A c \in Client, s \in Session :
    client[c].shown.set /\ client[c].asked > announced[s]
      => s \notin client[c].shown.killTargets

\* Only sessions of type USER that some operator asked for, and that the
\* re-query of that very call still found holding a TM lock, are ever killed.
KillsOnlyWhatWasAsked ==
  [][\A s \in Session : life[s] # "killed" /\ life'[s] = "killed" =>
       \E o \in Operator : /\ killer[o].pc = "killing"
                           /\ s \in killer[o].req \cap killer[o].current
                           /\ s \in UserSession]_vars

\* No KILL is silent: a killed session has an audit row that says a KILL was
\* attempted, or its answer carries auditWriteFailed, or it is being audited.
KillLeavesTrace ==
  \A s \in Session : life[s] = "killed" =>
    \/ \E row \in audit : row.session = s /\ row.result \in {"SUCCESS", "FAILED"}
    \/ s \in unaudited
    \/ \E o \in Operator : killer[o].pc = "auditing" /\ killer[o].doing = s
                           /\ killer[o].result # "SKIPPED"

\* A viewer never waits for ever: join() returns although the future is shared.
\* The one exception is a thread that spins inside computeIfAbsent.
RequestsAnswered ==
  \A c \in Client : client[c].pc # "idle" ~> client[c].pc = "idle" \/ \E d \in Client : client[d].pc = "spin"
=============================================================================
