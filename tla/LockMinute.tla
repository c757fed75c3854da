----------------------------- MODULE LockMinute -----------------------------
(***************************************************************************)
(* LockRealtimeService.record, flushFinishedMinutes and saveSummary for    *)
(* one monitored database: the ten-minute trend kept in memory and the     *)
(* one-minute maxima kept in mon_lock_sample.                              *)
(*                                                                         *)
(* LockRealtime shows that at most one query of a database runs at a time  *)
(* (AtMostOneQuery); here its snapshot is a count of holders over the      *)
(* threshold and the instant the query began.  The other maxima of the     *)
(* summary (TX and TM waiters, incident) are kept in the same way.         *)
(***************************************************************************)
EXTENDS Integers, Sequences, FiniteSets

CONSTANTS
  Counts,       \* the holder counts a query may find
  MinuteTicks,  \* clock ticks in a minute
  WindowTicks,  \* HISTORY_WINDOW_MS in ticks
  QueryLag,     \* longest time from the beginning of a query to its record
  SaveMayFail,  \* may saveLockSample throw?
  LastTick,      \* bound on the clock
  HistoryMax,   \* bound on the points of the trend inside one window
  Nothing

ASSUME CountsAssumption == Counts \subseteq Nat /\ Nothing \notin Counts
ASSUME MinuteAssumption == MinuteTicks \in Nat \ {0} /\ WindowTicks \in Nat
                           /\ QueryLag \in Nat /\ LastTick \in Nat /\ HistoryMax \in Nat
ASSUME SaveAssumption == SaveMayFail \in BOOLEAN

VARIABLES
  clock,      \* System.currentTimeMillis()
  query,    \* the running query, or Nothing
  cur,      \* minuteSummary.get(id), or Nothing
  stored,   \* mon_lock_sample: minute -> tm_holder_over_max, or Nothing
  history,  \* history.get(id)
  seen,     \* counts recorded for each minute (history variable)
  lost      \* minutes for which a save failed (history variable)

minuteVars == <<clock, query, cur, stored, history, seen, lost>>

MinuteOf(t) == t \div MinuteTicks
Minute == 0..MinuteOf(LastTick)
ASSUME NothingAssumption == Nothing \notin [minute : Minute, over : Counts]
\* Mutant: the summary of a minute keeps the last count.
Latest(a, b) == b
Larger(a, b) == IF a = Nothing \/ a < b THEN b ELSE a

MinuteTypeOK ==
  /\ clock \in 0..LastTick
  /\ query \in [at : 0..LastTick, over : Counts] \cup {Nothing}
  /\ cur \in [minute : Minute, over : Counts] \cup {Nothing}
  /\ stored \in [Minute -> Counts \cup {Nothing}]
  /\ history \in Seq([t : 0..LastTick, over : Counts])
  /\ seen \in [Minute -> SUBSET Counts]
  /\ lost \subseteq Minute

MinuteInit ==
  /\ clock = 0
  /\ query = Nothing
  /\ cur = Nothing
  /\ stored = [m \in Minute |-> Nothing]
  /\ history = <<>>
  /\ seen = [m \in Minute |-> {}]
  /\ lost = {}

ClockTick ==
  /\ clock < LastTick
  /\ query # Nothing => clock - query.at < QueryLag
  /\ clock' = clock + 1
  /\ UNCHANGED <<query, cur, stored, history, seen, lost>>

BeginMeasure ==
  /\ query = Nothing
  /\ Cardinality({i \in DOMAIN history : history[i].t >= clock - WindowTicks}) < HistoryMax
  /\ \E n \in Counts : query' = [at |-> clock, over |-> n]
  /\ UNCHANGED <<clock, cur, stored, history, seen, lost>>

\* A failed snapshot (ok = false) is not recorded.
MeasureFails ==
  /\ query # Nothing
  /\ query' = Nothing
  /\ UNCHANGED <<clock, cur, stored, history, seen, lost>>

\* saveSummary: MERGE on (db_id, collect_ts); a failure is logged and swallowed.
SaveSummary(m) ==
  \/ /\ stored' = [stored EXCEPT ![m.minute] = m.over]
     /\ UNCHANGED lost
  \/ /\ SaveMayFail
     /\ lost' = lost \cup {m.minute}
     /\ UNCHANGED stored

\* The trend: append the point, then drop from the front what is older than the window.
Trend(p) ==
  LET points == Append(history, p)
      Old(i) == points[i].t < p.t - WindowTicks
      first == CHOOSE i \in 1..Len(points) : ~Old(i) /\ \A j \in 1..(i - 1) : Old(j)
  IN SubSeq(points, first, Len(points))

\* record(): the summary of an earlier minute is saved before it is replaced.
Record ==
  /\ query # Nothing
  /\ history' = Trend([t |-> query.at, over |-> query.over])
  /\ LET minute == MinuteOf(query.at) IN
     /\ IF cur # Nothing /\ cur.minute # minute THEN SaveSummary(cur)
                                             ELSE UNCHANGED <<stored, lost>>
     /\ cur' = [minute |-> minute,
                over |-> Larger(IF cur # Nothing /\ cur.minute = minute THEN cur.over ELSE Nothing,
                                query.over)]
     /\ seen' = [seen EXCEPT ![minute] = @ \cup {query.over}]
  /\ query' = Nothing
  /\ UNCHANGED clock

\* Mutant: the running minute is saved and forgotten too.
FlushRunning ==
  /\ cur # Nothing
  /\ SaveSummary(cur)
  /\ cur' = Nothing
  /\ UNCHANGED <<clock, query, history, seen>>

\* Mutant: the summary of a past minute is forgotten without being saved.
FlushForgets ==
  /\ cur # Nothing
  /\ cur.minute < MinuteOf(clock)
  /\ cur' = Nothing
  /\ UNCHANGED <<clock, query, stored, history, seen, lost>>

\* @Scheduled flushFinishedMinutes: save and forget a summary of a past minute.
Flush ==
  /\ cur # Nothing
  /\ cur.minute < MinuteOf(clock)
  /\ SaveSummary(cur)
  /\ cur' = Nothing
  /\ UNCHANGED <<clock, query, history, seen>>

MinuteNext == ClockTick \/ BeginMeasure \/ MeasureFails \/ Record \/ Flush

MinuteSpec == MinuteInit /\ [][MinuteNext]_minuteVars

\* Time passes and the scheduler keeps running the flush.
MinuteFairSpec == MinuteSpec /\ WF_minuteVars(ClockTick) /\ WF_minuteVars(Record \/ MeasureFails) /\ WF_minuteVars(Flush)

-----------------------------------------------------------------------------
(* Properties                                                              *)

\* A row of mon_lock_sample describes a minute that is over: a chart of past
\* minutes never shows the running one as if it were finished.
StoredIsFinished == \A m \in Minute : stored[m] # Nothing => m < MinuteOf(clock)

\* No row claims more holders than some query of that minute found.
StoredIsNotInvented ==
  \A m \in Minute : stored[m] # Nothing => \E n \in seen[m] : stored[m] <= n

\* The trend shown to a viewer is in time order and no longer than the window.
TrendIsWindow ==
  \A i, j \in 1..Len(history) : i < j =>
    history[i].t <= history[j].t /\ history[j].t - history[i].t <= WindowTicks

\* The first row of a minute is the largest count recorded for it until then,
\* unless an earlier save of that minute failed.
FirstRowIsMaximum ==
  [][\A m \in Minute : stored[m] = Nothing /\ stored'[m] # Nothing /\ m \notin lost
       => \A n \in seen[m] : n <= stored'[m]]_minuteVars

\* tm_holder_over_max is "the maximum of the failure count within the minute":
\* once a minute has left the memory, its row is the largest count recorded.
StoredIsMinuteMax ==
  \A m \in Minute :
    stored[m] # Nothing /\ m \notin lost /\ (cur = Nothing \/ cur.minute # m)
      => \A n \in seen[m] : n <= stored[m]

\* A minute with a sample reaches the store even when nobody asks again (the
\* page was closed), unless the save itself failed.
MinuteIsStored ==
  \A m \in Minute : m < MinuteOf(LastTick) /\ seen[m] # {} ~> stored[m] # Nothing \/ m \in lost

\* The page is never shown a figure nobody measured: rows are of finished minutes and
\* of counts some query of the minute found, the trend is in order and of its window.
ShownWasMeasured == MinuteTypeOK /\ StoredIsFinished /\ StoredIsNotInvented /\ TrendIsWindow
=============================================================================
