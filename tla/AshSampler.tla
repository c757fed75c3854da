----------------------------- MODULE AshSampler -----------------------------
(***************************************************************************)
(* InstanceMetricSamplerService for one Oracle instance: the periodic ASH  *)
(* sample (sampleAll/sampleOne/sampleAsh/collectPerf) with its sample_id   *)
(* watermark, the extra sample of a newly registered instance              *)
(* (sampleNowAsync), and the back-fill of the last hour (backfill).        *)
(*                                                                         *)
(* The instance writes one ASH sample per second; a sample is named by the *)
(* second it was taken in and only the fact that it was counted is kept,   *)
(* not its category.  Database and application clocks are taken as equal:  *)
(* refreshClockOffset turns one into the other.                            *)
(***************************************************************************)
EXTENDS Integers, FiniteSets

CONSTANTS
  MinuteTicks,      \* seconds in a minute
  Interval,         \* dbagent.monitor.metric-sample-interval-seconds
  GapCycles,        \* MAX_WATERMARK_GAP_CYCLES
  BackfillMinutes,  \* BACKFILL_MINUTES
  NearTicks,        \* the 45 seconds of hasSampleNear
  Live,             \* threads inside sampleOne: "cycle" (sampleAll), "now" (sampleNowAsync)
  BackfillConnects, \* does backfill ever get a connection?
  DbRestarts,       \* bound: the seconds at which the instance may restart
  MaxTime,          \* bound on the clock
  None

ASSUME TickAssumption == /\ MinuteTicks \in Nat \ {0} /\ Interval \in Nat \ {0}
                         /\ GapCycles \in Nat /\ BackfillMinutes \in Nat
                         /\ NearTicks \in Nat /\ MaxTime \in Nat /\ DbRestarts \subseteq Nat
ASSUME LiveAssumption == /\ Live \subseteq {"cycle", "now"}
                         /\ BackfillConnects \in BOOLEAN
ASSUME NoneAssumption == None \notin Int /\ \A S \in SUBSET (1..MaxTime) : S # None

VARIABLES
  now,       \* the current second
  base,      \* last second before the instance started: sample_id = second - base
  mark,      \* ashWatermark.get(id), a sample_id or None
  live,      \* the threads inside sampleOne and recordIfPresent
  fill,      \* the thread inside backfill
  nextAt,    \* when the next fixed-delay cycle may begin
  isNew,     \* the instance has not been registered yet
  points,    \* instance_metric_history: sampled_at of the ash_* values
  counted,   \* seconds that went into a recorded ash_* value
  perf,      \* seconds that went into a row of perf_ash_min
  promised   \* seconds a move of the watermark left behind (Promise), but for those
             \* whose write failed or that a restart cut off (history variable)

vars == <<now, base, mark, live, fill, nextAt, isNew, points, counted, perf, promised>>

-----------------------------------------------------------------------------
Time == 0..MaxTime
Second == 1..MaxTime
MinuteOf(s) == s \div MinuteTicks
Minute == 0..MinuteOf(MaxTime)
SecondsOf(m) == {s \in Time : MinuteOf(s) = m}
MinutesOf(S) == {MinuteOf(s) : s \in S}
EndOf(m) == (m + 1) * MinuteTicks

\* v$active_session_history: what the instance holds since it started.
Ash == (base + 1)..now
\* Mutant: the lower end of the window is exclusive twice.
IdRangeShort(lo, hi) == {s \in Ash : lo + 1 < s - base /\ s - base <= hi}
IdRange(lo, hi) == {s \in Ash : lo < s - base /\ s - base <= hi}
LastSeconds == {s \in Ash : s >= now - Interval}

NoSample == [pc |-> "idle", at |-> 0, inc |-> 0, scanned |-> 0, last |-> None, latest |-> -1,
             cat |-> None, perf |-> None]
NoFill == [pc |-> "idle", inc |-> 0, from |-> 0, to |-> 0, rows |-> {}, got |-> {}, have |-> {}]

TypeOK ==
  /\ now \in Time /\ base \in Time /\ nextAt \in Nat
  /\ isNew \in BOOLEAN
  /\ mark \in Second \cup {None}
  /\ live \in [Live -> [pc : {"idle", "latest", "ids", "cat", "perf", "record"}, at : Time, inc : Time,
                        scanned : Time, last : Second \cup {None}, latest : Time \cup {-1},
                        cat : (SUBSET Second) \cup {None}, perf : (SUBSET Second) \cup {None}]]
  /\ fill \in [pc : {"idle", "range", "scan", "check", "record", "have", "perf", "save"},
               inc : Time, from : Minute, to : Minute, rows : SUBSET Minute,
               got : SUBSET Second, have : SUBSET Minute]
  /\ points \subseteq Nat
  /\ counted \subseteq Second /\ perf \subseteq Second /\ promised \subseteq Second

Init ==
  /\ now = 0 /\ base = 0 /\ mark = None
  /\ live = [w \in Live |-> NoSample]
  /\ fill = NoFill
  /\ nextAt = 0
  /\ isNew = TRUE
  /\ points = {} /\ counted = {} /\ perf = {} /\ promised = {}

-----------------------------------------------------------------------------
(* The environment                                                         *)

\* A sample may last any time: the categories have 3 s and the perf rows
\* PERF_QUERY_TIMEOUT_SECONDS, but v$ash_info and the names of the users no limit.
Tick ==
  /\ now < MaxTime
  /\ now' = now + 1
  /\ UNCHANGED <<base, mark, live, fill, nextAt, isNew, points, counted, perf, promised>>

\* The Oracle instance restarts: ASH is empty, sample ids begin again, and the
\* connections in use are broken (a scan needs the incarnation it connected to).
DbRestart ==
  /\ base # now
  /\ now \in DbRestarts
  /\ base' = now
  /\ UNCHANGED <<now, mark, live, fill, nextAt, isNew, points, counted, perf, promised>>

\* The application restarts: memory is lost, backfillOnStartup and the first
\* cycle run at once.
AppRestart ==
  /\ ~isNew
  /\ mark' = None
  /\ live' = [w \in Live |-> NoSample]
  /\ fill' = [NoFill EXCEPT !.pc = "range"]
  /\ nextAt' = now
  /\ promised' = promised \cap counted
  /\ UNCHANGED <<now, base, isNew, points, counted, perf>>

\* createInstance answered: sampleNowAsync submits one sample and one back-fill,
\* and listAllInstances returns the instance to every later cycle.
Register ==
  /\ isNew
  /\ isNew' = FALSE
  /\ live' = [w \in Live |-> IF w = "now" THEN [NoSample EXCEPT !.pc = "latest", !.at = now]
                            ELSE live[w]]
  /\ fill' = [NoFill EXCEPT !.pc = "range"]
  /\ UNCHANGED <<now, base, mark, nextAt, points, counted, perf, promised>>

-----------------------------------------------------------------------------
(* sampleAll, sampleOne and recordIfPresent                                *)

StartCycle ==
  /\ ~isNew /\ "cycle" \in Live
  /\ live["cycle"].pc = "idle"
  /\ now >= nextAt
  /\ live' = [live EXCEPT !["cycle"] = [NoSample EXCEPT !.pc = "latest", !.at = now]]
  /\ UNCHANGED <<now, base, mark, fill, nextAt, isNew, points, counted, perf, promised>>

\* fixedDelay counts from the end of the cycle.
EndOfRun(w) == nextAt' = IF w = "cycle" THEN now + Interval ELSE nextAt

\* No connection, or one of the queries before the ASH scan failed: null.
SampleFails(w) ==
  /\ live[w].pc = "latest"
  /\ live' = [live EXCEPT ![w] = NoSample]
  /\ EndOfRun(w)
  /\ UNCHANGED <<now, base, mark, fill, isNew, points, counted, perf, promised>>

\* ashWatermark.get, on a connection to this incarnation of the instance.
ReadMark(w) ==
  /\ live[w].pc = "latest"
  /\ live' = [live EXCEPT ![w].pc = "ids", ![w].inc = base, ![w].last = mark]
  /\ UNCHANGED <<now, base, mark, fill, nextAt, isNew, points, counted, perf, promised>>

\* latest_sample_id; -1 when v$ash_info cannot be read.
ReadLatest(w) ==
  /\ live[w].pc = "ids"
  /\ \E latest \in {-1} \cup (IF live[w].inc = base THEN {now - base} ELSE {}) :
       live' = [live EXCEPT ![w].pc = "cat", ![w].latest = latest]
  /\ UNCHANGED <<now, base, mark, fill, nextAt, isNew, points, counted, perf, promised>>

ById(s) == /\ s.latest > 0 /\ s.last # None /\ s.latest > s.last
           /\ s.latest - s.last <= Interval * GapCycles
Window(s) == IF ById(s) THEN IdRange(s.last, s.latest) ELSE LastSeconds

\* The category scan; when it fails nothing is recorded and the watermark stays.
ScanCategories(w) ==
  /\ live[w].pc = "cat"
  /\ \/ /\ live[w].inc = base
        /\ live' = [live EXCEPT ![w].pc = "perf", ![w].scanned = now,
                                 ![w].cat = Window(live[w])]
     \/ live' = [live EXCEPT ![w].pc = "record"]
  /\ UNCHANGED <<now, base, mark, fill, nextAt, isNew, points, counted, perf, promised>>

\* if (latest > 0) ashWatermark.put(id, latest)
NextMark(s) == IF s.latest > 0 THEN s.latest ELSE mark

\* The seconds from the watermark before to the one of this sample; none where a
\* restart cut them off or the watermark fell back to the ids of a new incarnation
\* since the sample read it.  A sample that counted by time (the first one, or the
\* first after a gap) while the other thread moved the watermark answers for them
\* only if its scan came within an interval of that watermark.
Promise(s) == IF /\ s.inc = base /\ ById([s EXCEPT !.last = mark])
                 /\ s.last = None \/ s.last <= mark
                 /\ ById(s) \/ s.scanned - Interval <= base + mark + 1
              THEN (base + mark + 1)..(base + s.latest) ELSE {}

\* collectPerf over the same window.  Its failure is swallowed: the watermark
\* advances whether or not the perf rows were read.
ScanPerf(w) ==
  /\ live[w].pc = "perf"
  /\ \E p \in {None} \cup (IF live[w].inc = base THEN {Window(live[w])} ELSE {}) :
       live' = [live EXCEPT ![w].pc = "record", ![w].perf = p]
  /\ mark' = NextMark(live[w])
  /\ promised' = promised \cup Promise(live[w])
  /\ UNCHANGED <<now, base, fill, nextAt, isNew, points, counted, perf>>

\* historyService.record for every category, then perfStore.saveRows, whose
\* failure is logged and swallowed.
RecordIfPresent(w) ==
  /\ live[w].pc = "record"
  /\ IF live[w].cat = None
     THEN UNCHANGED <<points, counted>>
     ELSE points' = points \cup {live[w].at} /\ counted' = counted \cup live[w].cat
  /\ \/ perf' = perf \cup (IF live[w].perf = None THEN {} ELSE live[w].perf)
     \/ UNCHANGED perf
  /\ live' = [live EXCEPT ![w] = NoSample]
  /\ EndOfRun(w)
  /\ UNCHANGED <<now, base, mark, fill, isNew, promised>>

\* historyService.record throws: nothing more is recorded, sampleAll ends.  The
\* watermark has moved already, so that the seconds of this sample are lost.
RecordFails(w) ==
  /\ live[w].pc = "record"
  /\ live[w].cat # None
  /\ promised' = promised \ live[w].cat
  /\ live' = [live EXCEPT ![w] = NoSample]
  /\ EndOfRun(w)
  /\ UNCHANGED <<now, base, mark, fill, isNew, points, counted, perf>>

-----------------------------------------------------------------------------
(* backfill                                                                *)

Fill(pc) == fill.pc = pc /\ UNCHANGED <<now, base, mark, live, nextAt, isNew, promised>>

\* A query or a write failed or nothing is left to fill: the back-fill ends.
FillStops ==
  /\ fill.pc \in {"range", "scan", "check", "record", "have", "perf"}
  /\ Fill(fill.pc)
  /\ fill' = NoFill
  /\ UNCHANGED <<points, counted, perf>>

\* Mutant: the minute of the oldest sample counts as whole.
OldestMinute == MinuteOf(base + 1)
\* The minute after the oldest sample.
FirstWhole == MinuteOf(base + 1) + 1

\* From the minute after the oldest sample, and at most an hour ago, to the
\* running minute.  An empty ASH has no oldest sample: the whole hour is taken.
FillRange ==
  /\ Fill("range")
  /\ BackfillConnects
  /\ LET to == MinuteOf(now)
         hour == IF to > BackfillMinutes THEN to - BackfillMinutes ELSE 0
         from == IF Ash # {} /\ FirstWhole > hour THEN FirstWhole ELSE hour
     IN /\ from < to
        /\ fill' = [fill EXCEPT !.pc = "scan", !.inc = base, !.from = from, !.to = to]
  /\ UNCHANGED <<points, counted, perf>>

FillSeconds == {s \in Ash : fill.from <= MinuteOf(s) /\ MinuteOf(s) < fill.to}

FillScan ==
  /\ Fill("scan")
  /\ fill.inc = base
  /\ fill' = [fill EXCEPT !.pc = "check", !.got = FillSeconds]
  /\ UNCHANGED <<points, counted, perf>>

\* sampleTimes, then hasSampleNear: the minutes that get a value.
NearSample(m) == \E t \in points : -NearTicks <= t - EndOf(m) /\ t - EndOf(m) <= NearTicks
FillCheck ==
  /\ Fill("check")
  /\ fill' = [fill EXCEPT !.pc = "record",
                          !.rows = {m \in fill.from..(fill.to - 1) : ~NearSample(m)}]
  /\ UNCHANGED <<points, counted, perf>>

FillRecord ==
  /\ Fill("record")
  /\ fill' = [fill EXCEPT !.pc = "have", !.rows = {}, !.got = {}]
  /\ points' = points \cup {EndOf(m) : m \in fill.rows}
  /\ counted' = counted \cup {s \in fill.got : MinuteOf(s) \in fill.rows}
  /\ UNCHANGED perf

\* perfStore.minutesWithData
FillHave ==
  /\ Fill("have")
  /\ fill' = [fill EXCEPT !.pc = "perf", !.have = MinutesOf(perf)]
  /\ UNCHANGED <<points, counted, perf>>

\* collectPerf with skipMinutes
FillPerf ==
  /\ Fill("perf")
  /\ fill.inc = base
  /\ fill' = [fill EXCEPT !.pc = "save",
                          !.got = {s \in FillSeconds : MinuteOf(s) \notin fill.have}]
  /\ UNCHANGED <<points, counted, perf>>

FillSave ==
  /\ Fill("save")
  /\ \/ perf' = perf \cup fill.got
     \/ UNCHANGED perf
  /\ fill' = NoFill
  /\ UNCHANGED <<points, counted>>

FillStep == \/ FillStops \/ FillRange \/ FillScan \/ FillCheck \/ FillRecord
            \/ FillHave \/ FillPerf \/ FillSave

-----------------------------------------------------------------------------
Next ==
  \/ Tick \/ DbRestart \/ AppRestart \/ Register \/ StartCycle \/ FillStep
  \/ \E w \in Live : SampleFails(w) \/ ReadMark(w) \/ ReadLatest(w) \/ ScanCategories(w)
                     \/ ScanPerf(w) \/ RecordIfPresent(w) \/ RecordFails(w)

Spec == Init /\ [][Next]_vars

-----------------------------------------------------------------------------
(* Properties                                                              *)

InHand == UNION {live[w].cat : w \in {v \in Live : live[v].pc = "record" /\ live[v].cat # None}}

\* Counting by sample_id "leaves no second out", however long the samples take:
\* every second a move of the watermark left behind is in a recorded ash_* value,
\* or in the hands of the thread that is about to record it, whatever scans failed
\* or slipped in between; only a failed write or a restart loses any, or a sample
\* by time that came too late for a watermark moved beside it.
NoSecondSkipped == promised \subseteq counted \cup InHand

PerfInHand == UNION {live[w].perf : w \in {v \in Live : live[v].pc = "record" /\ live[v].perf # None}}

\* The same promise for the rows of the performance analysis, which are counted
\* over the same watermark.
NoPerfSecondSkipped == promised \subseteq perf \cup PerfInHand

\* The back-fill never averages a minute of which it holds only a part: neither
\* the running one nor the one in which the ASH of the instance begins.
BackfillWholeMinutes ==
  fill.pc = "record" => \A m \in fill.rows :
    SecondsOf(m) \subseteq fill.got \/ SecondsOf(m) \cap fill.got = {}

\* "Unknown minutes are not filled with 0" (comment on backfill): a minute gets
\* a value only from samples of that minute.
BackfillInventsNothing ==
  fill.pc = "record" => \A m \in fill.rows : SecondsOf(m) \cap fill.got # {}

\* The back-fill "does not overlap minutes that already have rows": when it
\* saves its perf rows, none of their minutes has rows yet.
BackfillDoesNotOverlap ==
  [][fill.pc = "save" /\ perf' # perf /\ fill'.pc = "idle"
       => MinutesOf(fill.got) \cap MinutesOf(perf) = {}]_vars

\* No second is skipped and the sampler's state stays well formed while scans fail,
\* overlap and both sides restart.
WatermarkIsHonest == TypeOK /\ NoSecondSkipped
=============================================================================
