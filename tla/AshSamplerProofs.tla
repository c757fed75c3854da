-------------------------- MODULE AshSamplerProofs --------------------------
(***************************************************************************)
(* Proofs about the ASH sampler, for any interval, length of a minute, of   *)
(* a sample and of a gap, any restarts, with the extra sample beside the   *)
(* periodic one: no second that a move of the watermark left behind is     *)
(* left out, and the back-fill averages whole minutes.                     *)
(***************************************************************************)
EXTENDS AshSampler, TLAPS

SampleType == [pc : {"idle", "latest", "ids", "cat", "perf", "record"}, at : Time, inc : Time, scanned : Time,
               last : Second \cup {None}, latest : Time \cup {-1},
               cat : (SUBSET Second) \cup {None}, perf : (SUBSET Second) \cup {None}]
Reading == {u \in Live : live[u].pc \in {"ids", "cat", "perf"}}

\* A sample under way began in this incarnation of the instance or before it, and
\* the newest id it knows of this incarnation is one the instance has reached.
Dated ==
  \A w \in Reading :
    /\ live[w].inc <= base
    /\ live[w].pc # "ids" /\ live[w].inc = base => live[w].latest <= now - base

\* What the category scan found: all ids of the window, or all of the last seconds.
FoundIds(s) == \A t \in Second : base + s.last < t /\ t <= base + s.latest => t \in s.cat
FoundLast(s) == \A t \in Second : base < t /\ t <= s.scanned /\ s.scanned - Interval <= t => t \in s.cat
Scanned ==
  \A w \in Live : live[w].pc = "perf" =>
    /\ live[w].cat # None
    /\ live[w].inc = base => /\ live[w].scanned <= now /\ live[w].latest <= live[w].scanned - base
                            /\ IF ById(live[w]) THEN FoundIds(live[w]) ELSE FoundLast(live[w])

\* The minutes of a range lie between the oldest sample and now, or before the instance.
WholeRange ==
  fill.pc = "scan" =>
    /\ fill.inc <= base
    /\ fill.inc = base => \/ FirstWhole <= fill.from /\ fill.to <= MinuteOf(now)
                          \/ fill.to <= MinuteOf(base)

\* What the back-fill has found of a minute of its range is all of it or nothing.
GotWhole ==
  fill.pc \in {"check", "record"} =>
    \A m \in fill.from..(fill.to - 1) :
      SecondsOf(m) \subseteq fill.got \/ SecondsOf(m) \cap fill.got = {}
RowsInRange == fill.pc = "record" => fill.rows \subseteq fill.from..(fill.to - 1)

\* NoSecondSkipped, second by second.
InHandOf(t, v) == live[v].pc = "record" /\ live[v].cat # None /\ t \in live[v].cat
NoneSkipped == \A t \in promised : t \in counted \/ \E v \in Live : InHandOf(t, v)

SampleInv == base <= now /\ Dated /\ Scanned /\ NoneSkipped
FillInv == WholeRange /\ GotWhole /\ RowsInRange

\* Nobody samples an instance that has not been registered.
Unregistered == isNew => \A v \in Live : live[v].pc = "idle"

Inv == TypeOK /\ SampleInv /\ FillInv /\ Unregistered

-----------------------------------------------------------------------------
(* Minutes                                                                 *)

\* A later second is not in an earlier minute.
LEMMA MinutesGrow ==
  ASSUME NEW a \in Nat, NEW b \in Nat
  PROVE  /\ MinuteOf(a) \in Nat
         /\ a <= b => MinuteOf(a) <= MinuteOf(b)
<1>1. MinuteTicks \in Nat /\ MinuteTicks > 0
  BY TickAssumption
<1>2. MinuteOf(a) \in Nat /\ MinuteOf(b) \in Nat
  BY <1>1 DEF MinuteOf
<1>3. /\ MinuteTicks * MinuteOf(a) <= a
      /\ b < MinuteTicks * MinuteOf(b) + MinuteTicks
  BY <1>1 DEF MinuteOf
<1>4. ASSUME a <= b, MinuteOf(b) < MinuteOf(a)
      PROVE  FALSE
  <2>1. MinuteOf(b) + 1 <= MinuteOf(a)
    BY <1>2, <1>4
  <2>2. MinuteTicks * (MinuteOf(b) + 1) <= MinuteTicks * MinuteOf(a)
    BY <1>1, <1>2, <2>1
  <2>3. MinuteTicks * (MinuteOf(b) + 1) = MinuteTicks * MinuteOf(b) + MinuteTicks
    BY <1>1, <1>2
  <2> QED
    BY <1>1, <1>2, <1>3, <1>4, <2>2, <2>3
<1> QED
  BY <1>2, <1>4

-----------------------------------------------------------------------------
(* One thread inside sampleOne                                             *)

\* The thread that steps has its new record, the others have theirs.
LEMMA OneThread ==
  ASSUME TypeOK, NEW w \in Live, NEW s \in SampleType, live' = [live EXCEPT ![w] = s]
  PROVE  /\ live'[w] = s /\ live' \in [Live -> SampleType]
         /\ \A v \in Live : v # w => live'[v] = live[v]
  BY DEF TypeOK, SampleType

\* The numbers of a state are numbers.
LEMMA Numbers ==
  ASSUME TypeOK
  PROVE  /\ now \in Nat /\ base \in Nat /\ Interval \in Nat /\ MaxTime \in Nat
         /\ now <= MaxTime /\ live \in [Live -> SampleType]
         /\ mark = None \/ mark \in Nat
         /\ None \notin Int
  BY TickAssumption, NoneAssumption DEF TypeOK, SampleType, Time, Second

\* A thread that begins, gives up or ends its sample disturbs no sample under way.
LEMMA OutsideScan ==
  ASSUME Inv, NEW w \in Live, NEW s \in SampleType,
         live' = [live EXCEPT ![w] = s], s.pc \in {"idle", "latest", "record"},
         UNCHANGED <<now, base, mark>>
  PROVE  (base <= now /\ Dated /\ Scanned)'
<1>1. /\ live'[w] = s
      /\ \A v \in Live : v # w => live'[v] = live[v]
  BY OneThread DEF Inv
<1>2. \A v \in Live : live'[v].pc \in {"ids", "cat", "perf"} => v # w /\ live'[v] = live[v]
  BY <1>1
<1>3. Reading' \subseteq Reading /\ \A v \in Reading' : live'[v] = live[v]
  BY <1>2 DEF Reading
<1>4. Dated'
  BY <1>3 DEF Inv, SampleInv, Dated
<1>5. Scanned'
  BY <1>2 DEF Inv, SampleInv, Scanned, ById, FoundIds, FoundLast
<1> QED
  BY <1>4, <1>5 DEF Inv, SampleInv

\* A thread that had nothing in hand leaves what is promised where it is.
LEMMA NothingInHand ==
  ASSUME Inv, NEW w \in Live, NEW s \in SampleType,
         live' = [live EXCEPT ![w] = s],
         live[w].pc # "record", promised' = promised, counted' = counted
  PROVE  NoneSkipped'
<1>1. \A v \in Live : v # w => live'[v] = live[v]
  BY OneThread DEF Inv
<1>2. \A t \in promised : t \in counted \/ \E v \in Live : v # w /\ InHandOf(t, v)
  BY DEF Inv, SampleInv, NoneSkipped, InHandOf
<1> QED
  BY <1>1, <1>2 DEF NoneSkipped, InHandOf

\* The start of a cycle and a sample that gets no connection.
LEMMA BeginStep ==
  ASSUME Inv, StartCycle \/ \E w \in Live : SampleFails(w)
  PROVE  TypeOK' /\ SampleInv'
<1>1. CASE StartCycle
  <2>1. [NoSample EXCEPT !.pc = "latest", !.at = now] \in SampleType
    <3>1. NoSample \in SampleType
      BY Numbers DEF Inv, NoSample, SampleType, Time
    <3>2. now \in Time
      BY DEF Inv, TypeOK
    <3> QED
      BY <3>1, <3>2 DEF SampleType
  <2>2. /\ "cycle" \in Live /\ live["cycle"].pc # "record"
        /\ live' = [live EXCEPT !["cycle"] = [NoSample EXCEPT !.pc = "latest", !.at = now]]
        /\ [NoSample EXCEPT !.pc = "latest", !.at = now].pc = "latest"
        /\ UNCHANGED <<now, base, mark, fill, nextAt, isNew, points, counted, perf, promised>>
    BY <1>1 DEF StartCycle, NoSample
  <2>3. TypeOK'
    BY <2>1, <2>2, OneThread DEF Inv, TypeOK, SampleType
  <2> QED
    BY <2>1, <2>2, <2>3, OutsideScan, NothingInHand DEF SampleInv
<1>2. ASSUME NEW w \in Live, SampleFails(w)
      PROVE  TypeOK' /\ SampleInv'
  <2>1. NoSample \in SampleType /\ NoSample.pc = "idle"
    BY Numbers DEF Inv, NoSample, SampleType, Time
  <2>2. /\ live[w].pc # "record" /\ live' = [live EXCEPT ![w] = NoSample]
        /\ UNCHANGED <<now, base, mark, fill, isNew, points, counted, perf, promised>>
        /\ EndOfRun(w)
    BY <1>2 DEF SampleFails
  <2>3. nextAt' \in Nat
    BY <2>2, Numbers DEF Inv, TypeOK, EndOfRun
  <2>4. TypeOK'
    BY <2>1, <2>2, <2>3, OneThread DEF Inv, TypeOK, SampleType
  <2> QED
    BY <2>1, <2>2, <2>4, OutsideScan, NothingInHand DEF SampleInv
<1> QED
  BY <1>1, <1>2

\* A thread that reads the watermark or the newest id is of this incarnation, or
\* learns nothing of it.
LEMMA ReadStep ==
  ASSUME Inv, NEW w \in Live, ReadMark(w) \/ ReadLatest(w)
  PROVE  TypeOK' /\ SampleInv'
<1>1. PICK s \in SampleType :
        /\ live' = [live EXCEPT ![w] = s] /\ s.pc \in {"ids", "cat"} /\ s.inc <= base
        /\ s.pc # "ids" /\ s.inc = base => s.latest <= now - base
  <2>1. /\ live[w] \in SampleType /\ live \in [Live -> SampleType]
        /\ now \in Time /\ base \in Time /\ mark \in Second \cup {None} /\ base <= now
        /\ now \in Nat /\ base \in Nat /\ MaxTime \in Nat
    BY Numbers DEF Inv, SampleInv, TypeOK
  <2>2. CASE ReadMark(w)
    <3> DEFINE s == [live[w] EXCEPT !.pc = "ids", !.inc = base, !.last = mark]
    <3>1. s \in SampleType /\ s.pc = "ids" /\ s.inc = base /\ live' = [live EXCEPT ![w] = s]
      BY <2>1, <2>2 DEF SampleType, ReadMark
    <3> HIDE DEF s
    <3>2. /\ s.inc <= base
          /\ s.pc # "ids" /\ s.inc = base => s.latest <= now - base
      BY <2>1, <3>1
    <3> QED
      BY <3>1, <3>2
  <2>3. CASE ReadLatest(w)
    <3>1. PICK latest \in {-1} \cup (IF live[w].inc = base THEN {now - base} ELSE {}) :
            live' = [live EXCEPT ![w].pc = "cat", ![w].latest = latest]
      BY <2>3 DEF ReadLatest
    <3> DEFINE s == [live[w] EXCEPT !.pc = "cat", !.latest = latest]
    <3>2. live[w].inc <= base /\ latest <= now - base /\ latest \in Time \cup {-1}
      <4>1. live[w].inc <= base
        BY <2>3 DEF Inv, SampleInv, Dated, Reading, ReadLatest
      <4>2. latest = -1 \/ latest = now - base
        BY <3>1
      <4> QED
        BY <2>1, <4>1, <4>2 DEF Time
    <3>3. /\ s \in SampleType /\ s.pc = "cat" /\ s.inc = live[w].inc /\ s.latest = latest
          /\ live' = [live EXCEPT ![w] = s]
      BY <2>1, <3>1, <3>2 DEF SampleType
    <3> HIDE DEF s
    <3> QED
      BY <3>2, <3>3
  <2> QED
    BY <2>2, <2>3
<1>2. /\ live'[w] = s /\ live' \in [Live -> SampleType]
      /\ \A v \in Live : v # w => live'[v] = live[v]
  BY <1>1, OneThread DEF Inv
<1>3. /\ UNCHANGED <<now, base, mark, fill, nextAt, isNew, points, counted, perf, promised>>
      /\ live[w].pc # "record"
  BY DEF ReadMark, ReadLatest
<1>4. TypeOK'
  BY <1>2, <1>3 DEF Inv, TypeOK, SampleType
<1>5. NoneSkipped'
  BY <1>1, <1>3, NothingInHand
<1>6. Dated'
  <2>1. \A v \in Reading' : v = w \/ (v \in Reading /\ live'[v] = live[v])
    BY <1>2 DEF Reading
  <2> QED
    BY <1>1, <1>2, <1>3, <2>1 DEF Inv, SampleInv, Dated
<1>7. Scanned'
  BY <1>1, <1>2, <1>3 DEF Inv, SampleInv, Scanned, ById, FoundIds, FoundLast
<1> QED
  BY <1>3, <1>4, <1>5, <1>6, <1>7 DEF Inv, SampleInv

\* The seconds of a window are seconds the instance has.
LEMMA WindowSeconds ==
  ASSUME Inv, NEW s \in SampleType
  PROVE  Window(s) \in SUBSET Second /\ Window(s) # None
<1>1. Ash \subseteq Second
  BY Numbers DEF Inv, Ash, Second
<1>2. Window(s) \in SUBSET Second
  BY <1>1 DEF Window, IdRange, LastSeconds
<1> QED
  BY <1>2, NoneAssumption DEF Second

\* The category scan finds what its window names.
LEMMA CategoryStep ==
  ASSUME Inv, NEW w \in Live, ScanCategories(w)
  PROVE  TypeOK' /\ SampleInv'
<1>1. /\ live[w] \in SampleType /\ live \in [Live -> SampleType] /\ live[w].pc = "cat" /\ w \in Reading
      /\ UNCHANGED <<now, base, mark, fill, nextAt, isNew, points, counted, perf, promised>>
  BY Numbers DEF Inv, ScanCategories, Reading
<1>2. CASE live' = [live EXCEPT ![w].pc = "record"]
  <2> DEFINE s == [live[w] EXCEPT !.pc = "record"]
  <2>1. s \in SampleType /\ s.pc = "record" /\ live' = [live EXCEPT ![w] = s]
    BY <1>1, <1>2 DEF SampleType
  <2> HIDE DEF s
  <2>2. TypeOK'
    BY <1>1, <2>1, OneThread DEF Inv, TypeOK, SampleType
  <2> QED
    BY <1>1, <2>1, <2>2, OutsideScan, NothingInHand DEF SampleInv
<1>3. CASE live[w].inc = base /\ live' = [live EXCEPT ![w].pc = "perf", ![w].scanned = now, ![w].cat = Window(live[w])]
  <2> DEFINE s == [live[w] EXCEPT !.pc = "perf", !.scanned = now, !.cat = Window(live[w])]
  <2>1. Window(live[w]) \in SUBSET Second /\ Window(live[w]) # None
    BY <1>1, WindowSeconds
  <2>2. /\ s \in SampleType /\ live' = [live EXCEPT ![w] = s]
        /\ s.pc = "perf" /\ s.cat = Window(live[w]) /\ s.inc = base
        /\ s.last = live[w].last /\ s.latest = live[w].latest /\ s.scanned = now
        /\ ById(s) = ById(live[w])
    BY <1>1, <1>3, <2>1 DEF SampleType, ById, Inv, TypeOK
  <2> HIDE DEF s
  <2>3. /\ live'[w] = s /\ live' \in [Live -> SampleType]
        /\ \A v \in Live : v # w => live'[v] = live[v]
    BY <2>2, OneThread DEF Inv
  <2>4. TypeOK'
    BY <1>1, <2>3 DEF Inv, TypeOK, SampleType
  <2>5. Dated'
    <3>1. \A v \in Reading' : v = w \/ (v \in Reading /\ live'[v] = live[v])
      BY <2>3 DEF Reading
    <3> QED
      BY <1>1, <1>3, <2>2, <2>3, <3>1 DEF Inv, SampleInv, Dated
  <2>6. Scanned'
    <3>1. /\ live[w].latest <= now - base
          /\ now \in Nat /\ base \in Nat /\ Interval \in Nat /\ live[w].latest \in Int
      BY <1>1, <1>3, Numbers DEF Inv, SampleInv, Dated, SampleType, Time
    <3>2. CASE ById(live[w])
      <4>1. live[w].last \in Nat
        BY <1>1, <3>1, <3>2 DEF ById, SampleType, Second
      <4>2. FoundIds(s)
        BY <2>2, <3>1, <3>2, <4>1 DEF FoundIds, Window, IdRange, Ash, Second
      <4> QED
        BY <1>1, <2>1, <2>2, <2>3, <3>1, <3>2, <4>2 DEF Inv, SampleInv, Scanned, ById, FoundIds, FoundLast
    <3>3. CASE ~ById(live[w])
      <4>1. FoundLast(s)
        BY <2>2, <3>1, <3>3 DEF FoundLast, Window, LastSeconds, Ash, Second
      <4> QED
        BY <1>1, <2>1, <2>2, <2>3, <3>1, <3>3, <4>1 DEF Inv, SampleInv, Scanned, ById, FoundIds, FoundLast
    <3> QED
      BY <3>2, <3>3
  <2>7. NoneSkipped'
    BY <1>1, <2>2, NothingInHand
  <2> QED
    BY <1>1, <2>4, <2>5, <2>6, <2>7 DEF Inv, SampleInv
<1> QED
  BY <1>2, <1>3 DEF ScanCategories

\* What a sample promises when it moves the watermark is what its scan has found.
LEMMA PromiseIsFound ==
  ASSUME Inv, NEW w \in Live, live[w].pc = "perf"
  PROVE  /\ Promise(live[w]) \subseteq Second
         /\ \A t \in Promise(live[w]) : t \in live[w].cat
<1> SUFFICES ASSUME NEW t \in Promise(live[w])
             PROVE  t \in Second /\ t \in live[w].cat
  OBVIOUS
<1> DEFINE s == live[w]
<1>1. /\ s \in SampleType /\ now \in Nat /\ base \in Nat /\ now <= MaxTime /\ MaxTime \in Nat
      /\ Interval \in Nat /\ GapCycles \in Nat /\ None \notin Int
  BY Numbers, TickAssumption DEF Inv
<1>2. /\ s.inc = base /\ ById([s EXCEPT !.last = mark]) /\ (s.last = None \/ s.last <= mark)
      /\ ById(s) \/ s.scanned - Interval <= base + mark + 1
      /\ t \in (base + mark + 1)..(base + s.latest)
  BY DEF Promise
<1>3. [s EXCEPT !.last = mark].last = mark /\ [s EXCEPT !.last = mark].latest = s.latest
  BY <1>1 DEF SampleType
<1>4. /\ s.latest > 0 /\ mark # None /\ s.latest > mark /\ s.latest - mark <= Interval * GapCycles
  BY <1>2, <1>3 DEF ById
<1>5. mark \in Nat /\ mark >= 1 /\ (s.last = None \/ s.last \in Nat) /\ s.scanned \in Nat
      /\ s.latest \in Int
  BY <1>1, <1>4 DEF Inv, TypeOK, SampleType, Second, Time
<1>6. s.latest <= s.scanned - base /\ s.scanned <= now
  BY <1>2 DEF Inv, SampleInv, Scanned
<1>7. t \in Int /\ base + mark + 1 <= t /\ t <= base + s.latest /\ t <= s.scanned /\ t \in Second
  BY <1>1, <1>2, <1>5, <1>6 DEF Second
<1>8. CASE ById(s)
  <2>1. s.last \in Nat /\ s.last <= mark /\ FoundIds(s)
    BY <1>2, <1>5, <1>8 DEF ById, Inv, SampleInv, Scanned
  <2> QED
    BY <1>1, <1>5, <1>6, <1>7, <2>1 DEF FoundIds
<1>9. CASE ~ById(s)
  <2>1. FoundLast(s)
    BY <1>2, <1>9 DEF Inv, SampleInv, Scanned
  <2> QED
    BY <1>1, <1>2, <1>5, <1>7, <1>9, <2>1 DEF FoundLast
<1> QED
  BY <1>8, <1>9

\* The watermark moves; what it promises is in the hands of the thread.
LEMMA PerfStep ==
  ASSUME Inv, NEW w \in Live, ScanPerf(w)
  PROVE  TypeOK' /\ SampleInv'
<1>1. PICK p \in {None} \cup (IF live[w].inc = base THEN {Window(live[w])} ELSE {}) :
        live' = [live EXCEPT ![w].pc = "record", ![w].perf = p]
  BY DEF ScanPerf
<1> DEFINE s == [live[w] EXCEPT !.pc = "record", !.perf = p]
<1>2. /\ live[w] \in SampleType /\ live \in [Live -> SampleType] /\ live[w].pc = "perf"
      /\ mark' = NextMark(live[w]) /\ promised' = promised \cup Promise(live[w])
      /\ UNCHANGED <<now, base, fill, nextAt, isNew, points, counted, perf>>
  BY Numbers DEF Inv, ScanPerf
<1>3. p \in (SUBSET Second) \cup {None}
  BY <1>1, <1>2, WindowSeconds
<1>4. /\ s \in SampleType /\ live' = [live EXCEPT ![w] = s]
      /\ s.pc = "record" /\ s.cat = live[w].cat
  BY <1>1, <1>2, <1>3 DEF SampleType
<1> HIDE DEF s
<1>5. /\ live'[w] = s /\ live' \in [Live -> SampleType]
      /\ \A v \in Live : v # w => live'[v] = live[v]
  BY <1>4, OneThread DEF Inv
<1>6. mark' \in Second \cup {None} /\ mark' = (IF live[w].latest > 0 THEN live[w].latest ELSE mark)
  BY <1>2 DEF Inv, TypeOK, NextMark, SampleType, Time, Second
<1>7. TypeOK'
  BY <1>2, <1>5, <1>6, PromiseIsFound DEF Inv, TypeOK, SampleType
<1>8. \A v \in Reading' : v \in Reading /\ live'[v] = live[v]
  BY <1>4, <1>5 DEF Reading
<1>9. Dated'
  BY <1>2, <1>8 DEF Inv, SampleInv, Dated
<1>10. Scanned'
  BY <1>2, <1>4, <1>5 DEF Inv, SampleInv, Scanned, ById, FoundIds, FoundLast
<1>11. NoneSkipped'
  <2> SUFFICES ASSUME NEW t \in promised'
               PROVE  t \in counted \/ \E v \in Live : InHandOf(t, v)'
    BY <1>2 DEF NoneSkipped
  <2>1. CASE t \in promised
    BY <1>2, <1>5, <2>1 DEF Inv, SampleInv, NoneSkipped, InHandOf
  <2>2. CASE t \in Promise(live[w])
    <3>1. t \in live[w].cat /\ live[w].cat # None
      BY <1>2, <2>2, PromiseIsFound DEF Inv, SampleInv, Scanned
    <3> QED
      BY <1>4, <1>5, <3>1 DEF InHandOf
  <2> QED
    BY <1>2, <2>1, <2>2
<1> QED
  BY <1>2, <1>7, <1>9, <1>10, <1>11 DEF Inv, SampleInv

\* What was in hand is recorded, or taken out of the promise when that fails.
LEMMA RecordStep ==
  ASSUME Inv, NEW w \in Live, RecordIfPresent(w) \/ RecordFails(w)
  PROVE  TypeOK' /\ SampleInv'
<1>1. /\ live[w] \in SampleType /\ live[w].pc = "record" /\ live' = [live EXCEPT ![w] = NoSample]
      /\ UNCHANGED <<now, base, mark, fill, isNew>> /\ EndOfRun(w)
      /\ NoSample \in SampleType /\ NoSample.pc = "idle"
  BY Numbers DEF Inv, RecordIfPresent, RecordFails, NoSample, SampleType, Time
<1>2. nextAt' \in Nat
  BY <1>1, Numbers DEF Inv, TypeOK, EndOfRun
<1>3. /\ live'[w] = NoSample /\ live' \in [Live -> SampleType]
      /\ \A v \in Live : v # w => live'[v] = live[v]
  BY <1>1, OneThread DEF Inv
<1>4. (base <= now /\ Dated /\ Scanned)'
  BY <1>1, OutsideScan
<1>5. /\ live[w].at \in Nat /\ live[w].cat \in (SUBSET Second) \cup {None}
      /\ live[w].perf \in (SUBSET Second) \cup {None}
  BY <1>1, Numbers DEF Inv, SampleType, Time
<1>6. CASE RecordIfPresent(w)
  <2>1. /\ counted' = (IF live[w].cat = None THEN counted ELSE counted \cup live[w].cat)
        /\ points' = (IF live[w].cat = None THEN points ELSE points \cup {live[w].at})
        /\ perf' = (perf \cup (IF live[w].perf = None THEN {} ELSE live[w].perf)) \/ perf' = perf
        /\ promised' = promised
    BY <1>6 DEF RecordIfPresent
  <2>2. counted' \subseteq Second /\ points' \subseteq Nat /\ perf' \subseteq Second
    BY <1>5, <2>1 DEF Inv, TypeOK
  <2>3. TypeOK'
    BY <1>1, <1>2, <1>3, <2>1, <2>2 DEF Inv, TypeOK, SampleType
  <2>4. NoneSkipped'
    BY <1>1, <1>3, <2>1 DEF Inv, SampleInv, NoneSkipped, InHandOf
  <2> QED
    BY <1>4, <2>3, <2>4 DEF SampleInv
<1>7. CASE RecordFails(w)
  <2>1. /\ promised' = promised \ live[w].cat /\ UNCHANGED <<points, counted, perf>>
    BY <1>7 DEF RecordFails
  <2>2. TypeOK'
    BY <1>1, <1>2, <1>3, <2>1 DEF Inv, TypeOK, SampleType
  <2>3. NoneSkipped'
    BY <1>1, <1>3, <2>1 DEF Inv, SampleInv, NoneSkipped, InHandOf
  <2> QED
    BY <1>4, <2>2, <2>3 DEF SampleInv
<1> QED
  BY <1>6, <1>7

-----------------------------------------------------------------------------
(* Clock, restarts and registration                                        *)

\* Time and a restart of the instance: ids begin again after all samples there were.
LEMMA ClockStep ==
  ASSUME Inv, Tick \/ DbRestart
  PROVE  TypeOK' /\ SampleInv'
<1>1. /\ now \in Nat /\ base \in Nat /\ now <= MaxTime /\ MaxTime \in Nat /\ base <= now
  BY Numbers DEF Inv, SampleInv
<1>2. UNCHANGED <<mark, live, fill, nextAt, isNew, points, counted, perf, promised>>
  BY DEF Tick, DbRestart
<1>3. /\ Reading' = Reading
      /\ \A v \in Reading : /\ live'[v] = live[v] /\ live[v].inc \in Nat /\ live[v].latest \in Int
      /\ \A v \in Live : live'[v] = live[v] /\ live[v].scanned \in Nat /\ live[v].inc \in Nat
  BY <1>2, Numbers DEF Inv, Reading, SampleType, Time
<1>4. NoneSkipped'
  BY <1>2 DEF Inv, SampleInv, NoneSkipped, InHandOf
<1>5. CASE Tick
  <2>1. now' = now + 1 /\ now' \in Time /\ base' = base
    BY <1>1, <1>5 DEF Tick, Time
  <2>2. TypeOK'
    BY <1>2, <2>1 DEF Inv, TypeOK
  <2>3. Dated'
    BY <1>1, <1>3, <2>1 DEF Inv, SampleInv, Dated
  <2>4. Scanned'
    BY <1>1, <1>3, <2>1 DEF Inv, SampleInv, Scanned, ById, FoundIds, FoundLast
  <2> QED
    BY <1>1, <1>4, <2>1, <2>2, <2>3, <2>4 DEF SampleInv
<1>6. CASE DbRestart
  <2>1. base' = now /\ base # now /\ now' = now /\ now \in Time
    BY <1>6 DEF DbRestart, Inv, TypeOK
  <2>2. TypeOK'
    BY <1>2, <2>1 DEF Inv, TypeOK
  <2>3. Dated'
    BY <1>1, <1>3, <2>1 DEF Inv, SampleInv, Dated
  <2>4. \A v \in Reading : live[v].inc # base'
    BY <1>1, <1>3, <2>1 DEF Inv, SampleInv, Dated
  <2>5. Scanned'
    BY <1>2, <2>1, <2>4 DEF Inv, SampleInv, Scanned, Reading
  <2> QED
    BY <1>1, <1>4, <2>1, <2>2, <2>3, <2>5 DEF SampleInv
<1> QED
  BY <1>5, <1>6

\* A restart of the application forgets the watermark and what was in hand with it;
\* a new instance has neither.
LEMMA BootStep ==
  ASSUME Inv, AppRestart \/ Register
  PROVE  TypeOK' /\ SampleInv'
<1>1. /\ NoSample \in SampleType /\ now \in Time /\ now \in Nat
      /\ [NoSample EXCEPT !.pc = "latest", !.at = now] \in SampleType
      /\ NoSample.pc = "idle" /\ [NoSample EXCEPT !.pc = "latest", !.at = now].pc = "latest"
  <2>1. NoSample \in SampleType /\ now \in Time /\ now \in Nat
    BY Numbers DEF Inv, TypeOK, NoSample, SampleType, Time
  <2> QED
    BY <2>1 DEF NoSample, SampleType
<1>2. [NoFill EXCEPT !.pc = "range"] \in
        [pc : {"idle", "range", "scan", "check", "record", "have", "perf", "save"},
         inc : Time, from : Minute, to : Minute, rows : SUBSET Minute,
         got : SUBSET Second, have : SUBSET Minute]
  <2>1. 0 \in Time /\ 0 \in Minute
    BY MinutesGrow, Numbers DEF Inv, Time, Minute
  <2> QED
    BY <2>1 DEF NoFill
<1>3. CASE AppRestart
  <2>1. /\ mark' = None /\ live' = [w \in Live |-> NoSample] /\ nextAt' = now
        /\ fill' = [NoFill EXCEPT !.pc = "range"] /\ promised' = promised \cap counted
        /\ UNCHANGED <<now, base, isNew, points, counted, perf>>
    BY <1>3 DEF AppRestart
  <2>2. TypeOK'
    BY <1>1, <1>2, <2>1 DEF Inv, TypeOK, SampleType
  <2>3. \A v \in Live : live'[v] = NoSample
    BY <2>1
  <2>4. (Dated /\ Scanned)'
    BY <1>1, <2>3 DEF Dated, Scanned, Reading
  <2>5. NoneSkipped'
    BY <2>1 DEF NoneSkipped
  <2> QED
    BY <2>1, <2>2, <2>4, <2>5 DEF Inv, SampleInv
<1>4. CASE Register
  <2>1. /\ isNew' = FALSE /\ fill' = [NoFill EXCEPT !.pc = "range"]
        /\ live' = [w \in Live |-> IF w = "now" THEN [NoSample EXCEPT !.pc = "latest", !.at = now] ELSE live[w]]
        /\ UNCHANGED <<now, base, mark, nextAt, points, counted, perf, promised>>
    BY <1>4 DEF Register
  <2>2. \A v \in Live : /\ v # "now" => live'[v] = live[v]
                        /\ v = "now" => live'[v].pc = "latest"
    BY <1>1, <2>1
  <2>3. TypeOK'
    <3>1. live' \in [Live -> SampleType]
      BY <1>1, <2>1, Numbers DEF Inv
    <3> QED
      BY <1>2, <2>1, <3>1 DEF Inv, TypeOK, SampleType
  <2>4. \A v \in Live : live'[v].pc \in {"ids", "cat", "perf"} => live'[v] = live[v]
    BY <2>2
  <2>5. Dated'
    <3>1. \A v \in Reading' : v \in Reading /\ live'[v] = live[v]
      BY <2>4 DEF Reading
    <3> QED
      BY <2>1, <3>1 DEF Inv, SampleInv, Dated
  <2>6. Scanned'
    BY <2>1, <2>4 DEF Inv, SampleInv, Scanned, ById, FoundIds, FoundLast
  <2>7. NoneSkipped'
    BY <1>4, <2>1 DEF Register, Inv, SampleInv, Unregistered, NoneSkipped, InHandOf
  <2> QED
    BY <2>1, <2>3, <2>5, <2>6, <2>7 DEF Inv, SampleInv
<1> QED
  BY <1>3, <1>4

\* Sampling begins when the instance has been registered.
LEMMA RegisteredStep ==
  ASSUME Inv, [Next]_vars
  PROVE  Unregistered'
<1> SUFFICES ASSUME isNew'
             PROVE  \A v \in Live : live'[v].pc = "idle"
  BY DEF Unregistered
<1>1. CASE Tick \/ DbRestart \/ FillStep \/ UNCHANGED vars
  <2>1. isNew' = isNew /\ live' = live
    BY <1>1 DEF Tick, DbRestart, FillStep, vars, Fill, FillStops, FillRange, FillScan, FillCheck, FillRecord,
                FillHave, FillPerf, FillSave
  <2> QED
    BY <2>1 DEF Inv, Unregistered
<1>2. CASE AppRestart \/ Register \/ StartCycle
  BY <1>2 DEF AppRestart, Register, StartCycle
<1>3. ASSUME NEW w \in Live,
             \/ SampleFails(w) \/ ReadMark(w) \/ ReadLatest(w) \/ ScanCategories(w)
             \/ ScanPerf(w) \/ RecordIfPresent(w) \/ RecordFails(w)
      PROVE  FALSE
  <2>1. isNew' = isNew /\ live[w].pc # "idle"
    BY <1>3 DEF SampleFails, ReadMark, ReadLatest, ScanCategories, ScanPerf, RecordIfPresent, RecordFails
  <2> QED
    BY <2>1 DEF Inv, Unregistered
<1> QED
  BY <1>1, <1>2, <1>3 DEF Next

-----------------------------------------------------------------------------
(* The back-fill                                                           *)

\* A thread of the sampler or the clock leaves the back-fill where it was, and a
\* restart of the instance makes its range useless.
LEMMA FillUntouched ==
  ASSUME Inv, UNCHANGED fill, \/ UNCHANGED base /\ now' >= now /\ now' \in Nat
                              \/ base' = now /\ base # now /\ now' = now
  PROVE  FillInv'
<1>1. GotWhole' /\ RowsInRange'
  BY DEF Inv, FillInv, GotWhole, RowsInRange
<1>2. WholeRange'
  <2>1. base \in Nat /\ now \in Nat /\ base <= now /\ fill.to \in Nat /\ fill.inc \in Nat
    BY MinutesGrow, Numbers DEF Inv, SampleInv, TypeOK, Minute, Time
  <2>2. CASE UNCHANGED base /\ now' >= now /\ now' \in Nat
    <3>1. MinuteOf(now) <= MinuteOf(now') /\ MinuteOf(now) \in Nat /\ MinuteOf(now') \in Nat
      BY <2>1, <2>2, MinutesGrow
    <3> QED
      BY <2>1, <2>2, <3>1 DEF Inv, FillInv, WholeRange, FirstWhole
  <2>3. CASE base' = now /\ base # now /\ now' = now
    BY <2>1, <2>3 DEF Inv, FillInv, WholeRange
  <2> QED
    BY <2>2, <2>3
<1> QED
  BY <1>1, <1>2 DEF FillInv

FillType == [pc : {"idle", "range", "scan", "check", "record", "have", "perf", "save"},
             inc : Time, from : Minute, to : Minute, rows : SUBSET Minute,
             got : SUBSET Second, have : SUBSET Minute]

\* The range lies between the oldest sample, if there is one, and now.
LEMMA RangeStep ==
  ASSUME Inv, FillRange
  PROVE  fill' \in FillType /\ FillInv'
<1> DEFINE to == MinuteOf(now)
           hour == IF to > BackfillMinutes THEN to - BackfillMinutes ELSE 0
           from == IF Ash # {} /\ FirstWhole > hour THEN FirstWhole ELSE hour
<1>1. /\ fill.pc = "range" /\ from < to
      /\ fill' = [fill EXCEPT !.pc = "scan", !.inc = base, !.from = from, !.to = to]
      /\ UNCHANGED <<now, base>>
  BY DEF FillRange, Fill
<1>2. /\ base \in Nat /\ now \in Nat /\ base <= now /\ base \in Time /\ now <= MaxTime /\ MaxTime \in Nat
      /\ fill \in FillType /\ BackfillMinutes \in Nat
  BY Numbers, TickAssumption DEF Inv, SampleInv, TypeOK, FillType
<1>3. to \in Nat /\ FirstWhole \in Nat /\ hour \in Nat /\ from \in Nat /\ to <= MinuteOf(MaxTime) /\ MinuteOf(MaxTime) \in Nat
  BY <1>2, MinutesGrow DEF FirstWhole
<1>4. from \in Minute /\ to \in Minute
  BY <1>1, <1>3 DEF Minute
<1>5. FirstWhole <= from \/ (Ash = {} /\ from = hour)
  BY <1>3
<1>6. Ash = {} => now = base
  BY <1>2 DEF Ash
<1> HIDE DEF to, hour, from
<1>7. /\ fill' \in FillType /\ fill'.pc = "scan" /\ fill'.inc = base /\ fill'.from = from /\ fill'.to = to
  BY <1>1, <1>2, <1>4 DEF FillType
<1>8. FirstWhole <= from \/ to <= MinuteOf(base)
  BY <1>2, <1>3, <1>5, <1>6 DEF to
<1>9. WholeRange'
  BY <1>1, <1>2, <1>3, <1>7, <1>8 DEF WholeRange, FirstWhole, to
<1> QED
  BY <1>7, <1>9 DEF FillInv, GotWhole, RowsInRange

\* The scan finds all of a minute of its range or, of an instance without samples, nothing.
LEMMA ScanStep ==
  ASSUME Inv, FillScan
  PROVE  fill' \in FillType /\ FillInv'
<1>1. /\ fill.pc = "scan" /\ fill.inc = base /\ fill' = [fill EXCEPT !.pc = "check", !.got = FillSeconds]
      /\ UNCHANGED <<now, base>>
  BY DEF FillScan, Fill
<1>2. /\ base \in Nat /\ now \in Nat /\ base <= now /\ now <= MaxTime /\ MaxTime \in Nat
      /\ fill \in FillType
  BY Numbers DEF Inv, SampleInv, TypeOK, FillType
<1>3. FillSeconds \in SUBSET Second
  BY <1>2 DEF FillSeconds, Ash, Second
<1>4. /\ fill' \in FillType /\ fill'.pc = "check" /\ fill'.got = FillSeconds
      /\ fill'.from = fill.from /\ fill'.to = fill.to
  BY <1>1, <1>2, <1>3 DEF FillType
<1>5. GotWhole'
  <2> SUFFICES ASSUME NEW m \in fill.from..(fill.to - 1)
               PROVE  SecondsOf(m) \subseteq FillSeconds \/ SecondsOf(m) \cap FillSeconds = {}
    BY <1>4 DEF GotWhole
  <2>1. fill.from \in Nat /\ fill.to \in Nat
    BY <1>2, MinutesGrow DEF FillType, Minute
  <2>2. m \in Nat /\ fill.from <= m /\ m < fill.to
    BY <2>1
  <2>3. CASE FirstWhole <= fill.from /\ fill.to <= MinuteOf(now)
    <3> SUFFICES ASSUME NEW t \in SecondsOf(m)
                 PROVE  t \in FillSeconds
      OBVIOUS
    <3>1. t \in Nat /\ MinuteOf(t) = m
      BY <1>2 DEF SecondsOf, Time
    <3>2. /\ MinuteOf(base + 1) \in Nat /\ MinuteOf(now) \in Nat
          /\ t <= base + 1 => MinuteOf(t) <= MinuteOf(base + 1)
          /\ now <= t => MinuteOf(now) <= MinuteOf(t)
      BY <1>2, <3>1, MinutesGrow
    <3>3. base + 1 < t /\ t < now
      BY <1>2, <2>1, <2>2, <2>3, <3>1, <3>2 DEF FirstWhole
    <3> QED
      BY <1>2, <2>2, <3>1, <3>3 DEF FillSeconds, Ash
  <2>4. CASE fill.to <= MinuteOf(base)
    <3> SUFFICES ASSUME NEW t \in SecondsOf(m), t \in FillSeconds
                 PROVE  FALSE
      OBVIOUS
    <3>1. t \in Nat /\ MinuteOf(t) = m /\ base < t
      BY <1>2 DEF SecondsOf, Time, FillSeconds, Ash
    <3>2. MinuteOf(base) \in Nat /\ MinuteOf(base) <= MinuteOf(t)
      BY <1>2, <3>1, MinutesGrow
    <3> QED
      BY <2>1, <2>2, <2>4, <3>1, <3>2
  <2> QED
    BY <1>1, <2>3, <2>4 DEF Inv, FillInv, WholeRange
<1> QED
  BY <1>4, <1>5 DEF FillInv, WholeRange, RowsInRange

\* The other steps of the back-fill keep what was found, or end it.
LEMMA FillStepKeeps ==
  ASSUME Inv, FillStep
  PROVE  fill' \in FillType /\ FillInv' /\ counted \subseteq counted'
         /\ counted' \subseteq Second /\ perf' \subseteq Second /\ points' \subseteq Nat
<1>1. /\ fill \in FillType /\ counted \subseteq Second /\ perf \subseteq Second /\ points \subseteq Nat
      /\ MaxTime \in Nat
  BY Numbers DEF Inv, TypeOK, FillType
<1>2. NoFill \in FillType /\ NoFill.pc = "idle"
  <2>1. 0 \in Time /\ 0 \in Minute
    BY <1>1, MinutesGrow DEF Time, Minute
  <2> QED
    BY <2>1 DEF NoFill, FillType
<1>3. CASE FillStops \/ FillSave
  <2>1. fill' = NoFill /\ counted' = counted /\ points' = points /\ perf' \subseteq perf \cup fill.got
    BY <1>3 DEF FillStops, FillSave
  <2> QED
    BY <1>1, <1>2, <2>1 DEF FillInv, WholeRange, GotWhole, RowsInRange, FillType
<1>4. CASE FillRange
  BY <1>1, <1>4, RangeStep DEF FillRange
<1>5. CASE FillScan
  BY <1>1, <1>5, ScanStep DEF FillScan
<1>6. CASE FillCheck
  <2> DEFINE rows == {m \in fill.from..(fill.to - 1) : ~NearSample(m)}
  <2>1. /\ fill.pc = "check" /\ fill' = [fill EXCEPT !.pc = "record", !.rows = rows]
        /\ UNCHANGED <<points, counted, perf>>
    BY <1>6 DEF FillCheck, Fill
  <2>2. rows \in SUBSET Minute /\ rows \subseteq fill.from..(fill.to - 1)
    BY <1>1, MinutesGrow DEF FillType, Minute
  <2> HIDE DEF rows
  <2>3. /\ fill' \in FillType /\ fill'.pc = "record" /\ fill'.rows = rows /\ fill'.got = fill.got
        /\ fill'.from = fill.from /\ fill'.to = fill.to
    BY <1>1, <2>1, <2>2 DEF FillType
  <2> QED
    BY <1>1, <2>1, <2>2, <2>3 DEF Inv, FillInv, WholeRange, GotWhole, RowsInRange
<1>7. CASE FillRecord
  <2>1. /\ fill.pc = "record" /\ fill' = [fill EXCEPT !.pc = "have", !.rows = {}, !.got = {}]
        /\ points' = points \cup {EndOf(m) : m \in fill.rows}
        /\ counted' = counted \cup {t \in fill.got : MinuteOf(t) \in fill.rows}
        /\ perf' = perf
    BY <1>7 DEF FillRecord, Fill
  <2>2. \A m \in fill.rows : EndOf(m) \in Nat
    BY <1>1, MinutesGrow, TickAssumption DEF FillType, Minute, EndOf
  <2>3. fill' \in FillType /\ fill'.pc = "have"
    BY <1>1, <2>1 DEF FillType
  <2> QED
    BY <1>1, <2>1, <2>2, <2>3 DEF FillInv, WholeRange, GotWhole, RowsInRange, FillType
<1>8. CASE FillHave
  <2>1. fill' = [fill EXCEPT !.pc = "perf", !.have = MinutesOf(perf)] /\ UNCHANGED <<points, counted, perf>>
    BY <1>8 DEF FillHave, Fill
  <2>2. MinutesOf(perf) \in SUBSET Minute
    <3>1. \A t \in perf : t \in Nat /\ t <= MaxTime
      BY <1>1 DEF Second
    <3>2. \A t \in perf : MinuteOf(t) \in Minute
      BY <1>1, <3>1, MinutesGrow DEF Minute
    <3> QED
      BY <3>2 DEF MinutesOf
  <2>3. fill' \in FillType /\ fill'.pc = "perf"
    BY <1>1, <2>1, <2>2 DEF FillType
  <2> QED
    BY <1>1, <2>1, <2>3 DEF FillInv, WholeRange, GotWhole, RowsInRange
<1>9. CASE FillPerf
  <2> DEFINE got == {t \in FillSeconds : MinuteOf(t) \notin fill.have}
  <2>1. fill' = [fill EXCEPT !.pc = "save", !.got = got] /\ UNCHANGED <<points, counted, perf>>
    BY <1>9 DEF FillPerf, Fill
  <2>2. got \in SUBSET Second
    BY Numbers DEF Inv, FillSeconds, Ash, Second
  <2> HIDE DEF got
  <2>3. fill' \in FillType /\ fill'.pc = "save"
    BY <1>1, <2>1, <2>2 DEF FillType
  <2> QED
    BY <1>1, <2>1, <2>3 DEF FillInv, WholeRange, GotWhole, RowsInRange
<1> QED
  BY <1>3, <1>4, <1>5, <1>6, <1>7, <1>8, <1>9 DEF FillStep

-----------------------------------------------------------------------------
(* The theorems                                                            *)

\* The initial states.
LEMMA InitInv ==
  ASSUME Init
  PROVE  Inv
<1>1. 0 \in Time /\ 0 \in Minute /\ 0 \in Nat
  BY MinutesGrow, TickAssumption DEF Time, Minute
<1>2. NoSample \in SampleType /\ NoFill \in FillType /\ NoSample.pc = "idle" /\ NoFill.pc = "idle"
  BY <1>1 DEF NoSample, SampleType, NoFill, FillType
<1>3. \A v \in Live : live[v] = NoSample
  BY DEF Init
<1>4. TypeOK
  BY <1>1, <1>2 DEF Init, TypeOK, SampleType, FillType
<1>5. SampleInv
  BY <1>2, <1>3 DEF Init, SampleInv, Dated, Scanned, Reading, NoneSkipped
<1>6. FillInv
  BY <1>2 DEF Init, FillInv, WholeRange, GotWhole, RowsInRange
<1> QED
  BY <1>2, <1>3, <1>4, <1>5, <1>6 DEF Inv, Unregistered

\* Every step.
LEMMA NextInv ==
  ASSUME Inv, [Next]_vars
  PROVE  Inv'
<1>1. Unregistered'
  BY RegisteredStep
<1>2. CASE Tick \/ DbRestart
  <2>1. \/ UNCHANGED base /\ now' >= now /\ now' \in Nat
        \/ base' = now /\ base # now /\ now' = now
    BY <1>2, Numbers DEF Inv, Tick, DbRestart
  <2>2. UNCHANGED fill
    BY <1>2 DEF Tick, DbRestart
  <2> QED
    BY <1>1, <1>2, <2>1, <2>2, ClockStep, FillUntouched DEF Inv
<1>3. CASE AppRestart \/ Register
  <2>1. fill'.pc = "range"
    BY <1>3 DEF AppRestart, Register, NoFill
  <2> QED
    BY <1>1, <1>3, <2>1, BootStep DEF Inv, FillInv, WholeRange, GotWhole, RowsInRange
<1>4. CASE StartCycle \/ \E w \in Live : SampleFails(w)
  <2>1. UNCHANGED <<fill, base, now>> /\ now' >= now /\ now' \in Nat
    BY <1>4, Numbers DEF Inv, StartCycle, SampleFails
  <2> QED
    BY <1>1, <1>4, <2>1, BeginStep, FillUntouched DEF Inv
<1>5. ASSUME NEW w \in Live, ReadMark(w) \/ ReadLatest(w) \/ ScanCategories(w) \/ ScanPerf(w) \/ RecordIfPresent(w) \/ RecordFails(w)
      PROVE  Inv'
  <2>1. UNCHANGED <<fill, base, now>>
    BY <1>5 DEF ReadMark, ReadLatest, ScanCategories, ScanPerf, RecordIfPresent, RecordFails
  <2>2. now' >= now /\ now' \in Nat
    BY <2>1, Numbers DEF Inv
  <2>3. FillInv'
    BY <2>1, <2>2, FillUntouched
  <2> QED
    BY <1>1, <1>5, <2>3, ReadStep, CategoryStep, PerfStep, RecordStep DEF Inv
<1>6. CASE FillStep
  <2>1. UNCHANGED <<now, base, mark, live, nextAt, isNew, promised>>
    BY <1>6 DEF FillStep, Fill, FillStops, FillRange, FillScan, FillCheck, FillRecord, FillHave, FillPerf, FillSave
  <2>2. TypeOK'
    BY <1>6, <2>1, FillStepKeeps DEF Inv, TypeOK, FillType
  <2>3. SampleInv'
    <3>1. (Dated /\ Scanned)'
      BY <2>1 DEF Inv, SampleInv, Dated, Scanned, Reading, ById, FoundIds, FoundLast
    <3>2. NoneSkipped'
      BY <1>6, <2>1, FillStepKeeps DEF Inv, SampleInv, NoneSkipped, InHandOf
    <3> QED
      BY <2>1, <3>1, <3>2 DEF Inv, SampleInv
  <2> QED
    BY <1>1, <1>6, <2>2, <2>3, FillStepKeeps DEF Inv
<1>7. CASE UNCHANGED vars
  BY <1>1, <1>7 DEF vars, Inv, TypeOK, SampleInv, FillInv, Dated, Scanned, Reading, ById, FoundIds,
     FoundLast, NoneSkipped, InHandOf, WholeRange, GotWhole, RowsInRange, FirstWhole, SecondsOf
<1> QED
  BY <1>2, <1>3, <1>4, <1>5, <1>6, <1>7 DEF Next

\* Counting by sample_id leaves no second out, whatever the interval and however long the samples take,
\* with an extra sample beside the periodic one, failed scans and restarts of both sides.
THEOREM NoSecondIsSkipped == Spec => []WatermarkIsHonest
<1>1. Init => Inv
  BY InitInv
<1>2. Inv /\ [Next]_vars => Inv'
  BY NextInv
<1>3. Inv => WatermarkIsHonest
  BY DEF Inv, SampleInv, NoneSkipped, InHandOf, WatermarkIsHonest, NoSecondSkipped, InHand
<1> QED
  BY <1>1, <1>2, <1>3, PTL DEF Spec

\* The back-fill averages a minute from all of its samples or from none, for any
\* length of a minute and any range.
THEOREM MinutesAreWhole == Spec => []BackfillWholeMinutes
<1>1. Init => Inv
  BY InitInv
<1>2. Inv /\ [Next]_vars => Inv'
  BY NextInv
<1>3. Inv => BackfillWholeMinutes
  BY DEF Inv, FillInv, GotWhole, RowsInRange, BackfillWholeMinutes
<1> QED
  BY <1>1, <1>2, <1>3, PTL DEF Spec

=============================================================================
