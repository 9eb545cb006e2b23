-------------------------- MODULE BasicMetricsProofs --------------------------
(***************************************************************************)
(* BasicMetrics: the tickers, the batch and the arithmetic of the records, *)
(* for any policies and answers of Admin, any number of samples and words  *)
(* of any width.                                                           *)
(***************************************************************************)
EXTENDS BasicMetrics, SequenceTheorems, TLAPS

(***************************************************************************)
(* The tickers.                                                            *)
(***************************************************************************)

\* resetTickers never hands time.NewTicker a period it would panic on, ...
LEMMA ResetTickersPositive ==
  ASSUME NEW p
  PROVE  ~(ResetTickers(p).sample <= 0) /\ ~(ResetTickers(p).flush <= 0)
  <1>1. ASSUME NEW d, NEW i \in Interval PROVE ~(OrDefault(d, i) <= 0)
    BY PolicyAssumption DEF OrDefault, Policies, Durations
  <1> QED
    BY <1>1 DEF ResetTickers, Interval

\* ... and changes nothing about periods with which the loop could start.
LEMMA FirstTickersReset ==
  ASSUME NEW p, ~(FirstTickers(p).sample <= 0), ~(FirstTickers(p).flush <= 0)
  PROVE  FirstTickers(p) = ResetTickers(p)
  BY DEF FirstTickers, ResetTickers, OrDefault

\* Policies that do not outdate the tickers differ in the batch size only.
LEMMA TickersStay ==
  ASSUME NEW p, NEW q, ~TickersOutdated(p, q)
  PROVE  ResetTickers(p) = ResetTickers(q)
  BY DEF TickersOutdated, ResetTickers, SampleInterval

LEMMA TickersStep == TickersFollowPolicy /\ [Next]_vars => TickersFollowPolicy'
  <1> SUFFICES ASSUME TickersFollowPolicy, [Next]_vars PROVE TickersFollowPolicy'
    OBVIOUS
  <1>1. CASE Start
    <2>1. CASE phase' = "panicked"
      BY <2>1 DEF TickersFollowPolicy
    <2>2. CASE phase' # "panicked"
      <3>1. /\ phase' = "select" /\ ticker' = FirstTickers(policy')
            /\ ~(FirstTickers(policy').sample <= 0) /\ ~(FirstTickers(policy').flush <= 0)
        BY <1>1, <2>2 DEF Start, NewTickers
      <3>2. FirstTickers(policy') = ResetTickers(policy')
        BY <3>1, FirstTickersReset
      <3> QED
        BY <3>1, <3>2 DEF TickersFollowPolicy, ResetTickers, OrDefault, SampleInterval
    <2> QED
      BY <2>1, <2>2
  <1>2. CASE PolicyTick
    <2>1. CASE TickersOutdated(policy, policy')
      <3>1. phase' = "select" /\ ticker' = ResetTickers(policy')
        BY <1>2, <2>1, ResetTickersPositive DEF PolicyTick, NewTickers
      <3> QED
        BY <3>1 DEF TickersFollowPolicy, ResetTickers, OrDefault, SampleInterval
    <2>2. CASE ~TickersOutdated(policy, policy')
      <3>1. phase' = "select" /\ ticker' = ticker /\ ticker = ResetTickers(policy)
        BY <1>2, <2>2 DEF PolicyTick, TickersFollowPolicy
      <3>2. ResetTickers(policy) = ResetTickers(policy')
        BY <2>2, TickersStay
      <3> QED
        BY <3>1, <3>2 DEF TickersFollowPolicy, ResetTickers, OrDefault, SampleInterval
    <2> QED
      BY <2>1, <2>2
  <1>3. CASE SampleTick \/ FlushTick \/ Cancel
    BY <1>3 DEF SampleTick, FlushTick, Cancel, TickersFollowPolicy,
                ResetTickers, OrDefault, SampleInterval
  <1>4. CASE Done
    BY <1>4 DEF Done, TickersFollowPolicy
  <1>5. CASE UNCHANGED vars
    BY <1>5 DEF vars, TickersFollowPolicy, ResetTickers, OrDefault, SampleInterval
  <1> QED
    BY <1>1, <1>2, <1>3, <1>4, <1>5 DEF Next

\* Whatever Admin answers and however often the mode changes, the loop selects with
\* tickers that have the periods of the policy in force (resetTickers,
\* refreshPolicy).
THEOREM MetricsTickersFollowPolicy == Spec => []TickersFollowPolicy
  <1>1. Init => TickersFollowPolicy
    BY DEF Init, TickersFollowPolicy
  <1> QED
    BY <1>1, TickersStep, PTL DEF Spec

-----------------------------------------------------------------------------
(***************************************************************************)
(* Types.                                                                  *)
(***************************************************************************)
PolicyTypes == policy \in Policies /\ ticker \in [sample : Durations, flush : Durations]

BatchTypes ==
  /\ taken \in 0 .. MaxSamples
  /\ batch \in Seq(1 .. taken)
  /\ streamed \subseteq 1 .. taken
  /\ received \subseteq 1 .. taken

CounterTypes ==
  /\ kind \in Kinds
  /\ counter \in [all : Nat, idle : Nat] /\ counter.idle <= counter.all
  /\ prev \in [all : Nat, idle : Nat]
  /\ hasPrev \in BOOLEAN
  /\ surplus \in Int /\ missed \in Nat
  /\ troubles \subseteq Troubles

LEMMA WrapType == ASSUME NEW n \in Int PROVE Wrap(n) \in Durations
  BY ScaleAssumption DEF Wrap, Durations

LEMMA PolicyOfType == ASSUME NEW a \in Answers PROVE PolicyOf(a) \in Policies
  <1>1. a \in [stream : BOOLEAN, max : Int, every : [Interval -> Int]]
    BY PolicyAssumption
  <1>2. DefaultPolicy \in Policies
    BY PolicyAssumption
  <1>3. ASSUME NEW i \in Interval
        PROVE  secondsAsDuration(a.every[i], DefaultPolicy.every[i]) \in Durations
    <2>1. a.every[i] \in Int /\ a.every[i] * Second \in Int
      BY <1>1, ScaleAssumption
    <2>2. DefaultPolicy.every[i] \in Durations
      BY <1>2 DEF Policies
    <2> QED
      BY <2>1, <2>2, WrapType DEF secondsAsDuration
  <1> QED
    BY <1>1, <1>2, <1>3 DEF PolicyOf, Policies

LEMMA RefreshedType == ASSUME policy \in Policies PROVE Refreshed \subseteq Policies
  BY PolicyOfType DEF Refreshed

LEMMA TickersType ==
  ASSUME NEW p \in Policies
  PROVE  /\ FirstTickers(p) \in [sample : Durations, flush : Durations]
         /\ ResetTickers(p) \in [sample : Durations, flush : Durations]
  <1>1. ASSUME NEW i \in Interval
        PROVE  p.every[i] \in Durations /\ DefaultPolicy.every[i] \in Durations
    BY PolicyAssumption DEF Policies
  <1>2. SampleInterval(p) \in Interval /\ "flush" \in Interval /\ "batchSample" \in Interval
    BY DEF SampleInterval, Interval
  <1> QED
    BY <1>1, <1>2 DEF FirstTickers, ResetTickers, OrDefault

LEMMA PolicyTypesStep == PolicyTypes /\ [Next]_vars => PolicyTypes'
  <1> SUFFICES ASSUME PolicyTypes, [Next]_vars PROVE PolicyTypes'
    OBVIOUS
  <1>1. CASE Start \/ PolicyTick
    <2>1. policy' \in Policies
      BY <1>1, RefreshedType DEF Start, PolicyTick, PolicyTypes
    <2>2. ticker' \in {ticker, FirstTickers(policy'), ResetTickers(policy')}
      BY <1>1 DEF Start, PolicyTick, NewTickers
    <2> QED
      BY <2>1, <2>2, TickersType DEF PolicyTypes
  <1>2. CASE SampleTick \/ FlushTick \/ Cancel \/ Done \/ UNCHANGED vars
    BY <1>2 DEF SampleTick, FlushTick, Cancel, Done, vars, PolicyTypes
  <1> QED
    BY <1>1, <1>2 DEF Next

\* FlushBatch on records that were all taken keeps them in the batch or has them
\* received.
LEMMA FlushBatchKeeps ==
  ASSUME NEW n \in Nat, NEW b \in Seq(1 .. n), received \subseteq 1 .. n, FlushBatch(b)
  PROVE  /\ batch' \in Seq(1 .. n)
         /\ received \subseteq received' /\ received' \subseteq 1 .. n
         /\ Range(b) \subseteq Range(batch') \cup received'
  <1>1. Range(b) \subseteq 1 .. n
    BY DEF Range
  <1>2. CASE b = <<>>
    BY <1>2 DEF FlushBatch
  <1>3. CASE b # <<>>
    <2>1. PICK ok \in BOOLEAN : Report(b, ok) /\ batch' = IF ok THEN <<>> ELSE b
      BY <1>3 DEF FlushBatch
    <2>2. received' \in {received, received \cup Range(b)}
      BY <2>1 DEF Report
    <2>3. CASE ok
      <3>1. batch' = <<>> /\ received' = received \cup Range(b)
        BY <2>1, <2>3 DEF Report
      <3>2. batch' \in Seq(1 .. n)
        BY <3>1
      <3>3. /\ received \subseteq received' /\ received' \subseteq 1 .. n
            /\ Range(b) \subseteq received'
        BY <1>1, <3>1
      <3> QED
        BY <3>2, <3>3
    <2>4. CASE ~ok
      <3>1. batch' = b
        BY <2>1, <2>4
      <3> QED
        BY <1>1, <2>2, <3>1
    <2> QED
      BY <2>3, <2>4
  <1> QED
    BY <1>2, <1>3

LEMMA AppendRange ==
  ASSUME NEW S, NEW s \in Seq(S), NEW e \in S
  PROVE  Append(s, e) \in Seq(S) /\ Range(Append(s, e)) = Range(s) \cup {e}
  <1> DEFINE t == Append(s, e)
             n == Len(s)
  <1>1. /\ t \in Seq(S) /\ Len(t) = n + 1 /\ t[n + 1] = e
        /\ \A i \in 1 .. n : t[i] = s[i]
        /\ n \in Nat /\ Len(s) = n
    OBVIOUS
  <1>2. Range(t) = {t[i] : i \in 1 .. Len(t)}
    BY <1>1 DEF Range
  <1>3. Range(s) = {s[i] : i \in 1 .. Len(s)}
    BY DEF Range
  <1> HIDE DEF t, n
  <1>4. 1 .. n + 1 = (1 .. n) \cup {n + 1}
    BY <1>1
  <1>5. Range(t) = {t[i] : i \in 1 .. n} \cup {e}
    BY <1>1, <1>2, <1>4
  <1>6. {t[i] : i \in 1 .. n} = {s[i] : i \in 1 .. n}
    BY <1>1
  <1>7. Range(t) = Range(s) \cup {e}
    BY <1>1, <1>3, <1>5, <1>6
  <1> QED
    BY <1>1, <1>7 DEF t

LEMMA BatchStep ==
  BatchTypes /\ NothingForgotten /\ [Next]_vars => BatchTypes' /\ NothingForgotten'
  <1> SUFFICES ASSUME BatchTypes, NothingForgotten, [Next]_vars
               PROVE  BatchTypes' /\ NothingForgotten'
    OBVIOUS
  <1>1. CASE SampleTick
    <2>1. /\ taken' = taken + 1 /\ taken' \in 1 .. MaxSamples /\ taken \in Nat
          /\ phase = "select" /\ phase' = phase
      BY <1>1, ScaleAssumption DEF SampleTick, BatchTypes
    <2>2. batch \in Seq(1 .. taken')
      BY <2>1, SeqMonotonic DEF BatchTypes
    <2>3. CASE policy.stream
      <3>1. PICK ok \in BOOLEAN : Report(<<taken + 1>>, ok)
        BY <1>1, <2>3 DEF SampleTick
      <3>2. streamed' = streamed \cup {taken + 1} /\ batch' = batch
        BY <1>1, <2>3 DEF SampleTick
      <3>3. received' \in {received, received \cup {taken + 1}}
        BY <3>1 DEF Report, Range
      <3> QED
        BY <2>1, <2>2, <3>2, <3>3 DEF BatchTypes, NothingForgotten
    <2>4. CASE ~policy.stream
      <3> DEFINE b == Append(batch, taken + 1)
      <3>1. b \in Seq(1 .. taken') /\ Range(b) = Range(batch) \cup {taken'}
        BY <2>1, <2>2, AppendRange
      <3>2. streamed' = streamed /\ received \subseteq 1 .. taken'
        BY <1>1, <2>1, <2>4 DEF SampleTick, BatchTypes
      <3>3. CASE Len(b) >= policy.max
        <4>1. FlushBatch(b)
          BY <1>1, <2>4, <3>3 DEF SampleTick
        <4>2. taken' \in Nat
          BY <2>1
        <4> HIDE DEF b
        <4>3. /\ batch' \in Seq(1 .. taken')
              /\ received \subseteq received' /\ received' \subseteq 1 .. taken'
              /\ Range(b) \subseteq Range(batch') \cup received'
          BY <3>1, <3>2, <4>1, <4>2, FlushBatchKeeps
        <4> QED
          BY <2>1, <3>1, <3>2, <4>3 DEF BatchTypes, NothingForgotten
      <3>4. CASE ~(Len(b) >= policy.max)
        <4>1. batch' = b /\ received' = received
          BY <1>1, <2>4, <3>4 DEF SampleTick
        <4> QED
          BY <2>1, <3>1, <3>2, <4>1 DEF BatchTypes, NothingForgotten
      <3> QED
        BY <3>3, <3>4
    <2> QED
      BY <2>3, <2>4
  <1>2. CASE FlushTick
    <2>1. FlushBatch(batch) /\ taken' = taken /\ streamed' = streamed /\ phase' = phase
      BY <1>2 DEF FlushTick
    <2>2. /\ batch' \in Seq(1 .. taken)
          /\ received \subseteq received' /\ received' \subseteq 1 .. taken
          /\ Range(batch) \subseteq Range(batch') \cup received'
      BY <2>1, FlushBatchKeeps DEF BatchTypes
    <2> QED
      BY <2>1, <2>2 DEF BatchTypes, NothingForgotten
  <1>3. CASE Done
    <2>1. batch' = <<>> /\ taken' = taken /\ streamed' = streamed /\ phase' = "done"
      BY <1>3 DEF Done
    <2>2. received' \in {received, received \cup Range(batch)}
      BY <1>3 DEF Done, Report
    <2>3. Range(batch) \subseteq 1 .. taken
      BY DEF BatchTypes, Range
    <2>4. batch' \in Seq(1 .. taken')
      BY <2>1
    <2>5. BatchTypes'
      BY <2>1, <2>2, <2>3, <2>4 DEF BatchTypes
    <2> QED
      BY <2>1, <2>5 DEF NothingForgotten
  <1>4. CASE Start \/ PolicyTick \/ Cancel \/ UNCHANGED vars
    <2>1. UNCHANGED <<batch, taken, streamed, received>>
      BY <1>4 DEF Start, PolicyTick, Cancel, vars
    <2>2. phase = "done" => phase' = "done"
      BY <1>4 DEF Start, PolicyTick, Cancel, vars
    <2> QED
      BY <2>1, <2>2 DEF BatchTypes, NothingForgotten
  <1> QED
    BY <1>1, <1>2, <1>3, <1>4 DEF Next

\* While the loop runs, no failed report and no change of policy loses a record that
\* was taken in batch mode: it stays in the batch until a report of it got through
\* (flushBatch).
THEOREM MetricsNothingForgotten == Spec => []NothingForgotten
  <1>1. Init => BatchTypes /\ NothingForgotten
    BY ScaleAssumption DEF Init, BatchTypes, NothingForgotten
  <1> QED
    BY <1>1, BatchStep, PTL DEF Spec

-----------------------------------------------------------------------------
(***************************************************************************)
(* The records.                                                            *)
(***************************************************************************)

\* What the kept reading falls short of the counter: the next record will claim it.
Owed == IF hasPrev THEN counter.all - prev.all ELSE 0

CountInv ==
  /\ CounterTypes
  /\ hasPrev => prev.idle = counter.idle /\ prev.all <= counter.all
  /\ hasPrev /\ kind = "cpu" => prev = counter
  /\ "iowait" \notin troubles => surplus + Owed <= missed
  /\ troubles = {} => surplus = 0 /\ Owed = 0

LEMMA FigureType ==
  ASSUME NEW cur \in [all : Nat, idle : Nat], NEW before \in [all : Nat, idle : Nat]
  PROVE  Figure(cur, before) \in Nat
  BY ScaleAssumption DEF Figure, deltaCounterU64

\* When the idle part did not move, a figure is at most the rise of the counter.
LEMMA FigureBounded ==
  ASSUME NEW cur \in [all : Nat, idle : Nat], NEW before \in [all : Nat, idle : Nat],
         cur.idle <= before.idle
  PROVE  /\ Figure(cur, before) \in Nat
         /\ cur.all >= before.all => Figure(cur, before) <= cur.all - before.all
         /\ cur.all < before.all => Figure(cur, before) = 0
  BY ScaleAssumption DEF Figure, deltaCounterU64

\* Of a counter that goes on, a record says what it rose by less what idled, but
\* for wrapping.
LEMMA FigureOnwards ==
  ASSUME NEW cur \in [all : Nat, idle : Nat], NEW before \in [all : Nat, idle : Nat],
         before.idle <= cur.idle,
         cur.idle - before.idle <= cur.all - before.all
  PROVE  Figure(cur, before) =
           ((cur.all - before.all) - (cur.idle - before.idle)) % (2 * HalfRange)
  <1> DEFINE total == cur.all - before.all
             idled == cur.idle - before.idle
  <1>1. total \in Nat /\ idled \in Nat /\ total - idled \in Nat
    OBVIOUS
  <1>2. /\ deltaCounterU64(cur.all, before.all) = total
        /\ deltaCounterU64(cur.idle, before.idle) = idled
    BY DEF deltaCounterU64
  <1> HIDE DEF total, idled
  <1>3. Figure(cur, before) = IF total = 0 THEN 0 ELSE (total - idled) % (2 * HalfRange)
    BY <1>2 DEF Figure
  <1>4. total = 0 => (total - idled) % (2 * HalfRange) = 0
    BY <1>1, ScaleAssumption
  <1>5. Figure(cur, before) = (total - idled) % (2 * HalfRange)
    BY <1>3, <1>4
  <1> QED
    BY <1>5 DEF total, idled

LEMMA ModBounds ==
  ASSUME NEW n \in Nat
  PROVE  /\ n % (2 * HalfRange) \in Nat /\ n % (2 * HalfRange) <= n
         /\ n < 2 * HalfRange => n % (2 * HalfRange) = n
  BY ScaleAssumption

\* Onwards, Again, Unread and Fallen of Readings.
LEMMA ReadingCases ==
  ASSUME NEW before, before.all \in Nat, NEW r \in Readings(before)
  PROVE  \E p \in 0 .. MaxStep, i \in 0 .. MaxStep :
           \/ /\ r.cur = [all |-> before.all + p + i, idle |-> before.idle + i]
              /\ r.read = r.cur /\ r.passed = p /\ r.trouble = {}
              /\ kind # "cpu" => i = 0
           \/ /\ r.cur = [all |-> i, idle |-> 0]
              /\ r.read = r.cur /\ r.passed = p + i /\ r.trouble = {"reset"}
              /\ kind # "cpu"
           \/ /\ r.cur = [all |-> before.all + p, idle |-> before.idle + 0]
              /\ \E seen \in 0 .. r.cur.all : r.read = [all |-> seen, idle |-> r.cur.idle]
              /\ r.passed = p /\ r.trouble = {"unread"}
              /\ kind # "cpu"
           \/ /\ before.all > before.idle /\ kind = "cpu"
              /\ r.cur = [all |-> before.all + p + i - 1, idle |-> before.idle + i]
              /\ r.read = r.cur /\ r.passed = p /\ r.trouble = {"iowait"}
  <1> DEFINE Steps == {s \in (0 .. MaxStep) \X (0 .. MaxStep) : s[1] + s[2] <= MaxStep}
             Reading(all, idle, passed, trouble) ==
               [cur |-> [all |-> all, idle |-> idle], read |-> [all |-> all, idle |-> idle],
                passed |-> passed, trouble |-> trouble]
             Onwards == {Reading(before.all + s[1] + s[2], before.idle + s[2], s[1], {}) :
                           s \in IF kind = "cpu" THEN Steps ELSE (0 .. MaxStep) \X {0}}
             Again == {Reading(s[2], 0, s[1] + s[2], {"reset"}) : s \in Steps}
             Unread == UNION {{[cur |-> o.cur, read |-> [all |-> seen, idle |-> o.cur.idle],
                                passed |-> o.passed, trouble |-> {"unread"}] :
                                 seen \in IF kind = "service" THEN {0} ELSE 0 .. o.cur.all} :
                                o \in Onwards}
             Fallen == {Reading(before.all + s[1] + s[2] - 1, before.idle + s[2], s[1],
                                {"iowait"}) : s \in Steps}
  <1>1. r \in Onwards \cup IF kind # "cpu" THEN Again \cup Unread
                           ELSE IF before.all > before.idle THEN Fallen ELSE {}
    BY DEF Readings
  <1>2. 0 \in 0 .. MaxStep
    BY ScaleAssumption
  <1>3. ASSUME NEW o \in Onwards
        PROVE  \E p \in 0 .. MaxStep, i \in 0 .. MaxStep :
                 /\ o.cur = [all |-> before.all + p + i, idle |-> before.idle + i]
                 /\ o.read = o.cur /\ o.passed = p /\ o.trouble = {}
                 /\ kind # "cpu" => i = 0
    <2>1. PICK s \in IF kind = "cpu" THEN Steps ELSE (0 .. MaxStep) \X {0} :
            o = Reading(before.all + s[1] + s[2], before.idle + s[2], s[1], {})
      OBVIOUS
    <2>2. s[1] \in 0 .. MaxStep /\ s[2] \in 0 .. MaxStep /\ (kind # "cpu" => s[2] = 0)
      BY <1>2, <2>1
    <2> QED
      BY <2>1, <2>2
  <1>4. CASE r \in Onwards
    BY <1>3, <1>4
  <1>5. CASE r \in Again /\ kind # "cpu"
    <2>1. PICK s \in Steps : r = Reading(s[2], 0, s[1] + s[2], {"reset"})
      BY <1>5
    <2>2. s[1] \in 0 .. MaxStep /\ s[2] \in 0 .. MaxStep
      OBVIOUS
    <2> QED
      BY <1>5, <2>1, <2>2
  <1>6. CASE r \in Unread /\ kind # "cpu"
    <2>1. PICK o \in Onwards :
            \E seen \in IF kind = "service" THEN {0} ELSE 0 .. o.cur.all :
              r = [cur |-> o.cur, read |-> [all |-> seen, idle |-> o.cur.idle],
                   passed |-> o.passed, trouble |-> {"unread"}]
      BY <1>6
    <2>2. PICK p \in 0 .. MaxStep :
            /\ o.cur = [all |-> before.all + p + 0, idle |-> before.idle + 0]
            /\ o.passed = p
      BY <1>3, <1>6, <2>1
    <2> HIDE DEF Onwards
    <2>3. o.cur.all = before.all + p /\ o.cur.all \in Nat
      BY <2>2, ScaleAssumption
    <2>4. PICK seen \in 0 .. o.cur.all :
            r = [cur |-> o.cur, read |-> [all |-> seen, idle |-> o.cur.idle],
                 passed |-> o.passed, trouble |-> {"unread"}]
      <3>1. (IF kind = "service" THEN {0} ELSE 0 .. o.cur.all) \subseteq 0 .. o.cur.all
        BY <2>3
      <3> QED
        BY <2>1, <3>1
    <2>5. /\ r.cur = [all |-> before.all + p, idle |-> before.idle + 0]
          /\ r.read = [all |-> seen, idle |-> r.cur.idle] /\ seen \in 0 .. r.cur.all
          /\ r.passed = p /\ r.trouble = {"unread"}
      <3>1. before.all + p + 0 = before.all + p
        BY ScaleAssumption
      <3> QED
        BY <2>2, <2>4, <3>1
    <2> QED
      BY <1>2, <1>6, <2>5
  <1>7. CASE r \in Fallen /\ kind = "cpu" /\ before.all > before.idle
    <2>1. PICK s \in Steps :
            r = Reading(before.all + s[1] + s[2] - 1, before.idle + s[2], s[1], {"iowait"})
      BY <1>7
    <2>2. s[1] \in 0 .. MaxStep /\ s[2] \in 0 .. MaxStep
      OBVIOUS
    <2> QED
      BY <1>7, <2>1, <2>2
  <1> QED
    BY <1>1, <1>4, <1>5, <1>6, <1>7

\* What the counter may be next, and what a record would say of it when the reading
\* before it fell short by `owed'.
LEMMA ReadingsBounded ==
  ASSUME NEW before \in [all : Nat, idle : Nat], before.idle <= before.all,
         NEW r \in Readings(before),
         NEW last \in [all : Nat, idle : Nat], last.idle = before.idle,
         last.all <= before.all, kind = "cpu" => last = before
  PROVE  /\ r.cur \in [all : Nat, idle : Nat] /\ r.cur.idle <= r.cur.all
         /\ r.read \in [all : Nat, idle : Nat] /\ r.read.idle = r.cur.idle
         /\ r.read.all <= r.cur.all
         /\ kind = "cpu" => r.read = r.cur
         /\ r.passed \in Nat /\ r.trouble \in SUBSET {"reset", "iowait", "unread"}
         /\ "unread" \notin r.trouble => r.read = r.cur
         /\ Figure(r.read, last) \in Nat
         /\ "iowait" \notin r.trouble =>
              Figure(r.read, last) <= r.passed + (before.all - last.all)
         /\ r.trouble = {} /\ last = before => Figure(r.read, last) = r.passed
  <1>1. PICK p \in 0 .. MaxStep, i \in 0 .. MaxStep :
           \/ /\ r.cur = [all |-> before.all + p + i, idle |-> before.idle + i]
              /\ r.read = r.cur /\ r.passed = p /\ r.trouble = {}
              /\ kind # "cpu" => i = 0
           \/ /\ r.cur = [all |-> i, idle |-> 0]
              /\ r.read = r.cur /\ r.passed = p + i /\ r.trouble = {"reset"}
              /\ kind # "cpu"
           \/ /\ r.cur = [all |-> before.all + p, idle |-> before.idle + 0]
              /\ \E seen \in 0 .. r.cur.all : r.read = [all |-> seen, idle |-> r.cur.idle]
              /\ r.passed = p /\ r.trouble = {"unread"}
              /\ kind # "cpu"
           \/ /\ before.all > before.idle /\ kind = "cpu"
              /\ r.cur = [all |-> before.all + p + i - 1, idle |-> before.idle + i]
              /\ r.read = r.cur /\ r.passed = p /\ r.trouble = {"iowait"}
    BY ReadingCases
  <1> DEFINE owed == before.all - last.all
  <1>2. /\ p \in Nat /\ i \in Nat /\ p < 2 * HalfRange
        /\ before.all \in Nat /\ before.idle \in Nat /\ owed \in Nat
        /\ last.all \in Nat /\ last.idle \in Nat
        /\ last = [all |-> last.all, idle |-> last.idle]
        /\ before.all = last.all + owed
    BY ScaleAssumption
  <1>3. CASE /\ r.cur = [all |-> before.all + p + i, idle |-> before.idle + i]
             /\ r.read = r.cur /\ r.passed = p /\ r.trouble = {}
    <2>1. Figure(r.read, last) = (owed + p) % (2 * HalfRange)
      <3>1. r.read.all - last.all = owed + p + i /\ r.read.idle - last.idle = i
        BY <1>2, <1>3
      <3>2. r.read \in [all : Nat, idle : Nat]
        BY <1>2, <1>3
      <3>3. last.idle <= r.read.idle /\ r.read.idle - last.idle <= r.read.all - last.all
        BY <1>2, <1>3, <3>1
      <3>4. Figure(r.read, last) =
              ((r.read.all - last.all) - (r.read.idle - last.idle)) % (2 * HalfRange)
        BY <3>2, <3>3, FigureOnwards
      <3>5. (r.read.all - last.all) - (r.read.idle - last.idle) = owed + p
        BY <1>2, <3>1
      <3> QED
        BY <3>4, <3>5
    <2>2. (owed + p) % (2 * HalfRange) \in Nat /\ (owed + p) % (2 * HalfRange) <= owed + p
      BY <1>2, ModBounds
    <2>3. last = before => (owed + p) % (2 * HalfRange) = p
      BY <1>2, ModBounds
    <2> QED
      BY <1>2, <1>3, <2>1, <2>2, <2>3
  <1>4. CASE /\ r.cur = [all |-> i, idle |-> 0]
             /\ r.read = r.cur /\ r.passed = p + i /\ r.trouble = {"reset"}
             /\ kind # "cpu"
    <2>1. /\ Figure(r.read, last) \in Nat
          /\ r.read.all >= last.all => Figure(r.read, last) <= r.read.all - last.all
          /\ r.read.all < last.all => Figure(r.read, last) = 0
      BY <1>2, <1>4, FigureBounded
    <2> QED
      BY <1>2, <1>4, <2>1
  <1>5. CASE /\ r.cur = [all |-> before.all + p, idle |-> before.idle + 0]
             /\ \E seen \in 0 .. r.cur.all : r.read = [all |-> seen, idle |-> r.cur.idle]
             /\ r.passed = p /\ r.trouble = {"unread"}
             /\ kind # "cpu"
    <2>1. /\ r.read \in [all : Nat, idle : Nat] /\ r.read.all <= r.cur.all
          /\ r.read.idle = last.idle /\ r.cur.all = last.all + owed + p
      BY <1>2, <1>5
    <2>2. /\ Figure(r.read, last) \in Nat
          /\ r.read.all >= last.all => Figure(r.read, last) <= r.read.all - last.all
          /\ r.read.all < last.all => Figure(r.read, last) = 0
      BY <1>2, <2>1, FigureBounded
    <2>3. Figure(r.read, last) <= p + owed
      BY <1>2, <2>1, <2>2
    <2> QED
      BY <1>2, <1>5, <2>1, <2>2, <2>3
  <1>6. CASE /\ before.all > before.idle /\ kind = "cpu"
             /\ r.cur = [all |-> before.all + p + i - 1, idle |-> before.idle + i]
             /\ r.read = r.cur /\ r.passed = p /\ r.trouble = {"iowait"}
    <2>1. r.cur \in [all : Nat, idle : Nat] /\ r.cur.idle <= r.cur.all
      BY <1>2, <1>6
    <2>2. Figure(r.read, last) \in Nat
      BY <1>6, <2>1, FigureType
    <2> QED
      BY <1>2, <1>6, <2>1, <2>2
  <1> QED
    BY <1>1, <1>3, <1>4, <1>5, <1>6

LEMMA CollectedStep ==
  ASSUME CountInv, Collected
  PROVE  CountInv'
  <1>1. CASE ServiceAbsent
    <2>1. CounterTypes' /\ hasPrev' = FALSE
      BY <1>1 DEF ServiceAbsent, CountInv, CounterTypes, Zero, Troubles
    <2>2. Owed' = 0 /\ Owed >= 0
      BY <2>1 DEF Owed, CountInv, CounterTypes
    <2>3. troubles' = troubles \cup {"absent"} /\ surplus' = surplus /\ missed' = missed
      BY <1>1 DEF ServiceAbsent
    <2>4. "iowait" \notin troubles' => surplus' + Owed' <= missed'
      <3>1. surplus \in Int /\ missed \in Nat /\ Owed \in Int
        BY DEF CountInv, CounterTypes, Owed
      <3> QED
        BY <2>2, <2>3, <3>1 DEF CountInv
    <2> QED
      BY <2>1, <2>3, <2>4 DEF CountInv
  <1>2. ASSUME NEW r \in Readings(counter), NEW later \in BOOLEAN,
               Computed(r, later), counter' = r.cur, Kept(r.read), kind' = kind
        PROVE  CountInv'
    <2> DEFINE last == IF hasPrev THEN prev ELSE counter
               figure == Figure(r.read, last)
    <2>0. /\ last \in [all : Nat, idle : Nat] /\ last.idle = counter.idle
          /\ last.all <= counter.all
          /\ kind = "cpu" => last = counter
          /\ counter \in [all : Nat, idle : Nat] /\ counter.idle <= counter.all
          /\ Owed = counter.all - last.all
      BY DEF CountInv, CounterTypes, Owed
    <2>1. /\ r.cur \in [all : Nat, idle : Nat] /\ r.cur.idle <= r.cur.all
          /\ r.read \in [all : Nat, idle : Nat] /\ r.read.idle = r.cur.idle
          /\ r.read.all <= r.cur.all
          /\ kind = "cpu" => r.read = r.cur
          /\ r.passed \in Nat /\ r.trouble \in SUBSET {"reset", "iowait", "unread"}
          /\ "unread" \notin r.trouble => r.read = r.cur
          /\ figure \in Nat
          /\ "iowait" \notin r.trouble => figure <= r.passed + Owed
          /\ r.trouble = {} /\ last = counter => figure = r.passed
      <3> HIDE DEF last
      <3>1. /\ r.cur \in [all : Nat, idle : Nat] /\ r.cur.idle <= r.cur.all
            /\ r.read \in [all : Nat, idle : Nat] /\ r.read.idle = r.cur.idle
            /\ r.read.all <= r.cur.all
            /\ kind = "cpu" => r.read = r.cur
            /\ r.passed \in Nat /\ r.trouble \in SUBSET {"reset", "iowait", "unread"}
            /\ "unread" \notin r.trouble => r.read = r.cur
            /\ Figure(r.read, last) \in Nat
            /\ "iowait" \notin r.trouble =>
                 Figure(r.read, last) <= r.passed + (counter.all - last.all)
            /\ r.trouble = {} /\ last = counter => Figure(r.read, last) = r.passed
        <4>1. counter \in [all : Nat, idle : Nat] /\ counter.idle <= counter.all
          BY <2>0
        <4>2. last \in [all : Nat, idle : Nat] /\ last.idle = counter.idle
          BY <2>0
        <4>3. last.all <= counter.all
          BY <2>0
        <4>4. kind = "cpu" => last = counter
          BY <2>0
        <4> QED
          BY <4>1, <4>2, <4>3, <4>4, ReadingsBounded
      <3> QED
        BY <2>0, <3>1
    <2>2. prev' = r.read /\ hasPrev' = TRUE /\ Owed' = r.cur.all - r.read.all
      BY <1>2 DEF Kept, Owed
    <2>3. missed' = missed + Owed' /\ missed' \in Nat
      BY <1>2, <2>1, <2>2 DEF Computed, CountInv, CounterTypes
    <2>4. /\ surplus \in Int /\ Owed \in Nat /\ Owed' \in Nat
          /\ ~hasPrev => Owed = 0
      BY <2>0, <2>1, <2>2 DEF CountInv, CounterTypes, Owed
    <2> HIDE DEF figure
    <2>5. /\ surplus' = surplus + (IF hasPrev /\ later THEN figure ELSE 0)
                                - (IF hasPrev THEN r.passed ELSE 0)
          /\ surplus' \in Int
      BY <1>2, <2>1, <2>4 DEF Computed, figure
    <2>6. troubles' = troubles \cup (r.trouble \cap {"unread"}) \cup
            IF ~hasPrev THEN {} ELSE r.trouble \cup IF later THEN {} ELSE {"clock"}
      BY <1>2 DEF Computed
    <2>7. troubles' \subseteq Troubles
      BY <2>1, <2>6 DEF CountInv, CounterTypes, Troubles
    <2>8. "iowait" \notin troubles' => surplus' + Owed' <= missed'
      <3>1. ASSUME "iowait" \notin troubles' PROVE surplus' <= missed
        <4>1. "iowait" \notin troubles /\ (hasPrev => "iowait" \notin r.trouble)
          BY <2>6, <3>1
        <4>2. surplus + Owed <= missed /\ missed \in Nat
          BY <4>1 DEF CountInv, CounterTypes
        <4>3. hasPrev => figure <= r.passed + Owed
          BY <2>1, <4>1
        <4> QED
          BY <2>1, <2>4, <2>5, <4>2, <4>3
      <3>2. missed \in Nat
        BY DEF CountInv, CounterTypes
      <3> QED
        BY <2>3, <2>4, <2>5, <3>1, <3>2
    <2>9. troubles' = {} => surplus' = 0 /\ Owed' = 0
      <3>1. ASSUME troubles' = {} PROVE surplus' = 0 /\ Owed' = 0
        <4>1. /\ troubles = {} /\ "unread" \notin r.trouble
              /\ hasPrev => r.trouble = {} /\ later
          BY <2>6, <3>1
        <4>2. surplus = 0 /\ Owed = 0 /\ Owed' = 0
          BY <2>1, <2>2, <4>1 DEF CountInv
        <4>3. hasPrev => figure = r.passed
          <5>1. hasPrev => last.all = counter.all /\ last.idle = counter.idle
            BY <2>0, <4>2
          <5>2. hasPrev => last = counter
            BY <2>0, <5>1
          <5> QED
            BY <2>1, <4>1, <5>2
        <4> QED
          BY <2>1, <2>5, <4>1, <4>2, <4>3
      <3> QED
        BY <3>1
    <2>10. CounterTypes'
      BY <1>2, <2>1, <2>2, <2>3, <2>5, <2>7 DEF CounterTypes, CountInv
    <2> QED
      BY <1>2, <2>1, <2>2, <2>8, <2>9, <2>10 DEF CountInv
  <1> QED
    BY <1>1, <1>2 DEF Collected

LEMMA CountStep == CountInv /\ [Next]_vars => CountInv'
  <1> SUFFICES ASSUME CountInv, [Next]_vars PROVE CountInv'
    OBVIOUS
  <1>1. CASE SampleTick
    BY <1>1, CollectedStep DEF SampleTick
  <1>2. CASE ~SampleTick
    BY <1>2 DEF Next, Start, PolicyTick, FlushTick, Cancel, Done, vars, counters,
                CountInv, CounterTypes, Owed
  <1> QED
    BY <1>1, <1>2

LEMMA CountInit == Init => CountInv
  <1> SUFFICES ASSUME Init PROVE CountInv
    OBVIOUS
  <1>1. counter \in [all : Nat, idle : Nat] /\ counter.idle <= counter.all
    BY DEF Init
  <1>2. prev \in [all : Nat, idle : Nat]
    BY DEF Init, Zero
  <1>3. kind \in Kinds /\ surplus = 0 /\ missed = 0 /\ troubles \subseteq Troubles
    BY DEF Init
  <1>4. hasPrev \in BOOLEAN /\ ~hasPrev
    BY DEF Init
  <1>5. Owed = 0
    BY <1>4 DEF Owed
  <1> QED
    BY <1>1, <1>2, <1>3, <1>4, <1>5 DEF CountInv, CounterTypes

\* The records count nothing twice and nothing that did not pass, through failed
\* reports, changes of mode, restarts of services and a clock set back, but for what
\* the readings fell short of the counter (readUintField takes a property that is not
\* set for 0), which the next record claims once more; all this unless iowait fell.
\* Without such troubles they count all that passed (deltaCounterU64 and the samples
\* it compares).
THEOREM MetricsCountedOnce == Spec => []CountedOnce
  <1>1. CountInv => CountedOnce
    <2> SUFFICES ASSUME CountInv PROVE CountedOnce
      OBVIOUS
    <2>1. surplus \in Int /\ missed \in Nat /\ Owed \in Nat
      BY DEF CountInv, CounterTypes, Owed
    <2> QED
      BY <2>1 DEF CountInv, CountedOnce
  <1> QED
    BY <1>1, CountInit, CountStep, PTL DEF Spec

\* The locals of runBasicMetricsLoop have their types; in particular no product of
\* secondsAsDuration leaves the range of a duration.
THEOREM MetricsTypeCorrect == Spec => []TypeOK
  <1> DEFINE Rest == phase \in {"starting", "select", "done", "panicked"} /\ cancelled \in BOOLEAN
  <1>1. Init => PolicyTypes /\ BatchTypes /\ NothingForgotten /\ Rest
    <2> SUFFICES ASSUME Init PROVE PolicyTypes /\ BatchTypes /\ NothingForgotten /\ Rest
      OBVIOUS
    <2>1. ticker \in [sample : Durations, flush : Durations]
      BY ScaleAssumption DEF Init, Durations
    <2>2. BatchTypes /\ NothingForgotten
      BY ScaleAssumption DEF Init, BatchTypes, NothingForgotten
    <2> QED
      BY <2>1, <2>2, PolicyAssumption DEF Init, PolicyTypes
  <1>2. Rest /\ [Next]_vars => Rest'
    BY DEF Next, Start, PolicyTick, SampleTick, FlushTick, Cancel, Done, vars, NewTickers
  <1>3. PolicyTypes /\ BatchTypes /\ CountInv /\ Rest => TypeOK
    BY DEF TypeOK, PolicyTypes, BatchTypes, CountInv, CounterTypes
  <1> QED
    BY <1>1, <1>2, <1>3, CountInit, CountStep, BatchStep, PolicyTypesStep, PTL DEF Spec
=============================================================================
