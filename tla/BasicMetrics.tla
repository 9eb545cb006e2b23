----------------------------- MODULE BasicMetrics -----------------------------
(***************************************************************************)
(* runBasicMetricsLoop (src/internal/agent/basic_metrics_loop.go) with     *)
(* GetMetricsPolicy and ReportMetrics (src/internal/adminrpc/rpc.go): the  *)
(* loop samples the node, keeps the records in a batch or streams them,    *)
(* and follows the policy it polls from Admin.                             *)
(*                                                                         *)
(* A record is the number of its sample.  Durations are signed integers of *)
(* a given width in which a second is Second units long, as time.Duration  *)
(* is of 64 bits with 10^9 units.  The loop computes each figure of a record  *)
(* from a counter of its own, and no counter influences another, so a      *)
(* behaviour follows one of them: bytes of the host, bytes of one service  *)
(* or the CPU of the host.  invokeWithRecovery is AdminRPC's subject: a    *)
(* report reaches Admin or not, and returns an error or not.               *)
(***************************************************************************)
EXTENDS Integers, Sequences, SequencesExt

CONSTANTS
  MaxSamples,      \* bound on the samples taken
  MaxStep,         \* bound on what passes between two samples
  MaxCapacity,     \* the records a new batch has room for in the address space
  HalfRange,       \* half of the values of a word, 2^63
  Second,          \* time.Second
  DefaultPolicy,   \* the policy before Admin gave one
  Answers          \* what Admin may answer, intervals in seconds

Interval == {"flush", "batchSample", "streamSample"}
Durations == -HalfRange .. HalfRange - 1
Policies == [stream : BOOLEAN, max : Nat, every : [Interval -> Durations]]

ASSUME ScaleAssumption ==
  /\ MaxSamples \in Nat /\ MaxCapacity \in Nat /\ HalfRange \in Nat \ {0} /\ Second \in Nat \ {0}
  /\ MaxStep \in 0 .. 2 * HalfRange - 1
ASSUME PolicyAssumption ==
  /\ DefaultPolicy \in Policies
  /\ DefaultPolicy.max > 0 /\ \A i \in Interval : DefaultPolicy.every[i] > 0
  /\ \A a \in Answers : a \in [stream : BOOLEAN, max : Int, every : [Interval -> Int]]

VARIABLES
  phase,       \* "starting", "select", "done" or "panicked"
  policy,
  ticker,      \* the periods of sampleTicker and flushTicker
  batch,
  taken,       \* number of the last sample
  streamed,    \* samples handed to a report in stream mode
  received,    \* records that reached Admin
  cancelled,   \* ctx is done
  kind,        \* the counter followed
  counter,     \* its value at the last sample: all of it and the idle part
  prev,        \* the value read and kept from the last sample, ...
  hasPrev,     \* ... if there is one
  surplus,     \* history: what the records say passed, less what did pass
               \* from each sample to the next
  missed,      \* history: what the readings fell short of the counter, in all
  troubles     \* history: what happened to the counter or the clock

counters == <<kind, counter, prev, hasPrev, surplus, missed, troubles>>
vars == <<phase, policy, ticker, batch, taken, streamed, received, cancelled, counters>>

Kinds == {"host", "service", "cpu"}
Troubles == {"reset", "clock", "absent", "iowait", "unread"}
Zero == [all |-> 0, idle |-> 0]

\* Mutant: the product is kept as it is.
WrapNot(n) == n

\* time.Duration(seconds) * time.Second wraps around.
Wrap(n) ==
  LET m == n % (2 * HalfRange)
  IN  IF m \in Durations THEN m ELSE m - 2 * HalfRange

secondsAsDuration(seconds, fallback) ==
  IF seconds <= 0 THEN fallback ELSE Wrap(seconds * Second)

\* GetMetricsPolicy, from Admin's answer.
PolicyOf(answer) ==
  [stream |-> answer.stream,
   max    |-> IF answer.max > 0 THEN answer.max ELSE DefaultPolicy.max,
   every  |-> [i \in Interval |->
                 secondsAsDuration(answer.every[i], DefaultPolicy.every[i])]]

\* refreshPolicy keeps the policy when the call fails, as it must once ctx is done.
Refreshed ==
  {policy} \cup (IF cancelled THEN {} ELSE {PolicyOf(a) : a \in Answers})

SampleInterval(p) == IF p.stream THEN "streamSample" ELSE "batchSample"

\* The periods the tickers are created with at the start of the loop, ...
FirstTickers(p) ==
  [sample |-> p.every[SampleInterval(p)], flush |-> p.every["flush"]]

\* ... and by resetTickers, which falls back to 10 s and 3 min.
OrDefault(d, i) == IF d <= 0 THEN DefaultPolicy.every[i] ELSE d
ResetTickers(p) ==
  [sample |-> OrDefault(p.every[SampleInterval(p)], "batchSample"),
   flush  |-> OrDefault(p.every["flush"], "flush")]

\* time.NewTicker panics on a period that is not positive.
NewTickers(t) ==
  IF t.sample <= 0 \/ t.flush <= 0
  THEN phase' = "panicked" /\ UNCHANGED ticker
  ELSE phase' = "select" /\ ticker' = t

-----------------------------------------------------------------------------
Init ==
  /\ phase = "starting"
  /\ policy = DefaultPolicy
  /\ ticker = [sample |-> 0, flush |-> 0]
  /\ batch = <<>>
  /\ taken = 0
  /\ streamed = {}
  /\ received = {}
  /\ cancelled = FALSE
  /\ kind \in Kinds
  /\ counter = [all |-> 1, idle |-> 0]
  /\ prev = Zero
  /\ hasPrev = FALSE
  /\ surplus = 0 /\ missed = 0
  /\ troubles = {}

\* What the counter may be after `before', and what is read of it: bytes pass or
\* the CPU is busy, the CPU idles, a counter begins again with its service, disk
\* or interface, or iowait, a part of the CPU's total, decreases, as the kernel
\* says it may.  A property of a service that is not set or no number is read as
\* 0; of the host's sums, a line that does not parse is left out.
Readings(before) ==
  LET Steps == {s \in (0 .. MaxStep) \X (0 .. MaxStep) : s[1] + s[2] <= MaxStep}
      Reading(all, idle, passed, trouble) ==
        [cur |-> [all |-> all, idle |-> idle], read |-> [all |-> all, idle |-> idle],
         passed |-> passed, trouble |-> trouble]
      Onwards == {Reading(before.all + s[1] + s[2], before.idle + s[2], s[1], {}) :
                    s \in IF kind = "cpu" THEN Steps ELSE (0 .. MaxStep) \X {0}}
      Again == {Reading(s[2], 0, s[1] + s[2], {"reset"}) : s \in Steps}
      Unread == UNION {{[cur |-> r.cur, read |-> [all |-> seen, idle |-> r.cur.idle],
                         passed |-> r.passed, trouble |-> {"unread"}] :
                          seen \in IF kind = "service" THEN {0} ELSE 0 .. r.cur.all} :
                         r \in Onwards}
      Fallen == {Reading(before.all + s[1] + s[2] - 1, before.idle + s[2], s[1],
                         {"iowait"}) : s \in Steps}
  IN  Onwards \cup IF kind # "cpu" THEN Again \cup Unread
                    ELSE IF before.all > before.idle THEN Fallen ELSE {}

deltaCounterU64(cur, before) == IF cur < before THEN 0 ELSE cur - before

\* The figure of a record.  The difference of the two deltas is a uint64.
Figure(cur, before) ==
  LET total == deltaCounterU64(cur.all, before.all)
      idle  == deltaCounterU64(cur.idle, before.idle)
  IN  IF total = 0 THEN 0 ELSE (total - idle) % (2 * HalfRange)

\* computeBasicMetricRecord, computeServiceMetricRecords: without a sample before
\* it, or with one that is not older, the record says nothing.
Computed(r, later) ==
  /\ surplus' = surplus + (IF hasPrev /\ later THEN Figure(r.read, prev) ELSE 0)
                       - (IF hasPrev THEN r.passed ELSE 0)
  /\ missed' = missed + (r.cur.all - r.read.all)
  /\ troubles' = troubles \cup (r.trouble \cap {"unread"}) \cup
       IF ~hasPrev THEN {} ELSE r.trouble \cup IF later THEN {} ELSE {"clock"}

\* A service that is not active, or that systemctl does not show, has no record
\* and is forgotten.
ServiceAbsent ==
  /\ kind = "service"
  /\ prev' = Zero
  /\ hasPrev' = FALSE
  /\ troubles' = troubles \cup {"absent"}
  /\ UNCHANGED <<kind, counter, surplus, missed>>

\* Mutant: a streamed sample is not kept for the next one.
KeptInBatch(cur) ==
  IF policy.stream THEN UNCHANGED <<prev, hasPrev>>
  ELSE prev' = cur /\ hasPrev' = TRUE
\* prev = raw, next[service] = ...
Kept(cur) == prev' = cur /\ hasPrev' = TRUE

\* Collect, the computation, and what the next sample is compared with.
Collected ==
  \/ \E r \in Readings(counter), later \in BOOLEAN :
       /\ Computed(r, later)
       /\ counter' = r.cur
       /\ Kept(r.read)
       /\ UNCHANGED kind
  \/ ServiceAbsent

\* The first tickers and the first batch: make panics, or ends the process, on a
\* capacity that does not fit.
Start ==
  /\ phase = "starting"
  /\ policy' \in Refreshed
  /\ IF policy'.max > MaxCapacity
     THEN phase' = "panicked" /\ UNCHANGED ticker
     ELSE NewTickers(FirstTickers(policy'))
  /\ UNCHANGED <<batch, taken, streamed, received, cancelled, counters>>

\* Mutant: the sample interval of stream mode is forgotten.
TickersOutdatedBatch(before, after) ==
  \/ before.stream # after.stream
  \/ before.every["flush"] # after.every["flush"]
  \/ before.every["batchSample"] # after.every["batchSample"]

\* Only a change of an interval or of the mode renews the tickers.
TickersOutdated(before, after) ==
  before.stream # after.stream \/ before.every # after.every

PolicyTick ==
  /\ phase = "select"
  /\ policy' \in Refreshed
  /\ IF TickersOutdated(policy, policy')
     THEN NewTickers(ResetTickers(policy'))
     ELSE UNCHANGED <<phase, ticker>>
  /\ UNCHANGED <<batch, taken, streamed, received, cancelled, counters>>

\* ReportMetrics: the records may have reached Admin although an error is
\* returned.  Under a ctx that is done the call is not even sent.
Report(records, ok) ==
  /\ ok => ~cancelled
  /\ \/ ~cancelled /\ received' = received \cup Range(records)
     \/ ~ok /\ UNCHANGED received

\* Mutant: the batch is dropped whether or not the report got through.
FlushBatchDropping(b) ==
  IF b = <<>>
  THEN batch' = b /\ UNCHANGED received
  ELSE \E ok \in BOOLEAN : Report(b, ok) /\ batch' = <<>>

\* flushBatch, on the batch b.
FlushBatch(b) ==
  IF b = <<>>
  THEN batch' = b /\ UNCHANGED received
  ELSE \E ok \in BOOLEAN : Report(b, ok) /\ batch' = IF ok THEN <<>> ELSE b

\* A sample whose node counters cannot be read changes nothing.
SampleTick ==
  /\ phase = "select"
  /\ taken < MaxSamples
  /\ taken' = taken + 1
  /\ Collected
  /\ IF policy.stream
     THEN /\ \E ok \in BOOLEAN : Report(<<taken + 1>>, ok)
          /\ streamed' = streamed \cup {taken + 1}
          /\ UNCHANGED batch
     ELSE /\ LET b == Append(batch, taken + 1)
             IN  IF Len(b) >= policy.max
                 THEN FlushBatch(b)
                 ELSE batch' = b /\ UNCHANGED received
          /\ UNCHANGED streamed
  /\ UNCHANGED <<phase, policy, ticker, cancelled>>

FlushTick ==
  /\ phase = "select"
  /\ ~policy.stream
  /\ batch # <<>>
  /\ FlushBatch(batch)
  /\ UNCHANGED <<phase, policy, ticker, taken, streamed, cancelled, counters>>

\* The agent shuts down.
Cancel ==
  /\ ~cancelled
  /\ cancelled' = TRUE
  /\ UNCHANGED <<phase, policy, ticker, batch, taken, streamed, received, counters>>

\* ctx.Done: a last flush, under that very ctx, and the loop's locals are gone.
\* Other cases that are ready may be selected before it.
Done ==
  /\ phase = "select"
  /\ cancelled
  /\ IF batch = <<>> THEN UNCHANGED received ELSE \E ok \in BOOLEAN : Report(batch, ok)
  /\ batch' = <<>>
  /\ phase' = "done"
  /\ UNCHANGED <<policy, ticker, taken, streamed, cancelled, counters>>

Next == Start \/ PolicyTick \/ SampleTick \/ FlushTick \/ Cancel \/ Done

Spec == Init /\ [][Next]_vars

\* The tickers tick, also through policies that renew them again and again, and
\* Admin does not refuse every batch.
FairSpec ==
  /\ Spec
  /\ WF_vars(Start) /\ WF_vars(Done)
  /\ SF_vars(FlushTick /\ batch' = <<>>)

-----------------------------------------------------------------------------
\* Types of the locals of runBasicMetricsLoop.
TypeOK ==
  /\ phase \in {"starting", "select", "done", "panicked"}
  /\ policy \in Policies
  /\ ticker \in [sample : Durations, flush : Durations]
  /\ batch \in Seq(1 .. taken)
  /\ taken \in 0 .. MaxSamples
  /\ streamed \subseteq 1 .. taken
  /\ received \subseteq 1 .. taken
  /\ cancelled \in BOOLEAN
  /\ kind \in Kinds
  /\ counter \in [all : Nat, idle : Nat] /\ prev \in [all : Nat, idle : Nat]
  /\ hasPrev \in BOOLEAN
  /\ surplus \in Int /\ missed \in Nat
  /\ troubles \subseteq Troubles

\* While the loop runs, a record taken in batch mode stays in the batch until a
\* report of it got through: no failed report and no change of policy drops it.
\* (The end of the loop does: its last flush cannot get through.)
NothingForgotten ==
  phase # "done" => \A n \in 1 .. taken : n \in Range(batch) \cup received \cup streamed

\* While the loop selects, its tickers have the periods of the policy in force, also
\* after the policy switched between batch and stream mode and back.
TickersFollowPolicy == phase = "select" => ticker = ResetTickers(policy)

\* The records count nothing twice and nothing that did not pass, across failed
\* reports, changes of mode, restarts of services and a clock set back, but for what
\* a reading fell short of the counter, which comes once more with the next; all this
\* unless iowait fell.  Without such troubles they count all that passed.
CountedOnce ==
  /\ "iowait" \notin troubles => surplus <= missed
  /\ troubles = {} => surplus = 0

\* With Admin accepting batches again and again, every record of the batch
\* reaches it, unless the loop ends or stays in stream mode.
BatchDelivered ==
  \A n \in 1 .. MaxSamples :
    n \in Range(batch) ~> n \in received \/ cancelled \/ policy.stream
=============================================================================
