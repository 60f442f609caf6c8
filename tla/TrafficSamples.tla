--------------------------- MODULE TrafficSamples ---------------------------
(***************************************************************************)
(* The samples of one port traffic policy: what heartbeats bring, what the *)
(* controller adds to its hourly and daily rollups, what it shows of them  *)
(* and the alerts it derives.                                              *)
(*                                                                         *)
(*   controller/guardian/port_traffic.py, main.py; agent/nethelper/main.go *)
(*                                                                         *)
(* Time passes in ticks of EXPECTED_SAMPLE_SECONDS.  The agent stamps what *)
(* it collects with its own clock, which may be set back; a request may be *)
(* lost, or handled after later ones.  Meanwhile the policy is disabled,   *)
(* enabled and reset, by tasks which the host performs later, or never.    *)
(*                                                                         *)
(* RX and TX are one number.  The alerts on shaping, on enforcement and on *)
(* spikes are observed like the one on the rule and left out; what         *)
(* operators do to an alert is in Alerting.                                *)
(***************************************************************************)
EXTENDS Integers, Sequences, FiniteSets, FiniteSetsExt

CONSTANTS
  MaxTicks,     \* bound: ticks
  MaxEvents,    \* bound: tasks, faults and other things out of the ordinary
  Hour, Day,    \* ticks in a bucket
  RawRetention, HourlyRetention,   \* ticks; daily rows outlive the instance
  Threshold,    \* of the quota (70, 85, 95 or 100 per cent), in bytes
  Level,        \* its recovery level, two percentage points below
  None          \* the absence of a value

Gap == 3        \* ticks, missing_is_gap


VARIABLES
  time,        \* the controller's clock
  clock,       \* the agent's clock
  beaten,      \* a heartbeat was collected in this tick
  held,        \* a request not yet handled
  counter,     \* the helper's policy: lifetime, start of the period, generation
  todo,        \* tasks for the host
  results,     \* generations of resets not yet recorded
  enabled,     \* PortTrafficPolicy
  policyGeneration,
  samples,     \* PortTrafficSample
  hourly,      \* the rollups
  daily,
  lastSampleAt,  \* PortTrafficRuntimeState
  alerts,
  unusual,     \* things out of the ordinary that have happened
  passed,      \* history: bytes the helper has counted in all
  first,       \* history: the lifetime of the first sample
  latest,      \* history: the lifetime of the last sample
  noted,       \* history: which of Notes have happened
  heard        \* history: the stamp of the last request, if the policy was enabled

clockVars   == <<time, clock, beaten>>
helperVars  == <<counter, todo, results, passed>>
policyVars  == <<enabled, policyGeneration>>
storeVars   == <<samples, hourly, daily, lastSampleAt, alerts, first, latest>>
sampleVars  == <<clockVars, held, helperVars, policyVars, storeVars, unusual, noted, heard>>

Rules == INSTANCE AlertRules WITH FailureThreshold <- 1, RecoveryThreshold <- 2

Buckets(size) == 0 .. MaxTicks \div size
Counters == [total : Nat, mark : Nat, gen : Nat]
Samples  == [at : Nat, total : Nat, period : Nat, gen : Nat, marked : BOOLEAN]
RollupRow == [bytes : Nat, count : Nat, missing : Nat, breaks : Nat]
Seen     == [total : Nat, period : Nat, gen : Nat, marked : BOOLEAN, active : BOOLEAN]
Requests == [at : Nat, before : BOOLEAN, seen : Seen \cup {None}]
Tasked   == [op : {"apply", "remove", "reset"}, gen : Nat]
Kinds    == {"quota", "runtime", "gap"}

ASSUME SamplesAssumption ==
  /\ {MaxTicks, MaxEvents, Hour, Day, RawRetention, HourlyRetention} \subseteq Nat \ {0}
  /\ Day % Hour = 0
  /\ {Threshold, Level} \subseteq Nat /\ Level <= Threshold
  /\ None \notin Nat \cup Counters \cup Samples \cup RollupRow \cup Seen \cup Requests

\* The helper has dropped the policy and taken it again; a sample was stored when all
\* others had been pruned; or one that was collected before the clock was set back.
Notes == {"restarted", "forgotten", "misled"}

Noted(note, happened) == noted' = noted \cup (IF happened THEN {note} ELSE {})

NewCounter(gen) == [total |-> 0, mark |-> 0, gen |-> gen]
NewRow == [bytes |-> 0, count |-> 0, missing |-> 0, breaks |-> 0]

SamplesTypeOK ==
  /\ {time, clock} \subseteq 0 .. MaxTicks
  /\ {beaten, enabled} \subseteq BOOLEAN
  /\ noted \subseteq Notes
  /\ held \in Requests \cup {None}
  /\ counter \in Counters \cup {None}
  /\ todo \in Seq(Tasked) /\ results \in Seq(Nat)
  /\ policyGeneration \in Nat
  /\ samples \subseteq Samples /\ IsFiniteSet(samples)
  /\ hourly \in [Buckets(Hour) -> RollupRow \cup {None}]
  /\ daily \in [Buckets(Day) -> RollupRow \cup {None}]
  /\ {lastSampleAt, first, latest, heard} \subseteq Nat \cup {None}
  /\ alerts \in [Kinds -> Rules!Alerts]
  /\ unusual \in 0 .. MaxEvents
  /\ passed \in Nat

\* The policy has just been created and applied.
SamplesInit ==
  /\ time = 0 /\ clock = 0 /\ beaten = FALSE
  /\ held = None
  /\ counter = NewCounter(1)
  /\ todo = <<>> /\ results = <<>>
  /\ enabled = TRUE /\ policyGeneration = 1
  /\ samples = {}
  /\ hourly = [b \in Buckets(Hour) |-> None]
  /\ daily = [b \in Buckets(Day) |-> None]
  /\ lastSampleAt = None
  /\ alerts = [k \in Kinds |-> Rules!NewAlert]
  /\ unusual = 0
  /\ passed = 0 /\ first = None /\ latest = None /\ heard = None
  /\ noted = {}

Event == unusual < MaxEvents /\ unusual' = unusual + 1

-----------------------------------------------------------------------------
(* Time, traffic and the host. *)

\* The helper counts a byte, or none.
Count(n) ==
  IF counter = None THEN UNCHANGED <<counter, passed>>
  ELSE counter' = [counter EXCEPT !.total = @ + n] /\ passed' = passed + n

PassTime ==
  /\ time < MaxTicks
  /\ time' = time + 1 /\ clock' = clock + 1 /\ beaten' = FALSE
  /\ \E n \in {0, 1} : Count(n)
  /\ UNCHANGED <<held, todo, results, policyVars, storeVars, unusual, noted, heard>>

\* What is stamped now is not older than what is pruned: raw samples are kept for
\* a week.
Recent(at) == at > time - RawRetention

SetBack ==
  /\ Event
  /\ \E t \in 0 .. clock - 1 : Recent(t) /\ clock' = t
  /\ held' = IF held = None THEN None ELSE [held EXCEPT !.before = TRUE]
  /\ UNCHANGED <<time, beaten, helperVars, policyVars, storeVars, noted, heard>>

\* update_port_traffic_policy
SetEnabled ==
  /\ Event
  /\ enabled' = ~enabled
  /\ todo' = Append(todo, [op |-> IF enabled' THEN "apply" ELSE "remove", gen |-> policyGeneration])
  /\ heard' = None
  /\ UNCHANGED <<clockVars, held, counter, results, passed, policyGeneration, storeVars, noted>>

\* A reset is due or approved (PortTrafficResets).
OrderReset ==
  /\ Event
  /\ todo' = Append(todo, [op |-> "reset", gen |-> policyGeneration])
  /\ UNCHANGED <<clockVars, held, counter, results, passed, policyVars, storeVars, noted, heard>>

\* desiredState
Apply(gen) ==
  /\ counter' = IF counter = None THEN NewCounter(gen) ELSE counter
  /\ Noted("restarted", counter = None)
  /\ UNCHANGED results

Remove == counter' = None /\ UNCHANGED <<results, noted>>

ResetCounter ==
  /\ counter # None
  /\ counter' = [counter EXCEPT !.mark = counter.total, !.gen = @ + 1]
  /\ results' = Append(results, counter'.gen)
  /\ UNCHANGED noted

Perform ==
  /\ todo # <<>> /\ todo' = Tail(todo)
  /\ LET task == Head(todo) IN
     \/ task.op = "apply" /\ Apply(task.gen)
     \/ task.op = "remove" /\ Remove
     \/ task.op = "reset" /\ ResetCounter
  /\ UNCHANGED <<clockVars, held, policyVars, storeVars, unusual, passed, heard>>

\* There is nothing to reset; or the task expires, or the helper takes it back.
PerformNothing ==
  /\ todo # <<>> /\ todo' = Tail(todo)
  /\ \/ Head(todo).op = "reset" /\ counter = None /\ UNCHANGED unusual
     \/ Event
  /\ UNCHANGED <<clockVars, held, counter, results, passed, policyVars, storeVars, noted, heard>>

\* _record_port_traffic_result
RecordReset ==
  /\ results # <<>>
  /\ policyGeneration' = Head(results)
  /\ results' = Tail(results)
  /\ UNCHANGED <<clockVars, held, counter, todo, passed, enabled, storeVars, unusual, noted, heard>>

-----------------------------------------------------------------------------
(* ingest_observations *)

Newest(set) == CHOOSE s \in set : \A other \in set : other.at <= s.at

Previous == IF samples = {} THEN None ELSE Newest(samples)

Continues(p, seen) == p # None /\ p.gen = seen.gen /\ p.total <= seen.total

\* Variant: after a discontinuity the lifetime is what has passed.
DeltaFromZero(p, seen) ==
  IF p = None THEN 0 ELSE seen.total - (IF Continues(p, seen) THEN p.total ELSE 0)
Delta(p, seen) == IF Continues(p, seen) THEN seen.total - p.total ELSE 0

\* A discontinuity, of the helper's or of the controller's finding.
Breaks(p, seen) == seen.marked \/ (p # None /\ ~Continues(p, seen))

Missed(p, at) == IF p = None THEN 0 ELSE Max({0, at - p.at - 1})

Bit(b) == IF b THEN 1 ELSE 0

\* _update_rollup
\* Variant: the sample is added to the bucket of the one before.
BucketBefore(size, q, p) == (IF p = None THEN q.at ELSE p.at) \div size
Bucket(size, q, p) == q.at \div size

Rolled(rows, size, q, p) ==
  LET b   == Bucket(size, q, p)
      row == IF rows[b] = None THEN NewRow ELSE rows[b]
      bad == Breaks(p, q.seen)
  IN [rows EXCEPT ![b] =
       [bytes   |-> row.bytes + Delta(p, q.seen),
        count   |-> row.count + Bit(p # None /\ ~bad),
        missing |-> row.missing + Missed(p, q.at),
        breaks  |-> row.breaks + Bit(bad)]]

Observe(kind, success) == Rules!Observed(alerts[kind], success, FALSE)

Active(kind) == alerts[kind].state \notin {"ok", "resolved", "closed"}

\* _observe_quota_alerts
Below(period) == period < (IF Active("quota") THEN Level ELSE Threshold)

StoreSample(q) ==
  LET p == Previous IN
  /\ samples' = samples \cup {[at |-> q.at, total |-> q.seen.total, gen |-> q.seen.gen,
                               period |-> q.seen.period, marked |-> Breaks(p, q.seen)]}
  /\ hourly' = Rolled(hourly, Hour, q, p)
  /\ daily' = Rolled(daily, Day, q, p)
  /\ lastSampleAt' = q.at
  /\ alerts' = [quota   |-> Observe("quota", Below(q.seen.period)),
                runtime |-> Observe("runtime", q.seen.active),
                gap     |-> Observe("gap", TRUE)]
  /\ first' = IF first = None THEN q.seen.total ELSE first
  /\ latest' = q.seen.total
  /\ \/ q.before /\ Noted("misled", TRUE)
     \/ ~q.before /\ Noted("forgotten", p = None /\ first # None)

\* missing_is_gap
IsGap(at) == lastSampleAt = None \/ at - lastSampleAt > Gap

\* The policy was created at 0.
OldEnough(at) == at > Gap

ReportGap ==
  /\ alerts' = [alerts EXCEPT !.runtime = Observe("runtime", FALSE),
                              !.gap = Observe("gap", FALSE)]
  /\ UNCHANGED <<samples, hourly, daily, lastSampleAt, first, latest, noted>>

\* A sample is stored if it is newer than all others.
\* Variant: samples are stored as they come.
IsNewAlways(at) == \A s \in samples : at # s.at
IsNew(at) == \A s \in samples : at > s.at

\* The last sample once more.
IsRepeated(at) == samples # {} /\ Newest(samples).at = at

Ingest(q) ==
  /\ IF enabled /\ q.seen # None /\ IsNew(q.at) THEN StoreSample(q)
     ELSE IF enabled /\ ~(q.seen # None /\ IsRepeated(q.at)) /\ OldEnough(q.at) /\ IsGap(q.at)
     THEN ReportGap
     ELSE UNCHANGED <<storeVars, noted>>
  /\ heard' = IF enabled THEN q.at ELSE None

-----------------------------------------------------------------------------
(* Heartbeats. *)

\* snapshot, collectSnapshot: the rules are as they should be, were restored, or
\* could not be; or the helper does not answer.
States == {"active", "restored", "missing", "unknown"}

SampleRequest(state) ==
  [at |-> clock, before |-> FALSE,
   seen |-> IF counter = None \/ state = "unknown" THEN None
            ELSE [total |-> counter.total, period |-> counter.total - counter.mark,
                  gen |-> counter.gen, marked |-> state # "active",
                  active |-> state # "missing"]]

Beat == ~beaten /\ beaten' = TRUE

SendSamples ==
  /\ Beat
  /\ \E state \in States :
       /\ IF state = "active" THEN UNCHANGED unusual ELSE Event
       /\ Ingest(SampleRequest(state))
  /\ UNCHANGED <<time, clock, held, helperVars, policyVars>>

\* The agent gives the request up.
Delay ==
  /\ Beat /\ Event
  /\ held = None /\ held' = SampleRequest("active")
  /\ UNCHANGED <<time, clock, helperVars, policyVars, storeVars, noted, heard>>

HandleHeld ==
  /\ held # None /\ Recent(held.at)
  /\ held' = None
  /\ Ingest(held)
  /\ UNCHANGED <<clockVars, helperVars, policyVars, unusual>>

\* prune_port_traffic
Prune ==
  /\ samples' = {s \in samples : s.at >= time - RawRetention}
  /\ hourly' = [b \in Buckets(Hour) |->
                 IF b * Hour < time - HourlyRetention THEN None ELSE hourly[b]]
  /\ UNCHANGED <<clockVars, held, helperVars, policyVars, daily, lastSampleAt, alerts,
                 first, latest, unusual, noted, heard>>

SamplesNext ==
  \/ PassTime \/ SetBack
  \/ SetEnabled \/ OrderReset \/ Perform \/ PerformNothing \/ RecordReset
  \/ SendSamples \/ Delay \/ HandleHeld \/ Prune

SamplesSpec == SamplesInit /\ [][SamplesNext]_sampleVars

-----------------------------------------------------------------------------
(* What is shown: query_history. *)

\* The sum of the numbers in f, each as so many pairs.
Total(f) == Cardinality(UNION {{x} \X (1 .. f[x]) : x \in DOMAIN f})

Older(s) == {o \in samples : o.at < s.at}

\* "raw": what has passed since the sample before; the first one is a baseline.
Point(s) ==
  IF Older(s) = {} THEN 0
  ELSE LET p == Newest(Older(s)) IN
       IF p.gen = s.gen /\ p.total <= s.total THEN s.total - p.total ELSE 0

\* "hour", "day"
Bytes(rows, b) == IF rows[b] = None THEN 0 ELSE rows[b].bytes

RawBytes(b)  == Total([s \in {s \in samples : s.at \div Hour = b} |-> Point(s)])
HourBytes(b) == Bytes(hourly, b)
DayBytes(b)  == Bytes(daily, b)

-----------------------------------------------------------------------------
(* Properties. *)

Uninterrupted ==
  /\ first # None /\ noted = {}
  /\ \A b \in Buckets(Day) : daily[b] # None => daily[b].breaks = 0

\* The rollups never show more than has passed, whatever is late, reset, pruned or
\* removed, but for samples that were collected before the clock was set back and
\* stored after later ones; and they show all that has passed from the first sample
\* to the last, if they show no discontinuity, the helper did not drop the policy in
\* between (its lifetime begins again in the same generation) and there was always a
\* sample to compare with (ingest_observations).
CountedOnce ==
  LET total == Total([b \in Buckets(Day) |-> DayBytes(b)]) IN
  /\ "misled" \notin noted => total <= passed
  /\ Uninterrupted => total = latest - first

\* The resolutions of query_history agree as far as their rows are kept: hours with
\* the samples, days with the hours.  The quota alert agrees with the samples: it
\* fires while the last is at the threshold and not after two below the recovery
\* level, in whatever order requests were handled (_observe_quota_alerts).
ViewsAgree ==
  /\ \A b \in Buckets(Hour) :
       b * Hour >= time - HourlyRetention =>
         /\ RawBytes(b) <= HourBytes(b)
         /\ (\E s \in samples : s.at < b * Hour) => RawBytes(b) = HourBytes(b)
  /\ \A d \in Buckets(Day) :
       d * Day >= time - HourlyRetention =>
         DayBytes(d) = Total([b \in {b \in Buckets(Hour) : (b * Hour) \div Day = d} |-> HourBytes(b)])
  /\ samples # {} =>
       LET s == Newest(samples) IN
       /\ s.period >= Threshold => alerts.quota.state = "firing"
       /\ s.period < Level /\ Older(s) # {} /\ Newest(Older(s)).period < Level =>
            alerts.quota.state \in {"ok", "resolved"}
=============================================================================
