------------------------- MODULE PortTraffic_proofs -------------------------
(***************************************************************************)
(* Theorems of PortTrafficResets, for every calendar and every bound, and  *)
(* of TrafficSamples, for all buckets, retentions and thresholds.          *)
(***************************************************************************)
EXTENDS PortTrafficResets, TrafficSamples, FiniteSetTheorems, SequenceTheorems, TLAPS

USE DEF Tasks, Time, NextResetAt, clockVars, helperVars, policyVars, storeVars

(***************************************************************************)
(* Types.                                                                  *)
(***************************************************************************)

\* The promises of the channel, step by step.
LEMMA ChannelIssue ==
  ASSUME Channel!TypeOK, NEW t \in Tasks, Channel!Issue(t)
  PROVE  Channel!TypeOK'
BY DEF Channel!TypeOK, Channel!Issue, Channel!Terminal

LEMMA ChannelPerform ==
  ASSUME Channel!TypeOK, NEW t \in Tasks, Channel!Perform(t)
  PROVE  Channel!TypeOK'
BY DEF Channel!TypeOK, Channel!Perform, Channel!FirstAnswer, Channel!Terminal

LEMMA ChannelDisturb ==
  ASSUME Channel!TypeOK, NEW t \in Tasks, Channel!Disturb({t})
  PROVE  Channel!TypeOK'
BY DEF Channel!TypeOK, Channel!Disturb, Channel!Terminal

LEMMA ChannelConclude ==
  ASSUME Channel!TypeOK, NEW S, NEW W, Channel!Conclude(S, W)
  PROVE  Channel!TypeOK'
BY DEF Channel!TypeOK, Channel!Conclude, Channel!Terminal

LEMMA ChannelUnchanged ==
  ASSUME Channel!TypeOK, UNCHANGED channelVars
  PROVE  Channel!TypeOK'
BY DEF Channel!TypeOK, channelVars

LEMMA InitTypeOK == Init => TypeOK
<1>1. Init => Channel!TypeOK
  BY DEF Init, Channel!Init, Channel!TypeOK
<1> QED BY <1>1, CalendarAssumption DEF Init, TypeOK

LEMMA QueueTypeOK ==
  ASSUME TypeOK, NEW t \in Tasks, NEW at \in 0 .. now, Queue(t, at)
  PROVE  TypeOK'
<1>1. Channel!TypeOK' BY ChannelIssue DEF TypeOK, Queue
<1> QED BY <1>1 DEF TypeOK, Queue, runtimeVars, hostVars

LEMMA HeartbeatTypeOK ==
  ASSUME TypeOK, Heartbeat
  PROVE  TypeOK'
<1>1. /\ Channel!TypeOK'
      /\ nextReset' \in Time
      /\ lastReset' \in 0 .. now
      /\ events' \in Seq([previous : Nat, new : Nat])
      /\ \E g \in Nat : Observed(g)
  <2>1. CASE RecordNothing
    BY <2>1, ChannelUnchanged DEF RecordNothing, TypeOK, channelVars
  <2>2. ASSUME NEW t \in Tasks, RecordSuccess(t)
        PROVE  <1>1!:
    <3>1. Reported(t) \subseteq Nat BY DEF Reported, TypeOK
    <3>2. PICK new \in Nat :
            /\ events' = Append(events, [previous |-> generation, new |-> new])
            /\ Observed(new)
      BY <2>2, <3>1 DEF RecordSuccess
    <3>3. events' \in Seq([previous : Nat, new : Nat])
      BY <3>2 DEF TypeOK
    <3>4. Channel!TypeOK' BY <2>2, ChannelConclude DEF RecordSuccess, TypeOK
    <3>5. nextReset' \in Time
      BY <2>2, CalendarAssumption DEF RecordSuccess, AfterSuccess, TypeOK
    <3>6. lastReset' \in 0 .. now BY <2>2 DEF RecordSuccess, TypeOK
    <3> QED BY <3>2, <3>3, <3>4, <3>5, <3>6
  <2>3. ASSUME NEW t \in Tasks, RecordFailure(t)
        PROVE  <1>1!:
    <3>1. Channel!TypeOK' BY <2>3, ChannelConclude DEF RecordFailure, TypeOK
    <3>2. boundary[t] \in Time BY CalendarAssumption DEF TypeOK
    <3>3. nextReset' \in Time
      BY <2>3, <3>2, CalendarAssumption DEF RecordFailure, AfterFailure, TypeOK
    <3> QED BY <2>3, <3>1, <3>3 DEF RecordFailure, TypeOK
  <2> QED BY <2>1, <2>2, <2>3 DEF Heartbeat
<1>2. generation' \in Nat BY <1>1 DEF Observed, TypeOK
<1>3. delivered' \subseteq Tasks BY DEF Heartbeat, TypeOK
<1> QED BY <1>1, <1>2, <1>3 DEF Heartbeat, TypeOK, hostVars

LEMMA NextTypeOK == TypeOK /\ [Next]_vars => TypeOK'
<1> SUFFICES ASSUME TypeOK, [Next]_vars PROVE TypeOK'
  OBVIOUS
<1>1. CASE Tick
  BY <1>1, ChannelUnchanged, CalendarAssumption DEF Tick, TypeOK, runtimeVars, hostVars
<1>2. ASSUME NEW t \in Scheduled, Dispatch(t) PROVE TypeOK'
  <2>1. nextReset \in 0 .. now BY <1>2 DEF Dispatch, Due, TypeOK
  <2> QED BY <1>2, <2>1, QueueTypeOK DEF Dispatch
<1>3. ASSUME NEW t \in Requested, RequestReset(t) PROVE TypeOK'
  <2>1. 0 \in 0 .. now BY DEF TypeOK
  <2> QED BY <1>3, <2>1, QueueTypeOK DEF RequestReset
<1>4. ASSUME NEW t \in Tasks, Expire(t) PROVE TypeOK'
  BY <1>4, ChannelUnchanged DEF Expire, TypeOK, runtimeVars, hostVars
<1>5. CASE Heartbeat
  BY <1>5, HeartbeatTypeOK
<1>6. ASSUME NEW t \in Tasks, Reset(t) PROVE TypeOK'
  <2>1. Channel!TypeOK' BY <1>6, ChannelPerform DEF Reset, TypeOK
  <2> QED BY <1>6, <2>1 DEF Reset, TypeOK, runtimeVars
<1>7. ASSUME NEW t \in Tasks, ResetFails(t) PROVE TypeOK'
  <2>1. Channel!TypeOK' BY <1>7, ChannelPerform DEF ResetFails, TypeOK
  <2> QED BY <1>7, <2>1 DEF ResetFails, Fault, TypeOK, runtimeVars
<1>8. ASSUME NEW t \in Tasks, Disturb(t) PROVE TypeOK'
  <2>1. Channel!TypeOK' BY <1>8, ChannelDisturb DEF Disturb, TypeOK
  <2> QED BY <1>8, <2>1 DEF Disturb, Fault, TypeOK, runtimeVars
<1>9. CASE UNCHANGED vars
  BY <1>9, ChannelUnchanged DEF vars, TypeOK, runtimeVars, hostVars
<1> QED BY <1>1, <1>2, <1>3, <1>4, <1>5, <1>6, <1>7, <1>8, <1>9 DEF Next

\* All variables keep their types, no reset is queued before its boundary is
\* due and none is recorded for the future: dispatch_due_port_traffic_resets,
\* _record_port_traffic_result.
THEOREM TypeCorrect == Spec => []TypeOK
<1> QED BY InitTypeOK, NextTypeOK, PTL DEF Spec

(***************************************************************************)
(* The schedule.                                                           *)
(*                                                                         *)
(* NothingSkipped and BackOnlyByOverlap say where nextReset stands; a step *)
(* moves it to what Calendar makes of now or of the boundary of a task.    *)
(* So the invariant adds that all boundaries up to that of a task are dealt*)
(* with (Covered), and where the present value came from (Origin).         *)
(***************************************************************************)

Passed(b) == b <= lastReset \/ \E t \in Tasks : boundary[t] = b

\* A task that does not exist has no boundary.
Fresh == \A t \in Tasks : verdict[t] = "none" => boundary[t] = 0

Covered ==
  \A t \in Tasks : \A b \in Boundaries : b <= boundary[t] => Passed(b)

FromFailure(u) ==
  verdict[u] = "failed" /\ boundary[u] # 0 /\ nextReset = Calendar[boundary[u]]

Origin == nextReset = Calendar[lastReset] \/ \E u \in Tasks : FromFailure(u)

Schedule == TypeOK /\ Fresh /\ Covered /\ NothingSkipped /\ Origin

\* No boundary lies between a time and the first boundary after it.
LEMMA FirstAfter ==
  ASSUME NEW t \in Time, NEW b \in Boundaries, Sooner(b, Calendar[t])
  PROVE  b <= t
<1> SUFFICES ASSUME b > t PROVE FALSE
  BY CalendarAssumption DEF Boundaries
<1>1. PICK x \in Time : b = Calendar[x] /\ b # 0 BY DEF Boundaries
<1>2. b > x /\ b \in Time BY <1>1, CalendarAssumption
<1>3. CASE x <= t
  <2>1. Calendar[t] = b BY <1>1, <1>2, <1>3, CalendarAssumption
  <2> QED BY <2>1, <1>2, CalendarAssumption DEF Sooner
<1>4. CASE t <= x
  <2>1. Calendar[t] = 0 \/ x < Calendar[t]
    BY <1>1, <1>2, CalendarAssumption DEF Sooner
  <2>2. Calendar[x] = Calendar[t] BY <2>1, <1>4, CalendarAssumption
  <2> QED BY <2>2, <1>1, <1>2, CalendarAssumption DEF Sooner
<1> QED BY <1>3, <1>4, CalendarAssumption

LEMMA Past ==
  ASSUME TypeOK
  PROVE  now \in Time /\ lastReset \in Time /\ \A t \in Tasks : boundary[t] \in Time
<1>1. 0 .. now \subseteq Time BY CalendarAssumption DEF TypeOK
<1> QED BY <1>1 DEF TypeOK

LEMMA InitSchedule == Init => Schedule
<1> SUFFICES ASSUME Init PROVE Schedule
  OBVIOUS
<1>1. TypeOK BY InitTypeOK
<1>2. Fresh BY DEF Init, Fresh
<1>3. \A b \in Boundaries : b \in Nat /\ b # 0
  BY CalendarAssumption DEF Boundaries
<1>4. Covered BY <1>3 DEF Init, Covered
<1>5. 0 \in Time BY CalendarAssumption
<1>6. NothingSkipped BY <1>3, <1>5, FirstAfter DEF Init, NothingSkipped
<1>7. Origin BY DEF Init, Origin
<1> QED BY <1>1, <1>2, <1>4, <1>6, <1>7 DEF Schedule

\* Steps that leave the schedule, its tasks and their verdicts alone.
LEMMA StillSchedule ==
  ASSUME Schedule, TypeOK', UNCHANGED <<verdict, boundary, nextReset, lastReset>>
  PROVE  Schedule'
BY DEF Schedule, Fresh, Covered, Passed, NothingSkipped, Origin, FromFailure, Boundaries, Sooner

\* A task is created, with the boundary that is due or with none.
LEMMA QueueSchedule ==
  ASSUME Schedule, TypeOK', NEW t \in Tasks, NEW at \in {0, nextReset}, Queue(t, at)
  PROVE  Schedule'
<1>1. /\ verdict[t] = "none" /\ boundary[t] = 0
      /\ verdict' = [verdict EXCEPT ![t] = "open"]
      /\ boundary' = [boundary EXCEPT ![t] = at]
      /\ nextReset' = nextReset /\ lastReset' = lastReset
  BY DEF Queue, Channel!Issue, Schedule, Fresh, runtimeVars
<1>2. \A b \in Boundaries : b \in Nat /\ b # 0
  BY CalendarAssumption DEF Boundaries
<1>3. \A b \in Boundaries : Passed(b) => Passed(b)'
  BY <1>1, <1>2 DEF Passed, Schedule, TypeOK
<1>4. Fresh' BY <1>1 DEF Schedule, TypeOK, Channel!TypeOK, Fresh
<1>5. Covered'
  <2> SUFFICES ASSUME NEW u \in Tasks, NEW b \in Boundaries, b <= boundary'[u]
               PROVE  Passed(b)'
    BY DEF Covered, Boundaries
  <2>1. CASE u # t
    BY <2>1, <1>1, <1>3 DEF Schedule, Covered, TypeOK
  <2>2. CASE u = t
    <3>1. boundary'[t] = at BY <1>1 DEF Schedule, TypeOK
    <3>2. CASE b = at BY <3>1, <3>2 DEF Passed
    <3>3. CASE b # at
      <4>1. Sooner(b, nextReset)
        BY <3>1, <3>3, <2>2, <1>2 DEF Sooner, Schedule, TypeOK
      <4> QED BY <4>1, <1>3 DEF Schedule, NothingSkipped, Passed
    <3> QED BY <3>2, <3>3
  <2> QED BY <2>1, <2>2
<1>6. NothingSkipped'
  BY <1>1, <1>3 DEF Schedule, NothingSkipped, Passed, Boundaries, Sooner
<1>7. Origin'
  BY <1>1 DEF Schedule, Origin, FromFailure, TypeOK, Channel!TypeOK
<1> QED BY <1>4, <1>5, <1>6, <1>7 DEF Schedule

\* A success: the schedule looks past all that is over.
LEMMA SuccessSchedule ==
  ASSUME Schedule, TypeOK', NEW t \in Tasks, RecordSuccess(t),
         UNCHANGED <<boundary, now>>
  PROVE  Schedule'
<1>1. /\ verdict[t] = "open"
      /\ verdict' = [u \in Tasks |-> IF u = t THEN "succeeded" ELSE verdict[u]]
      /\ lastReset' = now /\ nextReset' = Calendar[now]
  BY DEF RecordSuccess, AfterSuccess, Channel!Conclude
<1>2. \A b \in Boundaries : b \in Nat /\ b # 0
  BY CalendarAssumption DEF Boundaries
<1>3. \A b \in Boundaries : Passed(b) => Passed(b)'
  BY <1>1, <1>2, CalendarAssumption DEF Passed, Schedule, TypeOK
<1>4. Fresh' BY <1>1 DEF Schedule, Fresh
<1>5. Covered' BY <1>3 DEF Schedule, Covered, Boundaries
<1>6. NothingSkipped'
  <2> SUFFICES ASSUME NEW b \in Boundaries, Sooner(b, Calendar[now])
               PROVE  b <= now
    BY <1>1 DEF NothingSkipped, Boundaries, Sooner
  <2> QED BY FirstAfter DEF Schedule, TypeOK
<1>7. Origin' BY <1>1 DEF Origin
<1> QED BY <1>4, <1>5, <1>6, <1>7 DEF Schedule

\* A failure: the schedule looks past the boundary of the task.
LEMMA FailureSchedule ==
  ASSUME Schedule, TypeOK', NEW t \in Tasks, RecordFailure(t),
         UNCHANGED <<boundary, now>>
  PROVE  Schedule'
<1>1. /\ verdict[t] = "open"
      /\ verdict' = [u \in Tasks |-> IF u = t THEN "failed" ELSE verdict[u]]
      /\ lastReset' = lastReset
      /\ nextReset' = IF boundary[t] = 0 THEN nextReset ELSE Calendar[boundary[t]]
  BY DEF RecordFailure, AfterFailure, Channel!Conclude
<1>2. \A b : Passed(b)' <=> Passed(b)
  BY <1>1 DEF Passed
<1>4. Fresh' BY <1>1 DEF Schedule, Fresh
<1>5. Covered' BY <1>2 DEF Schedule, Covered, Boundaries
<1>6. NothingSkipped'
  <2> SUFFICES ASSUME NEW b \in Boundaries, Sooner(b, nextReset')
               PROVE  Passed(b)
    BY <1>2 DEF NothingSkipped, Boundaries, Sooner, Passed
  <2>1. CASE boundary[t] = 0
    BY <2>1, <1>1 DEF Schedule, NothingSkipped, Passed
  <2>2. CASE boundary[t] # 0
    <3>1. boundary[t] \in Time BY Past DEF Schedule
    <3>2. b <= boundary[t] BY <2>2, <3>1, <1>1, FirstAfter
    <3> QED BY <3>2 DEF Schedule, Covered
  <2> QED BY <2>1, <2>2
<1>7. Origin'
  <2>1. CASE boundary[t] = 0
    BY <2>1, <1>1 DEF Schedule, Origin, FromFailure
  <2>2. CASE boundary[t] # 0
    <3>1. FromFailure(t)' BY <2>2, <1>1 DEF FromFailure
    <3> QED BY <3>1 DEF Origin
  <2> QED BY <2>1, <2>2
<1> QED BY <1>4, <1>5, <1>6, <1>7 DEF Schedule

LEMMA NextSchedule == Schedule /\ [Next]_vars => Schedule'
<1> SUFFICES ASSUME Schedule, [Next]_vars PROVE Schedule'
  OBVIOUS
<1> TypeOK' BY NextTypeOK DEF Schedule
<1>1. ASSUME NEW t \in Scheduled, Dispatch(t) PROVE Schedule'
  BY <1>1, QueueSchedule DEF Dispatch
<1>2. ASSUME NEW t \in Requested, RequestReset(t) PROVE Schedule'
  BY <1>2, QueueSchedule DEF RequestReset
<1>3. CASE Heartbeat
  <2>1. UNCHANGED <<boundary, now>> BY <1>3 DEF Heartbeat
  <2>2. CASE RecordNothing
    BY <2>1, <2>2, StillSchedule DEF RecordNothing, channelVars
  <2> QED BY <1>3, <2>1, <2>2, SuccessSchedule, FailureSchedule DEF Heartbeat
<1>4. CASE \/ Tick \/ UNCHANGED vars
           \/ \E t \in Tasks : Expire(t) \/ Reset(t) \/ ResetFails(t) \/ Disturb(t)
  <2>1. UNCHANGED <<verdict, boundary, nextReset, lastReset>>
    BY <1>4 DEF Tick, Expire, Reset, ResetFails, Disturb, Channel!Perform,
                Channel!Disturb, vars, channelVars, runtimeVars
  <2> QED BY <2>1, StillSchedule
<1> QED BY <1>1, <1>2, <1>3, <1>4 DEF Next

\* By the time the schedule looks past a boundary a reset was queued for it or
\* one has been recorded since: dispatch_due_port_traffic_resets queues it,
\* _record_port_traffic_result moves next_reset_at.
THEOREM NeverSkipped == Spec => []NothingSkipped
<1>1. Schedule => NothingSkipped BY DEF Schedule
<1> QED BY InitSchedule, NextSchedule, <1>1, PTL DEF Spec

\* What BackOnlyByOverlap asks of a step that moves the schedule back.
Overlap ==
  \E t \in Tasks :
    /\ verdict[t] = "open" /\ verdict'[t] = "failed"
    /\ \/ nextReset' <= lastReset
       \/ \E u \in Tasks : verdict[u] = "failed" /\ boundary[u] > boundary[t]

LEMMA BackStep ==
  ASSUME Schedule, [Next]_vars, Sooner(nextReset', nextReset)
  PROVE  Overlap
<1>1. nextReset' # nextReset BY DEF Sooner, Schedule, TypeOK
<1>2. \E t \in Tasks : RecordSuccess(t) \/ RecordFailure(t)
  BY <1>1 DEF Next, vars, Tick, Dispatch, RequestReset, Queue, Expire, Heartbeat,
              RecordNothing, Reset, ResetFails, Disturb, runtimeVars
<1>3. ASSUME NEW x \in Time, Sooner(Calendar[x], nextReset)
      PROVE  \/ Calendar[x] <= lastReset
             \/ \E u \in Tasks : /\ verdict[u] = "failed"
                                 /\ Calendar[x] <= boundary[u]
  <2>1. Calendar[x] \in Boundaries BY <1>3 DEF Sooner, Boundaries
  <2>2. lastReset \in Time /\ \A u \in Tasks : boundary[u] \in Time
    BY Past DEF Schedule
  <2> QED BY <1>3, <2>1, <2>2, FirstAfter DEF Schedule, Origin, FromFailure
<1>4. ASSUME NEW t \in Tasks, RecordSuccess(t) PROVE FALSE
  <2>1. nextReset' = Calendar[now] BY <1>4 DEF RecordSuccess, AfterSuccess
  <2>2. now \in Time /\ lastReset \in 0 .. now /\ \A u \in Tasks : boundary[u] \in 0 .. now
    BY DEF Schedule, TypeOK
  <2>3. now < Calendar[now] BY <2>1, <2>2, CalendarAssumption DEF Sooner
  <2>4. Calendar[now] \in Time BY <2>2, CalendarAssumption
  <2> QED BY <1>3, <2>1, <2>2, <2>3, <2>4, CalendarAssumption
<1>5. ASSUME NEW t \in Tasks, RecordFailure(t) PROVE Overlap
  <2>1. verdict[t] = "open" /\ verdict'[t] = "failed"
    BY <1>5 DEF RecordFailure, Channel!Conclude
  <2>2. nextReset' = Calendar[boundary[t]]
    BY <1>1, <1>5 DEF RecordFailure, AfterFailure
  <2>3. boundary[t] \in Time /\ boundary[t] < Calendar[boundary[t]]
    BY <2>2, Past, CalendarAssumption DEF Sooner, Schedule
  <2>4. \A u \in Tasks : Calendar[boundary[t]] <= boundary[u] => boundary[u] > boundary[t]
    <3>1. Calendar[boundary[t]] \in Nat BY <2>3, CalendarAssumption
    <3>2. \A u \in Tasks : boundary[u] \in Nat
      BY Past, CalendarAssumption DEF Schedule
    <3> QED BY <2>3, <3>1, <3>2
  <2> QED BY <2>1, <2>2, <2>3, <2>4, <1>3 DEF Overlap
<1> QED BY <1>2, <1>4, <1>5

\* next_reset_at goes back only when a failure is recorded, and only to a
\* boundary a recorded reset has made superfluous or behind the failure of a
\* later one: _record_port_traffic_result.
THEOREM BackwardsByFailure == Spec => BackOnlyByOverlap
<1>1. Schedule /\ [Next]_vars => BackOnlyByOverlap!1
  BY BackStep DEF Overlap
<1> QED BY InitSchedule, NextSchedule, <1>1, PTL DEF Spec, BackOnlyByOverlap
(***************************************************************************)
(* The history.                                                            *)
(*                                                                         *)
(* HistoryComplete compares the controller with the host once all answers  *)
(* are in.  On the way there the events lag behind the resets, so the      *)
(* invariant says by how much: the generations of the host are those it    *)
(* granted to tasks, one each, and those recorded are a beginning of them. *)
(***************************************************************************)

Untouched == disturbed = {} /\ unheard = {}

\* A task has a generation of its own if the host reset the counters for it.
Answers ==
  \A t \in Tasks :
    /\ outcome[t] # "none" => t \in performed
    /\ outcome[t] = "ok" <=> granted[t] # 0
    /\ granted[t] # 0 => /\ verdict[t] \in {"open", "succeeded"}
                         /\ granted[t] \in 2 .. hostGeneration

OneEach == \A t, u \in Tasks : granted[t] = granted[u] /\ granted[t] # 0 => t = u

NoneMissing == \A g \in 2 .. hostGeneration : \E t \in Tasks : granted[t] = g

\* What is recorded was granted before what is not.
RecordedFirst ==
  /\ Len(events) + 1 <= generation /\ generation <= hostGeneration
  /\ \A i \in DOMAIN events : events[i].new = i + 1
  /\ \A t \in Tasks : verdict[t] = "succeeded" <=> granted[t] # 0 /\ granted[t] <= Len(events) + 1

History == TypeOK /\ (Untouched => Answers /\ OneEach /\ NoneMissing /\ RecordedFirst)

LEMMA InitHistory == Init => History
<1> SUFFICES ASSUME Init PROVE History
  OBVIOUS
<1>1. TypeOK BY InitTypeOK
<1>2. /\ outcome = [t \in Tasks |-> "none"] /\ granted = [t \in Tasks |-> 0]
      /\ verdict = [t \in Tasks |-> "none"]
      /\ hostGeneration = 1 /\ generation = 1 /\ events = <<>>
  BY DEF Init, Channel!Init
<1>3. Answers BY <1>2 DEF Answers
<1>4. OneEach BY <1>2 DEF OneEach
<1>5. NoneMissing BY <1>2 DEF NoneMissing
<1>6. RecordedFirst BY <1>2 DEF RecordedFirst
<1> QED BY <1>1, <1>3, <1>4, <1>5, <1>6 DEF History

\* What was lost stays lost.
LEMMA UntouchedBefore ==
  ASSUME [Next]_vars, Untouched'
  PROVE  Untouched
<1>1. disturbed \subseteq disturbed' /\ unheard \subseteq unheard'
  BY DEF Next, vars, Tick, Dispatch, RequestReset, Queue, Expire, Heartbeat, RecordNothing,
         RecordSuccess, RecordFailure, Reset, ResetFails, Disturb, Fault, channelVars, hostVars,
         Channel!Issue, Channel!Perform, Channel!Disturb, Channel!Conclude
<1> QED BY <1>1 DEF Untouched

\* Steps that create a task, or change nothing here.
LEMMA QueueHistory ==
  ASSUME History, Untouched, TypeOK', NEW t \in Tasks, Channel!Issue(t),
         UNCHANGED <<runtimeVars, hostVars>>
  PROVE  (Answers /\ OneEach /\ NoneMissing /\ RecordedFirst)'
<1>1. /\ verdict[t] = "none" /\ verdict' = [verdict EXCEPT ![t] = "open"]
      /\ UNCHANGED <<outcome, performed, generation, events, hostGeneration, granted>>
  BY DEF Channel!Issue, runtimeVars, hostVars
<1>2. verdict \in [Tasks -> {"succeeded", "failed", "none", "open", "cancelled"}]
  BY DEF History, TypeOK, Channel!TypeOK, Channel!Terminal
<1>3. \A u \in Tasks : verdict'[u] = IF u = t THEN "open" ELSE verdict[u]
  BY <1>1, <1>2
<1>4. Answers' BY <1>1, <1>3 DEF History, Answers
<1>5. OneEach' BY <1>1 DEF History, OneEach
<1>6. NoneMissing' BY <1>1 DEF History, NoneMissing
<1>7. RecordedFirst' BY <1>1, <1>3 DEF History, RecordedFirst
<1> QED BY <1>4, <1>5, <1>6, <1>7

LEMMA StillHistory ==
  ASSUME History, Untouched,
         UNCHANGED <<verdict, outcome, performed, generation, events, hostGeneration, granted>>
  PROVE  (Answers /\ OneEach /\ NoneMissing /\ RecordedFirst)'
BY DEF History, Answers, OneEach, NoneMissing, RecordedFirst

\* The host gives the task the generation after the last.
LEMMA ResetHistory ==
  ASSUME History, Untouched, NEW t \in Tasks, Reset(t)
  PROVE  (Answers /\ OneEach /\ NoneMissing /\ RecordedFirst)'
<1>1. /\ t \notin performed /\ verdict[t] = "open" /\ outcome[t] = "none"
      /\ performed' = performed \cup {t}
      /\ UNCHANGED <<verdict, generation, events>>
  BY DEF Reset, Current, Channel!Perform, Channel!Workable, History, Answers, Untouched, runtimeVars
<1>2. /\ hostGeneration \in Nat /\ hostGeneration' = hostGeneration + 1
      /\ granted' = [granted EXCEPT ![t] = hostGeneration + 1]
      /\ granted \in [Tasks -> Nat]
  BY DEF Reset, History, TypeOK
<1>3. \A u \in Tasks : granted'[u] = IF u = t THEN hostGeneration + 1 ELSE granted[u]
  BY <1>2
<1>4. \A u \in Tasks : outcome'[u] = IF u = t THEN "ok" ELSE outcome[u]
  BY <1>1 DEF Reset, Channel!Perform, Channel!FirstAnswer, History, TypeOK, Channel!TypeOK
<1>5. generation \in Nat /\ Len(events) \in Nat
      /\ Len(events) + 1 <= generation /\ generation <= hostGeneration
  BY DEF History, TypeOK, RecordedFirst
<1>6. \A u \in Tasks : granted[u] # 0 => granted[u] \in 2 .. hostGeneration
  BY DEF History, Answers
<1>7. Answers'
  <2>1. \A u \in Tasks : outcome'[u] # "none" => u \in performed'
    BY <1>1, <1>4 DEF History, Answers
  <2>2. \A u \in Tasks : granted[u] \in Nat BY <1>2
  <2>3. hostGeneration + 1 # 0 /\ hostGeneration + 1 \in 2 .. hostGeneration'
    BY <1>2, <1>5
  <2>4. \A u \in Tasks : outcome'[u] = "ok" <=> granted'[u] # 0
    BY <1>3, <1>4, <2>3 DEF History, Answers
  <2>5. \A u \in Tasks : granted'[u] # 0 => granted'[u] \in 2 .. hostGeneration'
    BY <1>2, <1>3, <1>6, <2>2, <2>3
  <2>6. \A u \in Tasks : granted'[u] # 0 => verdict'[u] \in {"open", "succeeded"}
    BY <1>1, <1>3 DEF History, Answers
  <2> QED BY <2>1, <2>4, <2>5, <2>6 DEF Answers
<1>8. OneEach'
  BY <1>2, <1>3, <1>6 DEF History, OneEach
<1>9. NoneMissing'
  <2> SUFFICES ASSUME NEW g \in 2 .. hostGeneration' PROVE \E u \in Tasks : granted'[u] = g
    BY DEF NoneMissing
  <2>1. CASE g = hostGeneration + 1 BY <2>1, <1>3
  <2>2. CASE g # hostGeneration + 1
    <3>1. g \in 2 .. hostGeneration BY <2>2, <1>2
    <3>2. PICK u \in Tasks : granted[u] = g BY <3>1 DEF History, NoneMissing
    <3>3. u # t BY <3>1, <3>2, <1>1 DEF History, Answers
    <3> QED BY <3>2, <3>3, <1>3
  <2> QED BY <2>1, <2>2
<1>10. RecordedFirst'
  <2>1. ~(hostGeneration + 1 <= Len(events) + 1) BY <1>2, <1>5
  <2>2. generation <= hostGeneration' BY <1>2, <1>5
  <2>3. \A u \in Tasks : verdict'[u] = "succeeded" <=>
           granted'[u] # 0 /\ granted'[u] <= Len(events) + 1
    BY <1>1, <1>3, <2>1 DEF History, RecordedFirst
  <2> QED BY <1>1, <1>5, <2>2, <2>3 DEF RecordedFirst, History
<1> QED BY <1>7, <1>8, <1>9, <1>10

\* The helper has taken back what it did.
LEMMA ResetFailsHistory ==
  ASSUME History, Untouched, Untouched', NEW t \in Tasks, ResetFails(t)
  PROVE  (Answers /\ OneEach /\ NoneMissing /\ RecordedFirst)'
<1>1. /\ t \notin performed /\ outcome[t] = "none"
      /\ performed' = performed \cup {t}
      /\ UNCHANGED <<verdict, generation, events, granted>>
  BY DEF ResetFails, Current, Channel!Perform, History, Answers, runtimeVars
<1>2. hostGeneration' = hostGeneration
  BY DEF ResetFails, Untouched
<1>3. \A u \in Tasks : outcome'[u] = IF u = t THEN "failed" ELSE outcome[u]
  BY <1>1 DEF ResetFails, Channel!Perform, Channel!FirstAnswer, History, TypeOK, Channel!TypeOK
<1>4. Answers' BY <1>1, <1>2, <1>3 DEF History, Answers
<1>5. (OneEach /\ NoneMissing /\ RecordedFirst)'
  BY <1>1, <1>2 DEF History, OneEach, NoneMissing, RecordedFirst
<1> QED BY <1>4, <1>5

\* An observation moves the generation between what is recorded and the host's.
LEMMA FailureHistory ==
  ASSUME History, Untouched, NEW t \in Tasks, RecordFailure(t), UNCHANGED hostVars
  PROVE  (Answers /\ OneEach /\ NoneMissing /\ RecordedFirst)'
<1>1. /\ verdict[t] = "open" /\ outcome[t] # "ok"
      /\ UNCHANGED <<outcome, performed, events, hostGeneration, granted>>
      /\ generation' \in {generation, hostGeneration}
      /\ \A u \in Tasks : verdict'[u] = IF u = t THEN "failed" ELSE verdict[u]
  BY DEF RecordFailure, Channel!Conclude, Untouched, hostVars, Observed
<1>2. granted[t] = 0 BY <1>1 DEF History, Answers
<1>3. Answers' BY <1>1, <1>2 DEF History, Answers
<1>4. (OneEach /\ NoneMissing)' BY <1>1 DEF History, OneEach, NoneMissing
<1>5. \A u \in Tasks : verdict'[u] = "succeeded" <=> granted'[u] # 0 /\ granted'[u] <= Len(events') + 1
  BY <1>1, <1>2 DEF History, RecordedFirst
<1>6. Len(events') + 1 <= generation' /\ generation' <= hostGeneration'
  BY <1>1 DEF History, RecordedFirst, TypeOK
<1>7. RecordedFirst' BY <1>1, <1>5, <1>6 DEF History, RecordedFirst
<1> QED BY <1>3, <1>4, <1>7

LEMMA NothingHistory ==
  ASSUME History, Untouched, RecordNothing, UNCHANGED hostVars
  PROVE  (Answers /\ OneEach /\ NoneMissing /\ RecordedFirst)'
<1>1. /\ UNCHANGED <<verdict, outcome, performed, events, hostGeneration, granted>>
      /\ generation' \in {generation, hostGeneration}
  BY DEF RecordNothing, channelVars, hostVars, Observed
<1>2. (Answers /\ OneEach /\ NoneMissing)' BY <1>1 DEF History, Answers, OneEach, NoneMissing
<1>3. Len(events') + 1 <= generation' /\ generation' <= hostGeneration'
  BY <1>1 DEF History, RecordedFirst, TypeOK
<1> QED BY <1>1, <1>2, <1>3 DEF History, RecordedFirst

\* What is recorded next is the generation after the last that was recorded.
LEMMA NextGranted ==
  ASSUME History, Untouched, NEW t \in Tasks, RecordSuccess(t)
  PROVE  granted[t] = Len(events) + 2 /\ granted[t] <= hostGeneration
<1>1. verdict[t] = "open" /\ outcome[t] = "ok" /\ First(t)
  BY DEF RecordSuccess, Channel!Conclude, Untouched
<1> DEFINE n == Len(events)
<1>2. n \in Nat /\ hostGeneration \in Nat BY DEF History, TypeOK
<1>3. granted[t] \in 2 .. hostGeneration /\ ~(granted[t] <= n + 1)
  BY <1>1 DEF History, Answers, RecordedFirst
<1> HIDE DEF n
<1>4. n + 2 \in 2 .. hostGeneration /\ n + 2 # 0 /\ ~(n + 2 <= n + 1) BY <1>2, <1>3
<1>5. PICK u \in Tasks : granted[u] = n + 2 BY <1>4 DEF History, NoneMissing
<1>6. verdict[u] # "succeeded" BY <1>4, <1>5 DEF History, RecordedFirst, n
<1>7. verdict[u] = "open" /\ outcome[u] = "ok" BY <1>4, <1>5, <1>6 DEF History, Answers
<1>8. granted[t] <= n + 2 BY <1>1, <1>5, <1>7 DEF First, Untouched
<1>9. granted[t] = n + 2 BY <1>2, <1>3, <1>8
<1> QED BY <1>3, <1>9, <1>2 DEF n

LEMMA SuccessHistory ==
  ASSUME History, Untouched, NEW t \in Tasks, RecordSuccess(t), UNCHANGED hostVars
  PROVE  (Answers /\ OneEach /\ NoneMissing /\ RecordedFirst)'
<1>1. /\ verdict[t] = "open" /\ outcome[t] = "ok"
      /\ UNCHANGED <<outcome, performed, hostGeneration, granted>>
      /\ \A u \in Tasks : verdict'[u] = IF u = t THEN "succeeded" ELSE verdict[u]
  BY DEF RecordSuccess, Channel!Conclude, Untouched, hostVars
<1>2. granted[t] = Len(events) + 2 /\ granted[t] <= hostGeneration BY NextGranted
<1>3. /\ events' = Append(events, [previous |-> generation, new |-> granted[t]])
      /\ generation' \in {granted[t], hostGeneration}
  BY DEF RecordSuccess, Reported, Untouched, Observed
<1>4. /\ events \in Seq([previous : Nat, new : Nat])
      /\ generation \in Nat /\ hostGeneration \in Nat /\ granted[t] \in Nat
  BY DEF History, TypeOK
<1>5. /\ Len(events) \in Nat /\ Len(events') = Len(events) + 1
      /\ \A i \in DOMAIN events' :
           events'[i] = IF i \in DOMAIN events THEN events[i]
                        ELSE [previous |-> generation, new |-> granted[t]]
      /\ \A i \in DOMAIN events' : i \in DOMAIN events \/ i = Len(events) + 1
  BY <1>3, <1>4
<1>6. \A i \in DOMAIN events' : events'[i].new = i + 1
  <2> TAKE i \in DOMAIN events'
  <2>1. CASE i \in DOMAIN events BY <2>1, <1>5 DEF History, RecordedFirst
  <2>2. CASE i \notin DOMAIN events
    <3>1. events'[i].new = granted[t] BY <2>2, <1>5
    <3> QED BY <3>1, <2>2, <1>2, <1>5
  <2> QED BY <2>1, <2>2
<1>7. Answers' BY <1>1 DEF History, Answers
<1>8. (OneEach /\ NoneMissing)' BY <1>1 DEF History, OneEach, NoneMissing
<1>9. \A u \in Tasks : verdict'[u] = "succeeded" <=> granted'[u] # 0 /\ granted'[u] <= Len(events') + 1
  <2> TAKE u \in Tasks
  <2>1. CASE u = t BY <2>1, <1>1, <1>2, <1>5
  <2>2. CASE u # t
    <3>1. granted[u] # granted[t] BY <2>2, <1>2, <1>5 DEF History, OneEach
    <3>2. granted[u] \in Nat BY DEF History, TypeOK
    <3>3. granted[u] <= Len(events') + 1 <=> granted[u] <= Len(events) + 1
      BY <3>1, <3>2, <1>2, <1>5
    <3> QED BY <3>3, <2>2, <1>1 DEF History, RecordedFirst
  <2> QED BY <2>1, <2>2
<1>10. Len(events') + 1 <= generation' /\ generation' <= hostGeneration'
  BY <1>1, <1>2, <1>3, <1>4, <1>5
<1>11. RecordedFirst' BY <1>6, <1>9, <1>10 DEF RecordedFirst
<1> QED BY <1>7, <1>8, <1>11

LEMMA NextHistory == History /\ [Next]_vars => History'
<1> SUFFICES ASSUME History, [Next]_vars, Untouched'
             PROVE  (Answers /\ OneEach /\ NoneMissing /\ RecordedFirst)'
  BY NextTypeOK DEF History
<1> TypeOK' BY NextTypeOK DEF History
<1> Untouched BY UntouchedBefore
<1> DEFINE Kept == (Answers /\ OneEach /\ NoneMissing /\ RecordedFirst)'
<1>1. CASE \/ \E t \in Scheduled : Dispatch(t)
           \/ \E t \in Requested : RequestReset(t)
  BY <1>1, QueueHistory DEF Dispatch, RequestReset, Queue
<1>2. CASE Heartbeat
  <2>1. UNCHANGED hostVars BY <1>2 DEF Heartbeat
  <2> QED BY <1>2, <2>1, NothingHistory, SuccessHistory, FailureHistory DEF Heartbeat
<1>3. ASSUME NEW t \in Tasks, Reset(t) PROVE Kept
  BY <1>3, ResetHistory
<1>4. ASSUME NEW t \in Tasks, ResetFails(t) PROVE Kept
  BY <1>4, ResetFailsHistory
<1>5. CASE Tick \/ UNCHANGED vars \/ \E t \in Tasks : Expire(t) \/ Disturb(t)
  <2>1. UNCHANGED <<verdict, outcome, performed, generation, events, hostGeneration, granted>>
    BY <1>5 DEF Tick, Expire, Disturb, Channel!Disturb, vars, channelVars, runtimeVars, hostVars
  <2> QED BY <2>1, StillHistory
<1> QED BY <1>1, <1>2, <1>3, <1>4, <1>5 DEF Next

LEMMA HistoryCompletes == History => HistoryComplete
<1> SUFFICES ASSUME History, AllRecorded
             PROVE  /\ generation = hostGeneration
                    /\ Len(events) = hostGeneration - 1
                    /\ {events[i].new : i \in DOMAIN events} = 2 .. hostGeneration
  BY DEF HistoryComplete
<1>1. Answers /\ NoneMissing /\ RecordedFirst BY DEF History, AllRecorded, Untouched
<1> DEFINE n == Len(events)
<1>2. /\ n \in Nat /\ generation \in Nat /\ hostGeneration \in Nat
      /\ DOMAIN events = 1 .. n
  BY DEF History, TypeOK
<1>3. n + 1 <= generation /\ generation <= hostGeneration BY <1>1 DEF RecordedFirst
<1>4. \A i \in 1 .. n : events[i].new = i + 1 BY <1>1, <1>2 DEF RecordedFirst
<1>5. ASSUME n + 1 < hostGeneration PROVE FALSE
  <2> HIDE DEF n
  <2>1. n + 2 \in 2 .. hostGeneration /\ n + 2 # 0 /\ ~(n + 2 <= n + 1) BY <1>2, <1>5
  <2>2. PICK u \in Tasks : granted[u] = n + 2 BY <2>1, <1>1 DEF NoneMissing
  <2>3. verdict[u] # "succeeded" BY <2>1, <2>2, <1>1 DEF RecordedFirst, n
  <2>4. verdict[u] = "open" /\ outcome[u] = "ok" BY <2>1, <2>2, <2>3, <1>1 DEF Answers
  <2> QED BY <2>4 DEF AllRecorded
<1> HIDE DEF n
<1>6. n = hostGeneration - 1 /\ generation = hostGeneration BY <1>2, <1>3, <1>5
<1>7. {i + 1 : i \in 1 .. n} = 2 .. hostGeneration
  <2>1. ASSUME NEW g \in 2 .. hostGeneration PROVE g - 1 \in 1 .. n /\ g = (g - 1) + 1
    BY <1>2, <1>6
  <2>2. ASSUME NEW i \in 1 .. n PROVE i + 1 \in 2 .. hostGeneration
    BY <1>2, <1>6
  <2> QED BY <2>1, <2>2
<1>8. {events[i].new : i \in 1 .. n} = {i + 1 : i \in 1 .. n} BY <1>4
<1> QED BY <1>2, <1>6, <1>7, <1>8 DEF n

\* When all answers are in, the controller has an event for every reset of the
\* host, in their order, and its generation, unless an answer was destroyed or
\* never given: _record_port_traffic_result, ingest_observations.
THEOREM NoResetForgotten == Spec => []HistoryComplete
<1> QED BY InitHistory, NextHistory, HistoryCompletes, PTL DEF Spec

-----------------------------------------------------------------------------
(* Samples: the inductive invariant.                                         *)

Shown == Total([b \in Buckets(Day) |-> DayBytes(b)])

\* A sample that all others precede.
IsLast(s) == s \in samples /\ \A o \in samples : o.at <= s.at

\* No stamp twice; the last sample is the one stored last, and every other one
\* has one before it.
Ordered ==
  /\ \A s \in samples : Older(s) # {} => \E p \in Older(s) : \A o \in Older(s) : o.at <= p.at
  /\ \A s, o \in samples : s.at = o.at => s = o
  /\ samples # {} => \E s \in samples : IsLast(s) /\ s.total = latest
  /\ first = None <=> latest = None
  /\ samples # {} => latest # None

\* The clock of the agent is set back by less than samples are kept for, and
\* what a late request brings was collected before it, unless the clock was set
\* back since.
OnTime ==
  /\ clock <= time /\ Recent(clock)
  /\ held # None => held.at \in 0 .. MaxTicks
  /\ held # None /\ ~held.before => held.at <= clock /\ (held.at = clock => beaten)

\* The lifetime in the helper grows no faster than what passes.
Counted ==
  /\ Shown <= passed
  /\ latest # None /\ counter # None => Shown + counter.total <= passed + latest
  /\ held # None /\ ~held.before /\ held.seen # None /\ Recent(held.at) /\ IsNew(held.at) =>
       /\ samples # {} => Shown + held.seen.total <= passed + latest
       /\ counter # None => Shown + counter.total <= passed + held.seen.total

Whole ==
  /\ first = None => Shown = 0
  /\ Uninterrupted => Shown + first = latest

InHour(b) == {s \in samples : s.at \div Hour = b}
HoursOf(d) == {b \in Buckets(Hour) : (b * Hour) \div Day = d}

\* An hour in which something was counted has a sample after its beginning,
\* unless that was pruned.
Rooted ==
  \A b \in Buckets(Hour) :
    HourBytes(b) > 0 => b * Hour < time - RawRetention \/ \E s \in samples : b * Hour <= s.at

Hours ==
  \A b \in Buckets(Hour) :
    b * Hour >= time - HourlyRetention =>
      /\ RawBytes(b) <= HourBytes(b)
      /\ (\E s \in samples : s.at < b * Hour) => RawBytes(b) = HourBytes(b)

Days ==
  \A d \in Buckets(Day) :
    d * Day >= time - HourlyRetention =>
      DayBytes(d) = Total([b \in HoursOf(d) |-> HourBytes(b)])

\* What the last sample made of the alert.
Quota ==
  /\ alerts.quota.state \in {"ok", "firing", "resolved"}
  /\ \A s \in samples : IsLast(s) =>
       /\ s.period >= Threshold => alerts.quota.state = "firing"
       /\ s.period < Level => alerts.quota.state # "firing" \/ alerts.quota.succs >= 1
       /\ \A p \in samples :
            /\ p.at < s.at /\ \A o \in samples : o.at < s.at => o.at <= p.at
            /\ s.period < Level /\ p.period < Level
            => alerts.quota.state # "firing"

Marked == counter # None => counter.mark <= counter.total

SamplesInv ==
  /\ SamplesTypeOK /\ Marked /\ Ordered /\ OnTime
  /\ "misled" \notin noted => Counted
  /\ Whole
  /\ Rooted /\ Hours /\ Days /\ Quota

-----------------------------------------------------------------------------
(* Sums.                                                                     *)

Pairs(f) == UNION {{x} \X (1 .. f[x]) : x \in DOMAIN f}

LEMMA PairOf ==
  ASSUME NEW f, NEW p
  PROVE  p \in Pairs(f) <=> \E x \in DOMAIN f : \E k \in 1 .. f[x] : p = <<x, k>>
BY DEF Pairs

Column(x, a, b) == {x} \X (a .. b)

LEMMA ColumnSize ==
  ASSUME NEW x, NEW a \in Nat, NEW b \in Nat, NEW n \in Nat, b + 1 = a + n
  PROVE  IsFiniteSet(Column(x, a, b)) /\ Cardinality(Column(x, a, b)) = n
<1>1. IsFiniteSet({x}) /\ Cardinality({x}) = 1
  BY FS_Singleton
<1>2. IsFiniteSet(a .. b) /\ Cardinality(a .. b) = n
  <2>1. (IF a > b THEN 0 ELSE b - a + 1) = n
    OBVIOUS
  <2> QED BY <2>1, FS_Interval
<1>3. /\ IsFiniteSet({x} \X (a .. b))
      /\ Cardinality({x} \X (a .. b)) = Cardinality({x}) * Cardinality(a .. b)
  BY <1>1, <1>2, FS_Product
<1> QED BY <1>1, <1>2, <1>3 DEF Column

LEMMA TotalType ==
  ASSUME NEW S, IsFiniteSet(S), NEW f \in [S -> Nat]
  PROVE  IsFiniteSet(Pairs(f)) /\ Total(f) = Cardinality(Pairs(f)) /\ Total(f) \in Nat
<1> DEFINE columns == {{y} \X (1 .. f[y]) : y \in S}
           g == [y \in S |-> {y} \X (1 .. f[y])]
<1>1. g \in Surjection(S, columns)
  BY DEF Surjection
<1>2. IsFiniteSet(columns)
  BY <1>1, FS_Surjection
<1>3. \A T \in columns : IsFiniteSet(T)
  <2> SUFFICES ASSUME NEW x \in S PROVE IsFiniteSet({x} \X (1 .. f[x]))
    OBVIOUS
  <2>1. f[x] \in Nat /\ f[x] + 1 = 1 + f[x]
    OBVIOUS
  <2>2. IsFiniteSet(Column(x, 1, f[x])) /\ Cardinality(Column(x, 1, f[x])) = f[x]
    BY <2>1, ColumnSize
  <2> QED BY <2>2 DEF Column
<1>4. IsFiniteSet(UNION columns)
  BY <1>2, <1>3, FS_UNION
<1>5. IsFiniteSet(Pairs(f))
  BY <1>4 DEF Pairs
<1> QED BY <1>5, FS_CardinalityType DEF Total, Pairs

\* A part has at most the sum of the whole.
LEMMA TotalLess ==
  ASSUME NEW S, IsFiniteSet(S), NEW f \in [S -> Nat],
         NEW T \in SUBSET S, NEW g \in [T -> Nat], \A x \in T : g[x] <= f[x]
  PROVE  Total(g) <= Total(f)
<1>1. Pairs(g) \subseteq Pairs(f)
  <2> SUFFICES ASSUME NEW p \in Pairs(g) PROVE p \in Pairs(f)
    OBVIOUS
  <2>0. PICK x \in T : \E k \in 1 .. g[x] : p = <<x, k>>
    BY PairOf
  <2>1. PICK k \in 1 .. g[x] : p = <<x, k>>
    BY <2>0
  <2>2. k \in 1 .. f[x]
    BY <2>1
  <2> QED BY <2>1, <2>2, PairOf
<1>2. IsFiniteSet(T)
  BY FS_Subset
<1> QED BY <1>1, <1>2, TotalType, FS_Subset

\* One number grows, the others stay; it may be new.
LEMMA TotalGrows ==
  ASSUME NEW S, IsFiniteSet(S), NEW f \in [S -> Nat],
         NEW x, NEW n \in Nat, NEW g \in [S \cup {x} -> Nat],
         \A y \in S \ {x} : g[y] = f[y],
         g[x] = (IF x \in S THEN f[x] ELSE 0) + n
  PROVE  Total(g) = Total(f) + n
<1> DEFINE m == IF x \in S THEN f[x] ELSE 0
           more == {x} \X (m + 1 .. m + n)
<1>1. m \in Nat /\ g[x] = m + n
  OBVIOUS
<1>2. Pairs(g) = Pairs(f) \cup more
  <2>1. ASSUME NEW p \in Pairs(g) PROVE p \in Pairs(f) \cup more
    <3>0. PICK y \in S \cup {x} : \E k \in 1 .. g[y] : p = <<y, k>>
      BY PairOf
    <3>1. PICK k \in 1 .. g[y] : p = <<y, k>>
      BY <3>0
    <3>2. CASE y # x
      BY <3>1, <3>2, PairOf
    <3>3. CASE y = x /\ k > m
      <4>1. k \in m + 1 .. m + n
        BY <1>1, <3>1, <3>3
      <4> QED BY <3>1, <3>3, <4>1
    <3>4. CASE y = x /\ k <= m
      <4>1. x \in S /\ k \in 1 .. f[x]
        BY <1>1, <3>1, <3>4
      <4> QED BY <3>1, <3>4, <4>1, PairOf
    <3>5. k > m \/ k <= m
      BY <1>1, <3>1
    <3> QED BY <3>2, <3>3, <3>4, <3>5
  <2>2. ASSUME NEW p \in Pairs(f) PROVE p \in Pairs(g)
    <3>0. PICK y \in S : \E k \in 1 .. f[y] : p = <<y, k>>
      BY PairOf
    <3>1. PICK k \in 1 .. f[y] : p = <<y, k>>
      BY <3>0
    <3>2. k \in 1 .. g[y]
      BY <3>1
    <3> QED BY <3>1, <3>2, PairOf
  <2>3. ASSUME NEW p \in more PROVE p \in Pairs(g)
    <3>1. PICK k \in m + 1 .. m + n : p = <<x, k>>
      OBVIOUS
    <3>2. k \in 1 .. g[x]
      BY <1>1, <3>1
    <3> QED BY <3>1, <3>2, PairOf
  <2> QED BY <2>1, <2>2, <2>3
<1>3. Pairs(f) \cap more = {}
  <2> SUFFICES ASSUME NEW p \in Pairs(f), p \in more PROVE FALSE
    OBVIOUS
  <2>0. PICK y \in S : \E k \in 1 .. f[y] : p = <<y, k>>
    BY PairOf
  <2>1. PICK k \in 1 .. f[y] : p = <<y, k>>
    BY <2>0
  <2>2. PICK l \in m + 1 .. m + n : p = <<x, l>>
    OBVIOUS
  <2>3. y = x /\ k = l
    BY <2>1, <2>2
  <2>4. k <= m /\ l > m
    BY <1>1, <2>1, <2>2, <2>3
  <2> QED BY <2>3, <2>4, <1>1
<1>4. IsFiniteSet(more) /\ Cardinality(more) = n
  <2>1. m + 1 \in Nat /\ m + n \in Nat /\ m + n + 1 = m + 1 + n
    BY <1>1
  <2> HIDE DEF m
  <2>2. /\ IsFiniteSet(Column(x, m + 1, m + n))
        /\ Cardinality(Column(x, m + 1, m + n)) = n
    BY <2>1, ColumnSize
  <2> QED BY <2>2 DEF Column
<1>5. IsFiniteSet(S \cup {x})
  BY FS_AddElement
<1>6. Total(g) = Cardinality(Pairs(f) \cup more)
  BY <1>2, <1>5, TotalType
<1>7. /\ IsFiniteSet(Pairs(f)) /\ Total(f) = Cardinality(Pairs(f)) /\ Total(f) \in Nat
  BY TotalType
<1>8. Cardinality(Pairs(f) \cup more) = Total(f) + n
  <2> HIDE DEF more
  <2>1. Cardinality(Pairs(f) \cup more)
          = Cardinality(Pairs(f)) + Cardinality(more) - Cardinality(Pairs(f) \cap more)
    BY <1>4, <1>7, FS_Union
  <2>2. Cardinality(Pairs(f) \cap more) = 0
    BY <1>3, FS_EmptySet
  <2> QED BY <1>4, <1>7, <2>1, <2>2
<1> QED BY <1>6, <1>8

LEMMA TotalNone ==
  ASSUME NEW S, NEW f \in [S -> Nat], \A x \in S : f[x] = 0
  PROVE  Total(f) = 0
<1>1. \A x \in S : {x} \X (1 .. f[x]) = {}
  OBVIOUS
<1>2. UNION {{x} \X (1 .. f[x]) : x \in DOMAIN f} = {}
  BY <1>1
<1> QED BY <1>2, FS_EmptySet DEF Total
-----------------------------------------------------------------------------
(* Buckets.                                                                  *)

LEMMA Division ==
  ASSUME NEW a \in Nat, NEW d \in Nat \ {0}
  PROVE  /\ a \div d \in Nat
         /\ (a \div d) * d <= a /\ a < (a \div d) * d + d
OBVIOUS

\* Where products are concerned the provers need to be led.
LEMMA Product ==
  ASSUME NEW p \in Nat, NEW q \in Nat, NEW d \in Nat \ {0}
  PROVE  /\ p * d \in Nat /\ q * d \in Nat
         /\ p <= q => p * d <= q * d
         /\ p < q => p * d + d <= q * d
         /\ p * d < q * d + d => p <= q
OBVIOUS

LEMMA Quotient ==
  ASSUME NEW a \in Nat, NEW d \in Nat \ {0}, NEW q \in Nat, q * d <= a, a < q * d + d
  PROVE  a \div d = q
<1> DEFINE e == a \div d
<1>1. e \in Nat /\ e * d <= a /\ a < e * d + d
  BY Division
<1> HIDE DEF e
<1>2. e * d < q * d + d /\ q * d < e * d + d
  BY <1>1, Product
<1>3. e <= q /\ q <= e
  BY <1>1, <1>2, Product
<1> QED BY <1>1, <1>3 DEF e

LEMMA Monotone ==
  ASSUME NEW a \in Nat, NEW b \in Nat, NEW d \in Nat \ {0}, a <= b
  PROVE  a \div d <= b \div d
<1> DEFINE e == a \div d
           f == b \div d
<1>1. e \in Nat /\ f \in Nat /\ e * d <= a /\ b < f * d + d
  BY Division
<1> HIDE DEF e, f
<1>2. e * d < f * d + d
  BY <1>1, Product
<1>3. e <= f
  BY <1>1, <1>2, Product
<1> QED BY <1>3 DEF e, f

LEMMA SampleConstants ==
  /\ MaxTicks \in Nat /\ MaxEvents \in Nat /\ RawRetention \in Nat /\ HourlyRetention \in Nat
  /\ RawRetention > 0
  /\ Hour \in Nat \ {0} /\ Day \in Nat \ {0}
  /\ Threshold \in Nat /\ Level \in Nat /\ Level <= Threshold
BY SamplesAssumption

LEMMA BucketOf ==
  ASSUME NEW at \in 0 .. MaxTicks, NEW size \in Nat \ {0}
  PROVE  at \div size \in Buckets(size)
BY Monotone, Division, SampleConstants DEF Buckets

\* The day of an hour is the day of all its samples.
LEMMA HourInDay ==
  ASSUME NEW a \in Nat
  PROVE  (a \div Hour) * Hour \in Nat /\ ((a \div Hour) * Hour) \div Day = a \div Day
<1>1. PICK k \in Nat : Day = k * Hour
  <2>1. Day = (Day \div Hour) * Hour + (Day % Hour)
    BY SampleConstants
  <2>2. Day \div Hour \in Nat
    BY SampleConstants, Division
  <2> QED BY <2>1, <2>2, SamplesAssumption
<1> DEFINE h == a \div Hour
           e == a \div Day
<1>2. /\ h \in Nat /\ h * Hour <= a /\ a < h * Hour + Hour
      /\ e \in Nat /\ e * Day <= a /\ a < e * Day + Day
  BY Division, SampleConstants
<1>3. h * Hour \in Nat
  BY <1>2, SampleConstants, Product
<1> HIDE DEF h, e
<1>4. e * Day = (e * k) * Hour /\ e * k \in Nat
  BY <1>1, <1>2, SampleConstants
<1>5. (e * k) * Hour < h * Hour + Hour
  BY <1>2, <1>3, <1>4, SampleConstants
<1>6. e * k <= h
  BY <1>2, <1>4, <1>5, SampleConstants, Product
<1>7. (e * k) * Hour <= h * Hour
  BY <1>2, <1>4, <1>6, SampleConstants, Product
<1>8. e * Day <= h * Hour /\ h * Hour < e * Day + Day
  BY <1>2, <1>3, <1>4, <1>7, SampleConstants
<1>9. (h * Hour) \div Day = e
  BY <1>2, <1>3, <1>8, SampleConstants, Quotient
<1> QED BY <1>3, <1>9 DEF h, e
-----------------------------------------------------------------------------
(* Types.                                                                    *)

LEMMA SampleTypes ==
  ASSUME SamplesTypeOK
  PROVE  /\ time \in 0 .. MaxTicks /\ clock \in 0 .. MaxTicks /\ time \in Nat /\ clock \in Nat
         /\ beaten \in BOOLEAN /\ enabled \in BOOLEAN /\ noted \subseteq Notes
         /\ held # None => held \in Requests /\ held.at \in Nat /\ held.before \in BOOLEAN
         /\ counter # None => counter \in Counters /\ counter.total \in Nat /\ counter.mark \in Nat
         /\ first # None => first \in Nat
         /\ latest # None => latest \in Nat
         /\ \A s \in samples : /\ s \in Samples /\ s # None
                               /\ s.at \in Nat /\ s.total \in Nat /\ s.period \in Nat
         /\ IsFiniteSet(samples) /\ passed \in Nat
BY SampleConstants, SamplesAssumption DEF SamplesTypeOK, Requests, Counters, Samples

\* What a heartbeat carries.
LEMMA RequestFacts ==
  ASSUME SamplesInv, NEW state \in States
  PROVE  /\ SampleRequest(state) \in Requests
         /\ SampleRequest(state).at = clock /\ ~SampleRequest(state).before
         /\ SampleRequest(state).seen # None =>
              /\ counter # None /\ SampleRequest(state).seen \in Seen
              /\ SampleRequest(state).seen.total = counter.total
<1>1. /\ clock \in Nat
      /\ counter # None => /\ counter \in Counters /\ counter.total \in Nat
                           /\ counter.total - counter.mark \in Nat /\ counter.gen \in Nat
  BY SampleTypes DEF SamplesInv, Marked, Counters
<1> DEFINE seen == [total |-> counter.total, period |-> counter.total - counter.mark,
                    gen |-> counter.gen, marked |-> state # "active",
                    active |-> state # "missing"]
<1>2. counter # None => seen \in Seen
  BY <1>1 DEF Seen
<1>3. CASE counter = None \/ state = "unknown"
  BY <1>1, <1>3 DEF SampleRequest, Requests
<1>4. CASE ~(counter = None \/ state = "unknown")
  <2>1. SampleRequest(state) = [at |-> clock, before |-> FALSE, seen |-> seen]
    BY <1>4 DEF SampleRequest
  <2> QED BY <1>1, <1>2, <1>4, <2>1 DEF Requests
<1> QED BY <1>3, <1>4

LEMMA MissedType ==
  ASSUME NEW p \in Samples \cup {None}, NEW at \in Nat
  PROVE  Missed(p, at) \in Nat
<1>1. CASE p = None
  BY <1>1 DEF Missed
<1>2. CASE p # None
  <2>1. at - p.at - 1 \in Int
    BY <1>2 DEF Samples
  <2> DEFINE n == at - p.at - 1
             S == {0, n}
  <2>2. \E x \in S : \A y \in S : x >= y
    BY <2>1
  <2>3. Max(S) \in S /\ \A y \in S : Max(S) >= y
    BY <2>2 DEF Max
  <2>4. Max(S) \in Nat
    BY <2>1, <2>3
  <2> QED BY <1>2, <2>4 DEF Missed
<1> QED BY <1>1, <1>2

LEMMA DeltaType ==
  ASSUME NEW p \in Samples \cup {None}, NEW seen \in Seen
  PROVE  /\ Delta(p, seen) \in Nat
         /\ Delta(p, seen) # 0 => /\ p # None /\ p.gen = seen.gen
                                  /\ Delta(p, seen) + p.total = seen.total
         /\ ~Breaks(p, seen) /\ p # None => Delta(p, seen) + p.total = seen.total
         /\ p = None => Delta(p, seen) = 0
         /\ Breaks(p, seen) \in BOOLEAN
BY DEF Delta, Continues, Breaks, Samples, Seen

\* A sample is added to one row.
LEMMA RolledRow ==
  ASSUME NEW size \in Nat \ {0}, NEW rows \in [Buckets(size) -> RollupRow \cup {None}],
         NEW q \in Requests, q.seen \in Seen, q.at \in 0 .. MaxTicks,
         NEW p \in Samples \cup {None},
         NEW b, b = q.at \div size
  PROVE  /\ b \in Buckets(size)
         /\ Rolled(rows, size, q, p) \in [Buckets(size) -> RollupRow \cup {None}]
         /\ Rolled(rows, size, q, p)[b] # None
         /\ Bytes(Rolled(rows, size, q, p), b) = Bytes(rows, b) + Delta(p, q.seen)
         /\ Breaks(p, q.seen) => Rolled(rows, size, q, p)[b].breaks > 0
         /\ rows[b] # None => Rolled(rows, size, q, p)[b].breaks >= rows[b].breaks
         /\ \A c \in Buckets(size) \ {b} : Rolled(rows, size, q, p)[c] = rows[c]
<1>1. b \in Buckets(size)
  BY BucketOf
<1> DEFINE row == IF rows[b] = None THEN NewRow ELSE rows[b]
           bad == Breaks(p, q.seen)
           new == [bytes   |-> row.bytes + Delta(p, q.seen),
                   count   |-> row.count + Bit(p # None /\ ~bad),
                   missing |-> row.missing + Missed(p, q.at),
                   breaks  |-> row.breaks + Bit(bad)]
<1>2. row \in RollupRow
  BY <1>1 DEF NewRow, RollupRow
<1>3. new \in RollupRow /\ new.bytes = row.bytes + Delta(p, q.seen) /\ new.breaks = row.breaks + Bit(bad)
  <2>1. Delta(p, q.seen) \in Nat /\ Missed(p, q.at) \in Nat
    BY DeltaType, MissedType, SampleConstants
  <2>2. Bit(bad) \in Nat /\ Bit(p # None /\ ~bad) \in Nat
    BY DEF Bit
  <2> HIDE DEF row, bad
  <2>3. row.bytes \in Nat /\ row.count \in Nat /\ row.missing \in Nat /\ row.breaks \in Nat
    BY <1>2 DEF RollupRow
  <2> QED BY <2>1, <2>2, <2>3 DEF RollupRow
<1>4. Rolled(rows, size, q, p) = [rows EXCEPT ![b] = new]
  BY DEF Rolled, Bucket
<1>5. None \notin RollupRow
  BY SamplesAssumption
<1>6. Bytes(rows, b) = row.bytes
  BY DEF Bytes, NewRow
<1>7. /\ bad => new.breaks > 0
      /\ rows[b] # None => new.breaks >= rows[b].breaks
  BY <1>2, <1>3 DEF Bit, RollupRow
<1> HIDE DEF new, row, bad
<1>8. /\ [rows EXCEPT ![b] = new] \in [Buckets(size) -> RollupRow \cup {None}]
      /\ [rows EXCEPT ![b] = new][b] = new
      /\ \A c \in Buckets(size) \ {b} : [rows EXCEPT ![b] = new][c] = rows[c]
  BY <1>1, <1>3
<1>9. new # None
  BY <1>3, <1>5
<1>10. Bytes([rows EXCEPT ![b] = new], b) = new.bytes
  BY <1>8, <1>9 DEF Bytes
<1> QED BY <1>1, <1>3, <1>4, <1>6, <1>7, <1>8, <1>9, <1>10 DEF bad
-----------------------------------------------------------------------------
(* What is stored stays.                                                     *)

LEMMA SameViews ==
  ASSUME UNCHANGED <<samples, hourly, daily>>
  PROVE  /\ \A b : RawBytes(b)' = RawBytes(b)
         /\ \A b : HourBytes(b)' = HourBytes(b)
         /\ \A b : DayBytes(b)' = DayBytes(b)
         /\ Shown' = Shown
<1>1. \A s : Point(s)' = Point(s)
  BY DEF Point, Older, Newest
<1>2. ASSUME NEW b PROVE RawBytes(b)' = RawBytes(b)
  <2>1. {s \in samples : s.at \div Hour = b}' = {s \in samples : s.at \div Hour = b}
    OBVIOUS
  <2> QED BY <1>1, <2>1 DEF RawBytes
<1>3. \A b : HourBytes(b)' = HourBytes(b) /\ DayBytes(b)' = DayBytes(b)
  BY DEF HourBytes, DayBytes, Bytes
<1>4. Shown' = Shown
  BY <1>3 DEF Shown
<1> QED BY <1>2, <1>3, <1>4

LEMMA StoreKept ==
  ASSUME SamplesInv, UNCHANGED <<samples, hourly, daily, first, latest>>,
         alerts'.quota = alerts.quota, noted \subseteq noted',
         time' = time \/ time' = time + 1
  PROVE  Ordered' /\ Whole' /\ Rooted' /\ Hours' /\ Days' /\ Quota'
<1>1. time \in Nat /\ time' \in Nat /\ time <= time'
  BY SampleTypes DEF SamplesInv
<1>2. Ordered'
  BY DEF SamplesInv, Ordered, IsLast, Older
<1>3. Whole'
  <2>1. Uninterrupted' => Uninterrupted
    BY DEF Uninterrupted
  <2> QED BY <2>1, SameViews DEF SamplesInv, Whole
<1>4. Rooted'
  <2> SUFFICES ASSUME NEW b \in Buckets(Hour), HourBytes(b) > 0,
                      ~(\E s \in samples : b * Hour <= s.at)
               PROVE  b * Hour < time' - RawRetention
    BY SameViews DEF Rooted, Buckets
  <2>1. b * Hour < time - RawRetention
    BY DEF SamplesInv, Rooted
  <2>2. b * Hour \in Nat
    BY Product, SampleConstants, Division DEF Buckets
  <2> QED BY <1>1, <2>1, <2>2, SampleConstants
<1>5. Hours'
  <2> SUFFICES ASSUME NEW b \in Buckets(Hour), b * Hour >= time' - HourlyRetention
               PROVE  /\ RawBytes(b) <= HourBytes(b)
                      /\ (\E s \in samples : s.at < b * Hour) => RawBytes(b) = HourBytes(b)
    BY SameViews DEF Hours, Buckets
  <2>1. b * Hour \in Nat
    BY Product, SampleConstants, Division DEF Buckets
  <2>2. b * Hour >= time - HourlyRetention
    BY <1>1, <2>1, SampleConstants
  <2> QED BY <2>2 DEF SamplesInv, Hours
<1>6. Days'
  <2> SUFFICES ASSUME NEW d \in Buckets(Day), d * Day >= time' - HourlyRetention
               PROVE  DayBytes(d) = Total([b \in HoursOf(d) |-> HourBytes(b)])
    BY SameViews DEF Days, Buckets, HoursOf
  <2>1. d * Day \in Nat
    BY Product, SampleConstants, Division DEF Buckets
  <2>2. d * Day >= time - HourlyRetention
    BY <1>1, <2>1, SampleConstants
  <2> QED BY <2>2 DEF SamplesInv, Days
<1>7. Quota'
  BY DEF SamplesInv, Quota, IsLast
<1> QED BY <1>2, <1>3, <1>4, <1>5, <1>6, <1>7
-----------------------------------------------------------------------------
(* Time, traffic and the host.                                               *)

LEMMA ShownType == SamplesTypeOK => Shown \in Nat
<1> SUFFICES ASSUME SamplesTypeOK PROVE Shown \in Nat
  OBVIOUS
<1>1. IsFiniteSet(Buckets(Day))
  BY SampleConstants, Division, FS_Interval DEF Buckets
<1>2. [b \in Buckets(Day) |-> DayBytes(b)] \in [Buckets(Day) -> Nat]
  BY DEF DayBytes, Bytes, SamplesTypeOK, RollupRow
<1> QED BY <1>1, <1>2, TotalType DEF Shown

LEMMA CountedKept ==
  ASSUME SamplesInv, SamplesTypeOK', Counted,
         UNCHANGED <<samples, hourly, daily, latest>>,
         time' = time \/ time' = time + 1,
         \/ counter' = None /\ passed <= passed'
         \/ /\ counter # None /\ counter' # None /\ passed <= passed'
            /\ counter'.total + passed = counter.total + passed'
         \/ counter' # None /\ counter'.total = 0 /\ passed' = passed,
         held' = held \/ held' = None \/ held'.before
  PROVE  Counted'
<1>1. SamplesTypeOK /\ Shown \in Nat /\ Shown' = Shown
  BY ShownType, SameViews DEF SamplesInv
<1>2. /\ time \in Nat /\ passed \in Nat /\ passed' \in Nat
      /\ latest # None => latest \in Nat
      /\ counter # None => counter.total \in Nat
      /\ counter' # None => counter'.total \in Nat
  BY <1>1, SampleTypes DEF SamplesTypeOK, Counters
<1>3. held # None /\ held.seen # None => held.seen.total \in Nat /\ held.at \in Nat
  BY <1>1, SampleTypes DEF Requests, Seen
<1>4. Shown' <= passed' /\ (latest' # None /\ counter' # None => Shown' + counter'.total <= passed' + latest')
  BY <1>1, <1>2 DEF Counted
<1>5. ASSUME held' # None, ~held'.before, held'.seen # None, Recent(held.at)', IsNew(held.at)'
      PROVE  /\ samples' # {} => Shown' + held'.seen.total <= passed' + latest'
             /\ counter' # None => Shown' + counter'.total <= passed' + held'.seen.total
  <2>1. held' = held
    BY <1>5
  <2>2. IsNew(held.at)
    BY <1>5, <2>1 DEF IsNew
  <2>3. Recent(held.at)
    BY <1>2, <1>3, <1>5, <2>1, SampleConstants DEF Recent
  <2>4. samples # {} => latest # None
    BY DEF SamplesInv, Ordered
  <2>5. /\ samples # {} => Shown + held.seen.total <= passed + latest
        /\ counter # None => Shown + counter.total <= passed + held.seen.total
    BY <1>5, <2>1, <2>2, <2>3 DEF Counted
  <2> QED BY <1>1, <1>2, <1>3, <1>5, <2>1, <2>4, <2>5 DEF Counted
<1> QED BY <1>4, <1>5 DEF Counted

LEMMA PassTimeInv == SamplesInv /\ PassTime => SamplesInv'
<1> SUFFICES ASSUME SamplesInv, PassTime PROVE SamplesInv'
  OBVIOUS
<1>1. PICK n \in {0, 1} : Count(n)
  BY DEF PassTime
<1>2. /\ time < MaxTicks /\ time' = time + 1 /\ clock' = clock + 1 /\ beaten' = FALSE
      /\ UNCHANGED <<held, todo, results, policyVars, storeVars, unusual, noted, heard>>
  BY DEF PassTime
<1>3. SamplesTypeOK /\ time \in Nat /\ clock \in Nat /\ clock <= time /\ passed \in Nat
      /\ (counter # None => counter \in Counters /\ counter.total \in Nat)
  BY SampleTypes DEF SamplesInv, OnTime
<1>4. \/ counter = None /\ counter' = None /\ passed' = passed
      \/ /\ counter # None /\ counter' = [counter EXCEPT !.total = counter.total + n]
         /\ passed' = passed + n
  BY <1>1 DEF Count
<1>5. /\ counter # None => /\ counter' \in Counters /\ counter'.total = counter.total + n
                           /\ counter'.mark = counter.mark
      /\ counter' # None <=> counter # None
      /\ passed' \in Nat /\ passed <= passed'
  BY <1>3, <1>4, SamplesAssumption DEF Counters
<1>6. SamplesTypeOK'
  <2>1. time' \in 0 .. MaxTicks /\ clock' \in 0 .. MaxTicks
    BY <1>2, <1>3, SampleConstants
  <2>2. counter' \in Counters \cup {None}
    BY <1>5
  <2> QED BY <1>2, <1>3, <1>5, <2>1, <2>2 DEF SamplesTypeOK
<1>7. Marked'
  BY <1>3, <1>5 DEF SamplesInv, Marked, Counters
<1>8. OnTime'
  BY <1>2, <1>3, SampleTypes, SampleConstants DEF SamplesInv, OnTime, Recent
<1>9. "misled" \notin noted' => Counted'
  BY <1>2, <1>3, <1>4, <1>5, <1>6, CountedKept DEF SamplesInv
<1>10. Ordered' /\ Whole' /\ Rooted' /\ Hours' /\ Days' /\ Quota'
  BY <1>2, StoreKept
<1> QED BY <1>6, <1>7, <1>8, <1>9, <1>10 DEF SamplesInv

LEMMA SetBackInv == SamplesInv /\ SetBack => SamplesInv'
<1> SUFFICES ASSUME SamplesInv, SetBack PROVE SamplesInv'
  OBVIOUS
<1>1. PICK t \in 0 .. clock - 1 : Recent(t) /\ clock' = t
  BY DEF SetBack
<1>2. /\ Event /\ held' = IF held = None THEN None ELSE [held EXCEPT !.before = TRUE]
      /\ UNCHANGED <<time, beaten, helperVars, policyVars, storeVars, noted, heard>>
  BY DEF SetBack
<1>3. SamplesTypeOK /\ time \in Nat /\ clock \in Nat /\ clock <= time /\ clock <= MaxTicks
      /\ (held # None => held \in Requests)
  BY SampleTypes DEF SamplesInv, OnTime
<1>4. clock' \in 0 .. MaxTicks /\ clock' <= time'
  BY <1>1, <1>2, <1>3, SampleConstants
<1>5. held # None => /\ held' \in Requests /\ held'.before /\ held'.at = held.at
                     /\ held' # None
  BY <1>2, <1>3, SamplesAssumption DEF Requests
<1>6. held = None => held' = None
  BY <1>2
<1>7. SamplesTypeOK'
  <2>1. held' \in Requests \cup {None}
    BY <1>5, <1>6
  <2>2. {time, clock}' \subseteq 0 .. MaxTicks
    BY <1>2, <1>3, <1>4 DEF SamplesTypeOK
  <2>3. unusual' \in 0 .. MaxEvents
    <3>1. unusual \in 0 .. MaxEvents
      BY <1>3 DEF SamplesTypeOK
    <3>2. unusual < MaxEvents /\ unusual' = unusual + 1
      BY <1>2 DEF Event
    <3> QED BY <3>1, <3>2, SampleConstants
  <2> QED BY <1>2, <1>3, <2>1, <2>2, <2>3
          DEF SamplesTypeOK, helperVars, policyVars, storeVars, Tasked
<1>8. Marked'
  BY <1>2 DEF SamplesInv, Marked
<1>9. OnTime'
  BY <1>1, <1>2, <1>4, <1>5, <1>6 DEF SamplesInv, OnTime, Recent
<1>10. "misled" \notin noted' => Counted'
  BY <1>2, <1>3, <1>5, <1>6, <1>7, CountedKept, SampleTypes DEF SamplesInv
<1>11. Ordered' /\ Whole' /\ Rooted' /\ Hours' /\ Days' /\ Quota'
  BY <1>2, StoreKept
<1> QED BY <1>7, <1>8, <1>9, <1>10, <1>11 DEF SamplesInv

\* The tasks for the host and their results.
LEMMA TasksInv ==
  ASSUME SamplesInv, SetEnabled \/ OrderReset \/ PerformNothing \/ RecordReset
  PROVE  SamplesInv'
<1>1. UNCHANGED <<clockVars, held, counter, passed, storeVars, noted>>
  BY DEF SetEnabled, OrderReset, PerformNothing, RecordReset
<1>2. SamplesTypeOK
  BY DEF SamplesInv
<1>3. /\ enabled' \in BOOLEAN /\ policyGeneration' \in Nat /\ todo' \in Seq(Tasked)
      /\ results' \in Seq(Nat) /\ heard' \in Nat \cup {None} /\ unusual' \in 0 .. MaxEvents
  <2>1. /\ enabled \in BOOLEAN /\ policyGeneration \in Nat /\ todo \in Seq(Tasked)
        /\ results \in Seq(Nat) /\ heard \in Nat \cup {None} /\ unusual \in 0 .. MaxEvents
    BY <1>2 DEF SamplesTypeOK
  <2>2. CASE SetEnabled
    <3>1. [op |-> IF enabled' THEN "apply" ELSE "remove", gen |-> policyGeneration] \in Tasked
      BY <2>1 DEF Tasked
    <3> QED BY <2>1, <2>2, <3>1, SampleConstants DEF SetEnabled, Event
  <2>3. CASE OrderReset
    <3>1. [op |-> "reset", gen |-> policyGeneration] \in Tasked
      BY <2>1 DEF Tasked
    <3> QED BY <2>1, <2>3, <3>1, SampleConstants DEF OrderReset, Event
  <2>4. CASE PerformNothing
    BY <2>1, <2>4, SampleConstants DEF PerformNothing, Event
  <2>5. CASE RecordReset
    BY <2>1, <2>5 DEF RecordReset
  <2> QED BY <2>2, <2>3, <2>4, <2>5
<1>4. SamplesTypeOK'
  BY <1>1, <1>2, <1>3 DEF SamplesTypeOK
<1>5. Marked' /\ OnTime'
  BY <1>1 DEF SamplesInv, Marked, OnTime, Recent
<1>6. "misled" \notin noted' => Counted'
  BY <1>1, <1>2, <1>4, CountedKept, SampleTypes DEF SamplesInv
<1>7. Ordered' /\ Whole' /\ Rooted' /\ Hours' /\ Days' /\ Quota'
  BY <1>1, StoreKept
<1> QED BY <1>4, <1>5, <1>6, <1>7 DEF SamplesInv

LEMMA PerformInv == SamplesInv /\ Perform => SamplesInv'
<1> SUFFICES ASSUME SamplesInv, Perform PROVE SamplesInv'
  OBVIOUS
<1>1. /\ todo # <<>> /\ todo' = Tail(todo)
      /\ UNCHANGED <<clockVars, held, policyVars, storeVars, unusual, passed, heard>>
      /\ \/ Apply(Head(todo).gen)
         \/ Remove
         \/ ResetCounter
  BY DEF Perform
<1>2. /\ SamplesTypeOK /\ todo \in Seq(Tasked) /\ results \in Seq(Nat) /\ passed \in Nat
      /\ counter # None => counter \in Counters
  BY SampleTypes DEF SamplesInv, SamplesTypeOK
<1>3. Head(todo).gen \in Nat /\ todo' \in Seq(Tasked)
  <2>1. Head(todo) \in Tasked /\ Tail(todo) \in Seq(Tasked)
    BY <1>1, <1>2, HeadTailProperties
  <2> QED BY <1>1, <2>1 DEF Tasked
<1>4. /\ counter' \in Counters \cup {None} /\ results' \in Seq(Nat)
      /\ noted' \subseteq Notes /\ noted \subseteq noted' /\ ("misled" \in noted' => "misled" \in noted)
      /\ Marked'
      /\ \/ counter' = None
         \/ counter # None /\ counter' # None /\ counter'.total = counter.total
         \/ counter' # None /\ counter'.total = 0
  <2>1. noted \subseteq Notes /\ (counter # None => counter.mark <= counter.total)
    BY <1>2 DEF SamplesTypeOK, SamplesInv, Marked
  <2>2. CASE Apply(Head(todo).gen)
    <3>1. NewCounter(Head(todo).gen) \in Counters
      BY <1>3 DEF NewCounter, Counters
    <3>2. CASE counter = None
      <4>1. counter' = NewCounter(Head(todo).gen) /\ noted' = noted \cup {"restarted"}
            /\ UNCHANGED results
        BY <2>2, <3>2 DEF Apply, Noted
      <4> QED BY <1>2, <2>1, <3>1, <4>1, SamplesAssumption DEF NewCounter, Marked, Notes
    <3>3. CASE counter # None
      <4>1. counter' = counter /\ noted' = noted /\ UNCHANGED results
        BY <2>2, <3>3 DEF Apply, Noted
      <4> QED BY <1>2, <2>1, <3>3, <4>1 DEF Marked
    <3> QED BY <3>2, <3>3
  <2>3. CASE Remove
    BY <1>2, <2>1, <2>3 DEF Remove, Marked
  <2>4. CASE ResetCounter
    <3>1. /\ counter # None
          /\ counter' = [counter EXCEPT !.mark = counter.total, !.gen = counter.gen + 1]
          /\ results' = Append(results, counter'.gen) /\ UNCHANGED noted
      BY <2>4 DEF ResetCounter
    <3>2. /\ counter' \in Counters /\ counter'.total = counter.total
          /\ counter'.mark = counter.total /\ counter'.gen \in Nat /\ counter.total \in Nat
      <4>1. /\ counter.total \in Nat /\ counter.gen + 1 \in Nat
            /\ counter = [total |-> counter.total, mark |-> counter.mark, gen |-> counter.gen]
        BY <1>2, <3>1 DEF Counters
      <4>2. counter' = [total |-> counter.total, mark |-> counter.total, gen |-> counter.gen + 1]
        BY <3>1, <4>1
      <4> QED BY <4>1, <4>2 DEF Counters
    <3> QED BY <1>2, <2>1, <3>1, <3>2, SamplesAssumption DEF Marked
  <2> QED BY <1>1, <2>2, <2>3, <2>4
<1>5. SamplesTypeOK'
  BY <1>1, <1>2, <1>3, <1>4 DEF SamplesTypeOK
<1>6. OnTime'
  BY <1>1 DEF SamplesInv, OnTime, Recent
<1>7. "misled" \notin noted' => Counted'
  <2> SUFFICES ASSUME "misled" \notin noted' PROVE Counted'
    OBVIOUS
  <2>1. Counted
    BY <1>4 DEF SamplesInv
  <2>2. /\ \/ counter' = None /\ passed <= passed'
           \/ /\ counter # None /\ counter' # None /\ passed <= passed'
              /\ counter'.total + passed = counter.total + passed'
           \/ counter' # None /\ counter'.total = 0 /\ passed' = passed
    BY <1>1, <1>2, <1>4
  <2> QED BY <1>1, <1>5, <2>1, <2>2, CountedKept
<1>8. Ordered' /\ Whole' /\ Rooted' /\ Hours' /\ Days' /\ Quota'
  BY <1>1, <1>4, StoreKept
<1> QED BY <1>4, <1>5, <1>6, <1>7, <1>8 DEF SamplesInv
LEMMA DelayInv == SamplesInv /\ Delay => SamplesInv'
<1> SUFFICES ASSUME SamplesInv, Delay PROVE SamplesInv'
  OBVIOUS
<1>1. /\ ~beaten /\ beaten' = TRUE /\ Event /\ held' = SampleRequest("active")
      /\ UNCHANGED <<time, clock, helperVars, policyVars, storeVars, noted, heard>>
  BY DEF Delay, Beat
<1>2. SamplesTypeOK /\ time \in Nat /\ clock \in 0 .. MaxTicks
  BY SampleTypes DEF SamplesInv
<1>3. /\ held' \in Requests /\ held'.at = clock /\ ~held'.before
      /\ held'.seen # None => counter # None /\ held'.seen.total = counter.total
  BY <1>1, RequestFacts DEF States
<1>4. SamplesTypeOK'
  BY <1>1, <1>2, <1>3, SampleConstants DEF SamplesTypeOK, Event
<1>5. Marked' /\ OnTime'
  BY <1>1, <1>2, <1>3 DEF SamplesInv, Marked, OnTime, Recent
<1>6. "misled" \notin noted' => Counted'
  <2> SUFFICES ASSUME "misled" \notin noted PROVE Counted'
    BY <1>1
  <2>1. Counted /\ (samples # {} => latest # None)
    BY DEF SamplesInv, Ordered
  <2>2. Shown' = Shown /\ Shown \in Nat
    BY <1>1, <1>2, SameViews, ShownType
  <2>3. counter # None => counter.total \in Nat /\ passed \in Nat
    BY <1>2, SampleTypes
  <2> QED BY <1>1, <1>3, <2>1, <2>2, <2>3 DEF Counted
<1>7. Ordered' /\ Whole' /\ Rooted' /\ Hours' /\ Days' /\ Quota'
  BY <1>1, StoreKept
<1> QED BY <1>4, <1>5, <1>6, <1>7 DEF SamplesInv

-----------------------------------------------------------------------------
(* A sample is stored.                                                       *)

LEMMA NewestIs ==
  ASSUME NEW S, NEW s \in S, \A o \in S : o.at \in Nat /\ o.at <= s.at,
         \A a, b \in S : a.at = b.at => a = b
  PROVE  Newest(S) = s
<1>1. \A t \in S : (\A o \in S : o.at <= t.at) => t = s
  OBVIOUS
<1> QED BY <1>1 DEF Newest

LEMMA LastSample ==
  ASSUME SamplesInv
  PROVE  /\ samples = {} <=> Previous = None
         /\ Previous \in Samples \cup {None}
         /\ samples # {} => /\ Previous \in samples /\ Previous.total = latest
                            /\ \A o \in samples : o.at <= Previous.at
                            /\ Newest(samples) = Previous
         /\ \A s : IsLast(s) => s = Previous
<1>1. /\ \A s \in samples : s \in Samples /\ s # None /\ s.at \in Nat
      /\ \A s, o \in samples : s.at = o.at => s = o
  BY SampleTypes DEF SamplesInv, Ordered
<1>2. CASE samples = {}
  BY <1>2 DEF Previous, IsLast
<1>3. CASE samples # {}
  <2>1. PICK s \in samples : IsLast(s) /\ s.total = latest
    BY <1>3 DEF SamplesInv, Ordered
  <2>2. Newest(samples) = s
    BY <1>1, <2>1, NewestIs DEF IsLast
  <2>3. Previous = s
    BY <1>3, <2>2 DEF Previous
  <2>4. ASSUME NEW t, IsLast(t) PROVE t = s
    <3>1. t \in samples /\ t.at <= s.at /\ s.at <= t.at
      BY <2>1, <2>4 DEF IsLast
    <3> QED BY <1>1, <3>1
  <2> QED BY <1>1, <1>3, <2>1, <2>2, <2>3, <2>4 DEF IsLast
<1> QED BY <1>2, <1>3

\* What is shown of a sample is a number.
LEMMA PointType ==
  ASSUME SamplesInv, NEW s \in samples
  PROVE  Point(s) \in Nat
<1>1. CASE Older(s) = {}
  BY <1>1 DEF Point
<1>2. CASE Older(s) # {}
  <2>1. PICK p \in Older(s) : \A o \in Older(s) : o.at <= p.at
    BY <1>2 DEF SamplesInv, Ordered
  <2>2. Older(s) \subseteq samples
    BY DEF Older
  <2>3. Newest(Older(s)) = p
    BY <2>1, <2>2, NewestIs, SampleTypes DEF SamplesInv, Ordered
  <2>4. p.total \in Nat /\ s.total \in Nat
    BY <2>1, <2>2, SampleTypes DEF SamplesInv
  <2> QED BY <1>2, <2>3, <2>4 DEF Point
<1> QED BY <1>1, <1>2
SampleOf(q) == [at |-> q.at, total |-> q.seen.total, gen |-> q.seen.gen,
                period |-> q.seen.period, marked |-> Breaks(Previous, q.seen)]

\* The sample n of request q is stored.
Stores(q, n) ==
  /\ SamplesInv
  /\ q \in Requests /\ q.seen \in Seen /\ q.at \in 0 .. MaxTicks
  /\ IsNew(q.at) /\ Recent(q.at)
  /\ n = SampleOf(q) /\ StoreSample(q) /\ UNCHANGED time

LEMMA StoreFacts ==
  ASSUME NEW q, NEW n, Stores(q, n)
  PROVE  /\ n \in Samples /\ n.at = q.at /\ n.total = q.seen.total
         /\ n.period = q.seen.period /\ n.gen = q.seen.gen
         /\ n.at \in Nat /\ n.total \in Nat /\ n.period \in Nat
         /\ samples' = samples \cup {n} /\ n \notin samples
         /\ \A s \in samples : s.at < n.at
         /\ latest' = n.total /\ time' = time
<1>1. n = [at |-> q.at, total |-> q.seen.total, gen |-> q.seen.gen,
           period |-> q.seen.period, marked |-> Breaks(Previous, q.seen)]
  BY DEF Stores, SampleOf
<1>2. /\ q.at \in Nat /\ q.seen.total \in Nat /\ q.seen.gen \in Nat /\ q.seen.period \in Nat
      /\ Breaks(Previous, q.seen) \in BOOLEAN
  <2>1. Previous \in Samples \cup {None} /\ q.seen \in Seen
    BY LastSample DEF Stores
  <2>2. Breaks(Previous, q.seen) \in BOOLEAN
    BY <2>1, DeltaType
  <2> QED BY <2>1, <2>2, SampleConstants DEF Stores, Seen
<1>3. n \in Samples
  BY <1>1, <1>2 DEF Samples
<1>4. samples' = samples \cup {n} /\ latest' = n.total
  BY <1>1 DEF Stores, StoreSample
<1>5. \A s \in samples : s.at < n.at
  BY <1>1, <1>2, SampleTypes DEF Stores, IsNew, SamplesInv
<1>6. n \notin samples
  BY <1>1, <1>2, <1>5
<1> QED BY <1>1, <1>2, <1>3, <1>4, <1>5, <1>6 DEF Stores

\* What is shown of the samples before it stays; of it the difference is shown.
LEMMA StorePoints ==
  ASSUME NEW q, NEW n, Stores(q, n)
  PROVE  /\ \A s \in samples : Older(s)' = Older(s) /\ Point(s)' = Point(s)
         /\ Older(n)' = samples
         /\ Point(n)' = Delta(Previous, q.seen)
<1>1. ASSUME NEW s \in samples PROVE Older(s)' = Older(s) /\ Point(s)' = Point(s)
  <2>1. Older(s)' = Older(s)
    <3>1. s.at < n.at /\ s.at \in Nat /\ n.at \in Nat /\ samples' = samples \cup {n}
      BY StoreFacts, SampleTypes DEF Stores, SamplesInv
    <3>2. ~(n.at < s.at)
      BY <3>1
    <3> QED BY <3>1, <3>2 DEF Older
  <2> QED BY <2>1 DEF Point
<1>2. Older(n)' = samples
  <2>1. ~(n.at < n.at)
    BY StoreFacts
  <2> QED BY <2>1, StoreFacts DEF Older
<1>3. Point(n)' = Delta(Previous, q.seen)
  <2>1. CASE samples = {}
    BY <1>2, <2>1 DEF Point, Delta, Continues, Previous
  <2>2. CASE samples # {}
    <3>1. Newest(Older(n)') = Previous /\ Previous # None
      BY <1>2, <2>2, LastSample DEF Stores
    <3>2. Point(n)' = IF Previous.gen = n.gen /\ Previous.total <= n.total
                      THEN n.total - Previous.total ELSE 0
      <4>1. Newest(Older(n))' = Newest(Older(n)')
        BY DEF Newest
      <4> QED BY <1>2, <2>2, <3>1, <4>1 DEF Point
    <3> QED BY <3>1, <3>2, StoreFacts DEF Delta, Continues
  <2> QED BY <2>1, <2>2
<1> QED BY <1>1, <1>2, <1>3

LEMMA StoreOrdered ==
  ASSUME NEW q, NEW n, Stores(q, n)
  PROVE  Ordered' /\ IsLast(n)' /\ \A s : IsLast(s)' => s = n
<1>1. /\ samples' = samples \cup {n} /\ n \notin samples /\ latest' = n.total
      /\ \A s \in samples : s.at < n.at /\ s.at \in Nat
      /\ n.at \in Nat /\ n.total \in Nat /\ SamplesInv
  BY StoreFacts, SampleTypes DEF Stores, SamplesInv
<1>2. IsLast(n)'
  BY <1>1 DEF IsLast
<1>3. ASSUME NEW s, IsLast(s)' PROVE s = n
  <2>1. s \in samples' /\ n.at <= s.at
    BY <1>1, <1>3 DEF IsLast
  <2> QED BY <1>1, <2>1
<1>4. ASSUME NEW s \in samples', Older(s)' # {}
      PROVE  \E p \in Older(s)' : \A o \in Older(s)' : o.at <= p.at
  <2>1. CASE s \in samples
    BY <1>1, <1>4, <2>1, StorePoints DEF Ordered, SamplesInv
  <2>2. CASE s = n
    <3>1. Older(s)' = samples
      BY <2>2, StorePoints
    <3> QED BY <1>1, <1>4, <3>1, LastSample
  <2> QED BY <1>1, <2>1, <2>2
<1>5. \A s, o \in samples' : s.at = o.at => s = o
  BY <1>1 DEF SamplesInv, Ordered
<1>6. first' # None /\ latest' # None
  <2>1. n.total # None /\ first' = IF first = None THEN q.seen.total ELSE first
    BY <1>1, SamplesAssumption DEF Stores, StoreSample
  <2> QED BY <1>1, <2>1, StoreFacts
<1> QED BY <1>1, <1>2, <1>3, <1>4, <1>5, <1>6 DEF Ordered
LEMMA StoreRows ==
  ASSUME NEW q, NEW n, Stores(q, n), NEW h, h = q.at \div Hour, NEW d, d = q.at \div Day
  PROVE  /\ h \in Buckets(Hour) /\ d \in Buckets(Day)
         /\ hourly' \in [Buckets(Hour) -> RollupRow \cup {None}]
         /\ daily' \in [Buckets(Day) -> RollupRow \cup {None}]
         /\ HourBytes(h)' = HourBytes(h) + Delta(Previous, q.seen)
         /\ \A b \in Buckets(Hour) \ {h} : HourBytes(b)' = HourBytes(b)
         /\ DayBytes(d)' = DayBytes(d) + Delta(Previous, q.seen)
         /\ \A b \in Buckets(Day) \ {d} : DayBytes(b)' = DayBytes(b)
         /\ Breaks(Previous, q.seen) => daily'[d].breaks > 0
         /\ daily'[d] # None
         /\ \A b \in Buckets(Day) : daily[b] # None => /\ daily'[b] # None
                                                       /\ daily'[b].breaks >= daily[b].breaks
<1>1. /\ hourly \in [Buckets(Hour) -> RollupRow \cup {None}] /\ daily \in [Buckets(Day) -> RollupRow \cup {None}]
      /\ q \in Requests /\ q.seen \in Seen /\ q.at \in 0 .. MaxTicks
      /\ Previous \in Samples \cup {None}
      /\ Hour \in Nat \ {0} /\ Day \in Nat \ {0}
  BY LastSample, SampleConstants DEF Stores, SamplesInv, SamplesTypeOK
<1>2. hourly' = Rolled(hourly, Hour, q, Previous) /\ daily' = Rolled(daily, Day, q, Previous)
  BY DEF Stores, StoreSample
<1>3. /\ h \in Buckets(Hour)
      /\ hourly' \in [Buckets(Hour) -> RollupRow \cup {None}]
      /\ Bytes(hourly', h) = Bytes(hourly, h) + Delta(Previous, q.seen)
      /\ \A c \in Buckets(Hour) \ {h} : hourly'[c] = hourly[c]
  BY <1>1, <1>2, RolledRow
<1>4. /\ d \in Buckets(Day)
      /\ daily' \in [Buckets(Day) -> RollupRow \cup {None}]
      /\ daily'[d] # None
      /\ Bytes(daily', d) = Bytes(daily, d) + Delta(Previous, q.seen)
      /\ Breaks(Previous, q.seen) => daily'[d].breaks > 0
      /\ daily[d] # None => daily'[d].breaks >= daily[d].breaks
      /\ \A c \in Buckets(Day) \ {d} : daily'[c] = daily[c]
  BY <1>1, <1>2, RolledRow
<1>5. /\ HourBytes(h)' = HourBytes(h) + Delta(Previous, q.seen)
      /\ \A b \in Buckets(Hour) \ {h} : HourBytes(b)' = HourBytes(b)
  BY <1>3 DEF HourBytes, Bytes
<1>6. /\ DayBytes(d)' = DayBytes(d) + Delta(Previous, q.seen)
      /\ \A b \in Buckets(Day) \ {d} : DayBytes(b)' = DayBytes(b)
  BY <1>4 DEF DayBytes, Bytes
<1>7. ASSUME NEW b \in Buckets(Day), daily[b] # None
      PROVE  daily'[b] # None /\ daily'[b].breaks >= daily[b].breaks
  <2>1. CASE b = d
    BY <1>4, <1>7, <2>1
  <2>2. CASE b # d
    <3>1. daily'[b] = daily[b] /\ daily[b] \in RollupRow
      BY <1>1, <1>4, <1>7, <2>2
    <3> QED BY <1>7, <3>1 DEF RollupRow
  <2> QED BY <2>1, <2>2
<1> QED BY <1>3, <1>4, <1>5, <1>6, <1>7

\* The bytes of a bucket are numbers.
LEMMA BytesType ==
  ASSUME SamplesTypeOK
  PROVE  /\ \A b \in Buckets(Hour) : HourBytes(b) \in Nat
         /\ \A b \in Buckets(Day) : DayBytes(b) \in Nat
BY DEF SamplesTypeOK, HourBytes, DayBytes, Bytes, RollupRow

LEMMA StoreShown ==
  ASSUME NEW q, NEW n, Stores(q, n)
  PROVE  /\ Shown' = Shown + Delta(Previous, q.seen)
         /\ Shown \in Nat /\ Delta(Previous, q.seen) \in Nat
<1> DEFINE d == q.at \div Day
           h == q.at \div Hour
           f == [b \in Buckets(Day) |-> DayBytes(b)]
           g == [b \in Buckets(Day) |-> DayBytes(b)']
<1>1. /\ d \in Buckets(Day)
      /\ DayBytes(d)' = DayBytes(d) + Delta(Previous, q.seen)
      /\ \A b \in Buckets(Day) \ {d} : DayBytes(b)' = DayBytes(b)
  <2> HIDE DEF d, h
  <2>1. d = q.at \div Day /\ h = q.at \div Hour
    BY DEF d, h
  <2> QED BY <2>1, StoreRows
<1>2. /\ \A b \in Buckets(Day) : DayBytes(b) \in Nat
      /\ Delta(Previous, q.seen) \in Nat /\ Shown \in Nat
  BY BytesType, DeltaType, LastSample, ShownType DEF Stores, SamplesInv
<1>3. IsFiniteSet(Buckets(Day))
  BY SampleConstants, Division, FS_Interval DEF Buckets
<1> HIDE DEF d, h
<1>4. \A b \in Buckets(Day) : DayBytes(b)' \in Nat
  BY <1>1, <1>2
<1>5. /\ f \in [Buckets(Day) -> Nat] /\ g \in [Buckets(Day) \cup {d} -> Nat]
      /\ \A b \in Buckets(Day) \ {d} : g[b] = f[b]
      /\ g[d] = (IF d \in Buckets(Day) THEN f[d] ELSE 0) + Delta(Previous, q.seen)
  BY <1>1, <1>2, <1>4
<1>6. Total(g) = Total(f) + Delta(Previous, q.seen)
  <2> HIDE DEF f, g
  <2> QED BY <1>2, <1>3, <1>5, TotalGrows
<1>7. Shown = Total(f) /\ Shown' = Total(g)
  BY DEF Shown, Buckets
<1> QED BY <1>2, <1>6, <1>7

\* The samples of an hour and what is shown of them.
LEMMA RawType ==
  ASSUME SamplesInv, NEW b
  PROVE  /\ IsFiniteSet(InHour(b))
         /\ [s \in InHour(b) |-> Point(s)] \in [InHour(b) -> Nat]
         /\ RawBytes(b) = Total([s \in InHour(b) |-> Point(s)])
         /\ RawBytes(b) \in Nat
<1>1. IsFiniteSet(InHour(b)) /\ InHour(b) \subseteq samples
  BY SampleTypes, FS_Subset DEF SamplesInv, InHour
<1>2. \A s \in InHour(b) : Point(s) \in Nat
  BY <1>1, PointType
<1>3. RawBytes(b) = Total([s \in InHour(b) |-> Point(s)])
  BY DEF RawBytes, InHour
<1> QED BY <1>1, <1>2, <1>3, TotalType

LEMMA StoreRaw ==
  ASSUME NEW q, NEW n, Stores(q, n), NEW h, h = q.at \div Hour
  PROVE  /\ RawBytes(h)' = RawBytes(h) + Delta(Previous, q.seen)
         /\ \A b : b # h => RawBytes(b)' = RawBytes(b)
<1>1. /\ samples' = samples \cup {n} /\ n \notin samples /\ n.at = q.at /\ SamplesInv
      /\ \A s \in samples : Point(s)' = Point(s)
      /\ Point(n)' = Delta(Previous, q.seen) /\ Delta(Previous, q.seen) \in Nat
  BY StoreFacts, StorePoints, StoreShown DEF Stores
<1>2. ASSUME NEW b, b # h PROVE RawBytes(b)' = RawBytes(b)
  <2>1. {s \in samples' : s.at \div Hour = b} = {s \in samples : s.at \div Hour = b}
    BY <1>1, <1>2
  <2>2. [s \in {s \in samples' : s.at \div Hour = b} |-> Point(s)']
          = [s \in {s \in samples : s.at \div Hour = b} |-> Point(s)]
    BY <1>1, <2>1
  <2> QED BY <2>2 DEF RawBytes
<1>3. RawBytes(h)' = RawBytes(h) + Delta(Previous, q.seen)
  <2> DEFINE f == [s \in InHour(h) |-> Point(s)]
             g == [s \in InHour(h) \cup {n} |-> Point(s)']
  <2>1. {s \in samples' : s.at \div Hour = h} = InHour(h) \cup {n}
    BY <1>1 DEF InHour
  <2>2. RawBytes(h)' = Total(g)
    BY <2>1 DEF RawBytes
  <2>3. /\ IsFiniteSet(InHour(h)) /\ f \in [InHour(h) -> Nat] /\ RawBytes(h) = Total(f)
        /\ InHour(h) \subseteq samples
    BY <1>1, RawType DEF InHour
  <2>4. \A s \in InHour(h) : g[s] = f[s] /\ g[s] \in Nat
    <3> SUFFICES ASSUME NEW s \in InHour(h) PROVE g[s] = f[s] /\ g[s] \in Nat
      OBVIOUS
    <3>1. f[s] \in Nat /\ f[s] = Point(s)
      BY <2>3
    <3>2. g[s] = Point(s)'
      OBVIOUS
    <3>3. Point(s)' = Point(s)
      BY <1>1, <2>3
    <3> QED BY <3>1, <3>2, <3>3
  <2>5. n \notin InHour(h) /\ g[n] = Delta(Previous, q.seen)
    BY <1>1, <2>3
  <2>6. /\ g \in [InHour(h) \cup {n} -> Nat]
        /\ g[n] = (IF n \in InHour(h) THEN f[n] ELSE 0) + Delta(Previous, q.seen)
    BY <1>1, <2>4, <2>5
  <2> HIDE DEF f, g
  <2>7. Total(g) = Total(f) + Delta(Previous, q.seen)
    BY <1>1, <2>3, <2>4, <2>6, TotalGrows
  <2> QED BY <2>2, <2>3, <2>7
<1> QED BY <1>2, <1>3
LEMMA HourStart ==
  ASSUME NEW b \in Buckets(Hour)
  PROVE  b \in Nat /\ b * Hour \in Nat
BY Product, SampleConstants, Division DEF Buckets

LEMMA StoreRooted ==
  ASSUME NEW q, NEW n, Stores(q, n)
  PROVE  Rooted'
<1> SUFFICES ASSUME NEW b \in Buckets(Hour), HourBytes(b)' > 0
             PROVE  b * Hour < time' - RawRetention \/ \E s \in samples' : b * Hour <= s.at
  BY DEF Rooted, Buckets
<1>1. PICK h : h = q.at \div Hour
  OBVIOUS
<1>2. samples' = samples \cup {n} /\ n.at = q.at /\ time' = time /\ q.at \in Nat
  BY StoreFacts
<1>3. CASE b = h
  <2>1. b * Hour <= q.at
    BY <1>1, <1>2, <1>3, Division, SampleConstants
  <2> QED BY <1>2, <2>1
<1>4. CASE b # h
  <2>1. HourBytes(b) > 0
    BY <1>1, <1>4, StoreRows
  <2> QED BY <1>2, <2>1 DEF Stores, SamplesInv, Rooted
<1> QED BY <1>3, <1>4

\* In hours that are to come nothing has been counted.
LEMMA NothingAhead ==
  ASSUME NEW q, NEW n, Stores(q, n), NEW b \in Buckets(Hour), q.at < b * Hour
  PROVE  RawBytes(b) = 0 /\ HourBytes(b) = 0
<1>1. /\ \A s \in samples : s.at \in Nat /\ s.at < q.at
      /\ q.at \in Nat /\ b \in Nat /\ b * Hour \in Nat /\ time \in Nat /\ Hour \in Nat \ {0}
  BY StoreFacts, SampleTypes, HourStart, SampleConstants DEF Stores, SamplesInv
<1>2. RawBytes(b) = 0
  <2>1. ASSUME NEW s \in samples PROVE s.at \div Hour # b
    <3>1. (s.at \div Hour) * Hour <= s.at /\ s.at < q.at /\ s.at \in Nat
      BY <1>1, Division
    <3>2. s.at < b * Hour
      BY <1>1, <3>1
    <3> QED BY <1>1, <3>1, <3>2
  <2>2. InHour(b) = {}
    BY <2>1 DEF InHour
  <2>3. [s \in InHour(b) |-> Point(s)] \in [InHour(b) -> Nat]
    BY RawType DEF Stores
  <2>4. Total([s \in InHour(b) |-> Point(s)]) = 0
    BY <2>2, <2>3, TotalNone
  <2> QED BY <2>4, RawType DEF Stores
<1>3. HourBytes(b) = 0
  <2>1. HourBytes(b) \in Nat
    BY BytesType DEF Stores, SamplesInv
  <2>2. ASSUME HourBytes(b) > 0 PROVE FALSE
    <3>1. ~\E s \in samples : b * Hour <= s.at
      BY <1>1
    <3>2. b * Hour < time - RawRetention
      BY <2>2, <3>1 DEF Stores, SamplesInv, Rooted
    <3> QED BY <1>1, <3>2, SampleConstants DEF Stores, Recent
  <2> QED BY <2>1, <2>2
<1> QED BY <1>2, <1>3

LEMMA StoreHours ==
  ASSUME NEW q, NEW n, Stores(q, n)
  PROVE  Hours'
<1> SUFFICES ASSUME NEW b \in Buckets(Hour), b * Hour >= time' - HourlyRetention
             PROVE  /\ RawBytes(b)' <= HourBytes(b)'
                    /\ (\E s \in samples' : s.at < b * Hour) => RawBytes(b)' = HourBytes(b)'
  BY DEF Hours, Buckets
<1>1. PICK h : h = q.at \div Hour
  OBVIOUS
<1>2. /\ samples' = samples \cup {n} /\ n.at = q.at /\ time' = time /\ q.at \in Nat
      /\ b * Hour \in Nat
  BY StoreFacts, HourStart
<1>3. /\ RawBytes(b) \in Nat /\ HourBytes(b) \in Nat /\ Delta(Previous, q.seen) \in Nat
      /\ RawBytes(b) <= HourBytes(b)
      /\ (\E s \in samples : s.at < b * Hour) => RawBytes(b) = HourBytes(b)
  BY <1>2, RawType, BytesType, StoreShown DEF Stores, SamplesInv, Hours
<1>4. \/ /\ RawBytes(b)' = RawBytes(b) + Delta(Previous, q.seen)
         /\ HourBytes(b)' = HourBytes(b) + Delta(Previous, q.seen)
      \/ RawBytes(b)' = RawBytes(b) /\ HourBytes(b)' = HourBytes(b)
  BY <1>1, StoreRaw, StoreRows
<1>5. CASE q.at < b * Hour
  BY <1>3, <1>4, <1>5, NothingAhead
<1>6. CASE b * Hour <= q.at
  <2>1. (\E s \in samples' : s.at < b * Hour) => \E s \in samples : s.at < b * Hour
    BY <1>2, <1>6
  <2> QED BY <1>3, <1>4, <2>1
<1> QED BY <1>2, <1>5, <1>6

LEMMA StoreDays ==
  ASSUME NEW q, NEW n, Stores(q, n)
  PROVE  Days'
<1> SUFFICES ASSUME NEW d \in Buckets(Day), d * Day >= time' - HourlyRetention
             PROVE  DayBytes(d)' = Total([b \in HoursOf(d) |-> HourBytes(b)'])
  BY DEF Days, Buckets, HoursOf
<1> DEFINE f == [b \in HoursOf(d) |-> HourBytes(b)]
           g == [b \in HoursOf(d) |-> HourBytes(b)']
<1>1. PICK h, e : h = q.at \div Hour /\ e = q.at \div Day
  OBVIOUS
<1>2. /\ SamplesInv /\ time' = time /\ q.at \in Nat /\ HoursOf(d) \subseteq Buckets(Hour)
      /\ Delta(Previous, q.seen) \in Nat
  BY StoreFacts, StoreShown DEF Stores, HoursOf
<1>3. DayBytes(d) = Total(f)
  BY <1>2 DEF SamplesInv, Days
<1>4. f \in [HoursOf(d) -> Nat] /\ IsFiniteSet(HoursOf(d))
  <2>1. IsFiniteSet(Buckets(Hour))
    BY SampleConstants, Division, FS_Interval DEF Buckets
  <2> QED BY <1>2, <2>1, BytesType, FS_Subset DEF SamplesInv
<1>5. h \in Buckets(Hour) /\ (h \in HoursOf(d) <=> d = e)
  <2>1. h \in Buckets(Hour)
    BY <1>1, StoreRows
  <2> QED BY <1>1, <1>2, <2>1, HourInDay DEF HoursOf
<1>6. CASE d # e
  <2>1. DayBytes(d)' = DayBytes(d)
    BY <1>1, <1>6, StoreRows
  <2>2. \A b \in HoursOf(d) : HourBytes(b)' = HourBytes(b)
    BY <1>1, <1>2, <1>5, <1>6, StoreRows
  <2> QED BY <1>3, <2>1, <2>2
<1>7. CASE d = e
  <2>1. DayBytes(d)' = DayBytes(d) + Delta(Previous, q.seen)
    BY <1>1, <1>7, StoreRows
  <2>2. /\ h \in HoursOf(d)
        /\ HourBytes(h)' = HourBytes(h) + Delta(Previous, q.seen)
        /\ \A b \in HoursOf(d) \ {h} : HourBytes(b)' = HourBytes(b)
    BY <1>1, <1>2, <1>5, <1>7, StoreRows
  <2>3. \A b \in HoursOf(d) : HourBytes(b) \in Nat
    BY <1>2, BytesType DEF SamplesInv
  <2>4. \A b \in HoursOf(d) : HourBytes(b)' \in Nat
    BY <1>2, <2>2, <2>3
  <2>5. /\ g \in [HoursOf(d) \cup {h} -> Nat]
        /\ \A b \in HoursOf(d) \ {h} : g[b] = f[b]
        /\ g[h] = (IF h \in HoursOf(d) THEN f[h] ELSE 0) + Delta(Previous, q.seen)
    BY <2>2, <2>4
  <2>6. Total(g) = Total(f) + Delta(Previous, q.seen)
    <3> HIDE DEF f, g
    <3> QED BY <1>2, <1>4, <2>5, TotalGrows
  <2> QED BY <1>3, <2>1, <2>6
<1> QED BY <1>6, <1>7
LEMMA StoreWhole ==
  ASSUME NEW q, NEW n, Stores(q, n)
  PROVE  Whole'
<1>1. /\ SamplesInv /\ SamplesTypeOK /\ latest' = q.seen.total /\ q.seen.total \in Nat
      /\ first' = IF first = None THEN q.seen.total ELSE first
      /\ \/ q.before /\ Noted("misled", TRUE)
         \/ ~q.before /\ Noted("forgotten", Previous = None /\ first # None)
      /\ Previous \in Samples \cup {None} /\ q.seen \in Seen
      /\ first # None => first \in Nat
  BY LastSample, SampleTypes, StoreFacts DEF Stores, StoreSample, SamplesInv
<1>2. first' # None
  BY <1>1, SamplesAssumption
<1>3. ASSUME Uninterrupted' PROVE Shown' + first' = latest'
  <2>1. noted = {} /\ ~(Previous = None /\ first # None)
    BY <1>1, <1>3 DEF Uninterrupted, Noted
  <2>2. ~Breaks(Previous, q.seen) /\ \A b \in Buckets(Day) : daily[b] # None => daily[b].breaks = 0
    <3>1. PICK h, d : h = q.at \div Hour /\ d = q.at \div Day
      OBVIOUS
    <3>2. \A b \in Buckets(Day) : daily'[b] # None => daily'[b].breaks = 0
      BY <1>3 DEF Uninterrupted, Buckets
    <3>3. ~Breaks(Previous, q.seen)
      BY <3>1, <3>2, StoreRows
    <3>4. ASSUME NEW b \in Buckets(Day), daily[b] # None PROVE daily[b].breaks = 0
      <4>1. daily'[b].breaks = 0 /\ daily'[b].breaks >= daily[b].breaks
        BY <3>1, <3>2, <3>4, StoreRows
      <4>2. daily[b].breaks \in Nat
        BY <1>1, <3>4 DEF SamplesTypeOK, RollupRow
      <4> QED BY <4>1, <4>2
    <3> QED BY <3>3, <3>4
  <2>3. /\ Shown' = Shown + Delta(Previous, q.seen)
        /\ Shown \in Nat /\ Delta(Previous, q.seen) \in Nat
    BY StoreShown
  <2>4. CASE first = None
    <3>1. Shown = 0
      BY <1>1, <2>4 DEF SamplesInv, Whole
    <3>2. Previous = None
      BY <1>1, <2>4, LastSample DEF SamplesInv, Ordered
    <3>3. Delta(Previous, q.seen) = 0
      BY <1>1, <3>2, DeltaType
    <3> QED BY <1>1, <2>3, <2>4, <3>1, <3>3
  <2>5. CASE first # None
    <3>1. Previous # None /\ Uninterrupted
      BY <2>1, <2>2, <2>5 DEF Uninterrupted
    <3>2. Shown + first = latest
      BY <1>1, <3>1 DEF SamplesInv, Whole
    <3>3. Previous.total = latest /\ Previous.total \in Nat
      BY <1>1, <3>1, LastSample, SampleTypes
    <3>4. Delta(Previous, q.seen) + Previous.total = q.seen.total
      BY <1>1, <2>2, <3>1, DeltaType
    <3> QED BY <1>1, <2>3, <2>5, <3>2, <3>3, <3>4
  <2> QED BY <2>4, <2>5
<1> QED BY <1>2, <1>3 DEF Whole

\* The sample may be of the host as it is, or as it was.
LEMMA StoreCounted ==
  ASSUME NEW q, NEW n, Stores(q, n), Counted, UNCHANGED <<counter, passed>>,
         samples # {} => Shown + q.seen.total <= passed + latest,
         counter # None => Shown + counter.total <= passed + q.seen.total
  PROVE  /\ Shown' <= passed'
         /\ counter' # None => Shown' + counter'.total <= passed' + latest'
<1>1. /\ SamplesInv /\ latest' = q.seen.total /\ q.seen.total \in Nat /\ passed \in Nat
      /\ Previous \in Samples \cup {None} /\ q.seen \in Seen
      /\ counter # None => counter.total \in Nat
      /\ latest # None => latest \in Nat
  BY LastSample, SampleTypes, StoreFacts DEF Stores, SamplesInv
<1>2. /\ Shown' = Shown + Delta(Previous, q.seen)
      /\ Shown \in Nat /\ Delta(Previous, q.seen) \in Nat
      /\ Shown <= passed
  BY StoreShown DEF Counted
<1>3. CASE Delta(Previous, q.seen) = 0
  BY <1>1, <1>2, <1>3
<1>4. CASE Delta(Previous, q.seen) # 0
  <2>1. Previous # None /\ Delta(Previous, q.seen) + Previous.total = q.seen.total
    BY <1>1, <1>4, DeltaType
  <2>2. samples # {} /\ Previous.total = latest /\ latest # None
    BY <1>1, <2>1, LastSample DEF SamplesInv, Ordered
  <2>3. counter # None => Shown + counter.total <= passed + latest
    BY <2>2 DEF Counted
  <2> QED BY <1>1, <1>2, <2>1, <2>2, <2>3
<1> QED BY <1>3, <1>4

-----------------------------------------------------------------------------
(* The alerts.                                                               *)

LEMMA AlertOf ==
  ASSUME NEW x \in Rules!AlertStates, NEW f \in 0 .. 1, NEW s \in 0 .. 2,
         NEW t \in BOOLEAN, NEW r \in BOOLEAN
  PROVE  [state |-> x, fails |-> f, succs |-> s, told |-> t, raced |-> r] \in Rules!Alerts
BY DEF Rules!Alerts

\* One failure makes the quota alert fire, two successes resolve it.
LEMMA ObservedAlert ==
  ASSUME NEW a \in Rules!Alerts, NEW success \in BOOLEAN, NEW quiet \in BOOLEAN, ~quiet,
         NEW b, b = Rules!Observed(a, success, quiet)
  PROVE  /\ b \in Rules!Alerts
         /\ ~success /\ a.state \in {"ok", "firing", "resolved"} => b.state = "firing"
         /\ success /\ a.state \in {"ok", "firing", "resolved"} =>
              /\ b.state \in {"ok", "firing", "resolved"}
              /\ b.succs >= 1
              /\ a.state # "firing" \/ a.succs >= 1 => b.state # "firing"
<1>1. /\ a.fails \in 0 .. 1 /\ a.succs \in 0 .. 2 /\ a.told \in BOOLEAN /\ a.raced \in BOOLEAN
      /\ a.state \in Rules!AlertStates
  BY DEF Rules!Alerts
<1>2. Rules!Failed(a) = 1
  BY <1>1 DEF Rules!Failed, Rules!UpTo
<1>3. /\ Rules!Succeeded(a) \in 1 .. 2
      /\ a.succs >= 1 => Rules!Succeeded(a) = 2
  BY <1>1 DEF Rules!Succeeded, Rules!UpTo
<1>6. /\ b = [state |-> b.state, fails |-> b.fails, succs |-> b.succs,
               told |-> b.told, raced |-> b.raced]
      /\ b.told \in BOOLEAN /\ b.raced \in BOOLEAN
  BY <1>1 DEF Rules!Observed
<1>4. CASE success
  <2>1. b.state = Rules!AfterSuccess(a)
    BY <1>4 DEF Rules!Observed
  <2>5. b.succs \in 1 .. 2 /\ b.fails = 0
    BY <1>3, <1>4 DEF Rules!Observed
  <2>2. /\ Rules!AfterSuccess(a) \in Rules!AlertStates
        /\ a.state \in {"ok", "firing", "resolved"} =>
             /\ Rules!AfterSuccess(a) \in {"ok", "firing", "resolved"}
             /\ a.state # "firing" \/ a.succs >= 1 => Rules!AfterSuccess(a) # "firing"
    BY <1>1, <1>3 DEF Rules!AfterSuccess, Rules!AlertStates
  <2>3. b \in Rules!Alerts
    <3>1. b.state \in Rules!AlertStates /\ b.fails \in 0 .. 1 /\ b.succs \in 0 .. 2
      BY <2>1, <2>2, <2>5
    <3> QED BY <1>6, <3>1, AlertOf
  <2>4. a.state \in {"ok", "firing", "resolved"} =>
           /\ b.state \in {"ok", "firing", "resolved"}
           /\ a.state # "firing" \/ a.succs >= 1 => b.state # "firing"
    BY <2>1, <2>2
  <2>6. b.succs >= 1
    BY <2>5
  <2> QED BY <1>4, <2>3, <2>4, <2>6
<1>5. CASE ~success
  <2>1. b.state = Rules!AfterFailure(a, quiet)
    BY <1>5 DEF Rules!Observed
  <2>2. Rules!AfterFailure(a, quiet) \in Rules!AlertStates
    BY <1>1 DEF Rules!AfterFailure, Rules!AlertStates
  <2>3. b \in Rules!Alerts
    <3>1. b.fails = 1 /\ b.succs = 0
      BY <1>2, <1>5 DEF Rules!Observed
    <3>2. b.state \in Rules!AlertStates /\ b.fails \in 0 .. 1 /\ b.succs \in 0 .. 2
      BY <2>1, <2>2, <3>1
    <3> QED BY <1>6, <3>2, AlertOf
  <2>4. a.state \in {"ok", "firing", "resolved"} => Rules!AfterFailure(a, quiet) = "firing"
    BY <1>2 DEF Rules!AfterFailure, Rules!Known, Rules!Reached
  <2> QED BY <1>5, <2>1, <2>3, <2>4
<1> QED BY <1>4, <1>5

LEMMA StoreQuota ==
  ASSUME NEW q, NEW n, Stores(q, n)
  PROVE  Quota' /\ alerts' \in [Kinds -> Rules!Alerts]
<1>1. /\ SamplesInv /\ q.seen \in Seen /\ q.seen.active \in BOOLEAN
      /\ alerts \in [Kinds -> Rules!Alerts]
      /\ n.period = q.seen.period /\ n.period \in Nat
      /\ samples' = samples \cup {n} /\ n \notin samples /\ \A s \in samples : s.at < n.at
      /\ n.at \in Nat /\ \A s \in samples : s.at \in Nat
      /\ alerts' = [quota   |-> Observe("quota", Below(q.seen.period)),
                    runtime |-> Observe("runtime", q.seen.active),
                    gap     |-> Observe("gap", TRUE)]
  BY StoreFacts, SampleTypes DEF Stores, StoreSample, SamplesInv, SamplesTypeOK, Seen
<1>2. /\ "quota" \in Kinds /\ "runtime" \in Kinds /\ "gap" \in Kinds
      /\ alerts.quota \in Rules!Alerts /\ alerts.runtime \in Rules!Alerts
      /\ alerts.gap \in Rules!Alerts
  BY <1>1 DEF Kinds
<1>3. Below(q.seen.period) \in BOOLEAN
  BY DEF Below
<1>4. PICK a, b, c : /\ a = Observe("quota", Below(q.seen.period))
                     /\ b = Observe("runtime", q.seen.active)
                     /\ c = Observe("gap", TRUE)
  OBVIOUS
<1>5. a \in Rules!Alerts /\ b \in Rules!Alerts /\ c \in Rules!Alerts
  <2>1. a = Rules!Observed(alerts.quota, Below(q.seen.period), FALSE)
    BY <1>4 DEF Observe
  <2>2. b = Rules!Observed(alerts.runtime, q.seen.active, FALSE)
    BY <1>4 DEF Observe
  <2>3. c = Rules!Observed(alerts.gap, TRUE, FALSE)
    BY <1>4 DEF Observe
  <2>4. a \in Rules!Alerts
    BY <1>2, <1>3, <2>1, ObservedAlert
  <2>5. b \in Rules!Alerts
    BY <1>1, <1>2, <2>2, ObservedAlert
  <2>6. c \in Rules!Alerts
    BY <1>2, <2>3, ObservedAlert
  <2> QED BY <2>4, <2>5, <2>6
<1>6. alerts' = [quota |-> a, runtime |-> b, gap |-> c]
  BY <1>1, <1>4
<1>7. alerts' \in [Kinds -> Rules!Alerts]
  BY <1>5, <1>6 DEF Kinds
<1>8. alerts'.quota = a
  BY <1>6
<1>9. alerts.quota.state \in {"ok", "firing", "resolved"}
  BY <1>1 DEF SamplesInv, Quota
<1>10. /\ ~Below(n.period) => a.state = "firing"
       /\ Below(n.period) => /\ a.state \in {"ok", "firing", "resolved"} /\ a.succs >= 1
                             /\ alerts.quota.state # "firing" \/ alerts.quota.succs >= 1
                                  => a.state # "firing"
  BY <1>1, <1>2, <1>3, <1>4, <1>9, ObservedAlert DEF Observe
<1>11. /\ n.period >= Threshold => ~Below(n.period)
       /\ n.period < Level => Below(n.period)
  BY <1>1, SampleConstants DEF Below
<1>12. ASSUME NEW p \in samples', p.at < n.at, \A o \in samples' : o.at < n.at => o.at <= p.at,
              n.period < Level, p.period < Level
       PROVE  a.state # "firing"
  <2>1. p \in samples /\ \A o \in samples : o.at <= p.at
    <3>1. p # n
      BY <1>1, <1>12
    <3>2. ASSUME NEW o \in samples PROVE o.at <= p.at
      <4>1. o \in samples' /\ o.at < n.at
        BY <1>1
      <4> QED BY <1>12, <4>1
    <3> QED BY <1>1, <1>12, <3>1, <3>2
  <2>2. alerts.quota.state # "firing" \/ alerts.quota.succs >= 1
    BY <1>1, <1>12, <2>1 DEF SamplesInv, Quota, IsLast
  <2> QED BY <1>10, <1>11, <1>12, <2>2
<1>13. \A s : IsLast(s)' => s = n
  BY StoreOrdered
<1> QED BY <1>7, <1>8, <1>10, <1>11, <1>12, <1>13 DEF Quota
-----------------------------------------------------------------------------
(* What a heartbeat does.                                                    *)

StoreTypes ==
  /\ samples \subseteq Samples /\ IsFiniteSet(samples)
  /\ hourly \in [Buckets(Hour) -> RollupRow \cup {None}]
  /\ daily \in [Buckets(Day) -> RollupRow \cup {None}]
  /\ {lastSampleAt, first, latest, heard} \subseteq Nat \cup {None}
  /\ alerts \in [Kinds -> Rules!Alerts]
  /\ noted \subseteq Notes

LEMMA StoreTypesHold ==
  ASSUME NEW q, NEW n, Stores(q, n), heard' \in Nat \cup {None}
  PROVE  StoreTypes' /\ noted \subseteq noted'
<1>1. /\ SamplesTypeOK /\ n \in Samples /\ samples' = samples \cup {n}
      /\ latest' = n.total /\ n.total \in Nat /\ q.seen.total \in Nat
      /\ first' = IF first = None THEN q.seen.total ELSE first
      /\ lastSampleAt' = q.at /\ q.at \in Nat
      /\ \/ Noted("misled", TRUE)
         \/ Noted("forgotten", Previous = None /\ first # None)
  BY StoreFacts DEF Stores, StoreSample, SamplesInv
<1>2. samples' \subseteq Samples /\ IsFiniteSet(samples')
  BY <1>1, FS_AddElement DEF SamplesTypeOK
<1>3. /\ hourly' \in [Buckets(Hour) -> RollupRow \cup {None}]
      /\ daily' \in [Buckets(Day) -> RollupRow \cup {None}]
  <2>1. PICK h, d : h = q.at \div Hour /\ d = q.at \div Day
    OBVIOUS
  <2> QED BY <2>1, StoreRows
<1>4. noted' \subseteq Notes /\ noted \subseteq noted'
  BY <1>1 DEF Noted, Notes, SamplesTypeOK
<1>5. alerts' \in [Kinds -> Rules!Alerts]
  BY StoreQuota
<1>6. {lastSampleAt', first', latest', heard'} \subseteq Nat \cup {None}
  BY <1>1 DEF SamplesTypeOK
<1> QED BY <1>2, <1>3, <1>4, <1>5, <1>6 DEF StoreTypes, Buckets

LEMMA ReportGapFacts ==
  ASSUME SamplesInv, ReportGap, heard' \in Nat \cup {None}
  PROVE  StoreTypes' /\ alerts'.quota = alerts.quota
<1>1. /\ SamplesTypeOK /\ alerts \in [Kinds -> Rules!Alerts]
      /\ UNCHANGED <<samples, hourly, daily, lastSampleAt, first, latest, noted>>
  BY DEF SamplesInv, SamplesTypeOK, ReportGap
<1>2. PICK b, c : b = Observe("runtime", FALSE) /\ c = Observe("gap", FALSE)
  OBVIOUS
<1>3. /\ "runtime" \in Kinds /\ "gap" \in Kinds
      /\ alerts.runtime \in Rules!Alerts /\ alerts.gap \in Rules!Alerts
  BY <1>1 DEF Kinds
<1>4. b \in Rules!Alerts /\ c \in Rules!Alerts
  BY <1>2, <1>3, ObservedAlert DEF Observe
<1>5. alerts' = [alerts EXCEPT !.runtime = b, !.gap = c]
  BY <1>2 DEF ReportGap
<1>6. alerts' \in [Kinds -> Rules!Alerts] /\ alerts'.quota = alerts.quota
  BY <1>1, <1>4, <1>5 DEF Kinds
<1> QED BY <1>1, <1>6 DEF StoreTypes, SamplesTypeOK, Buckets

\* A request is stored, or changes nothing that is stored.
LEMMA IngestStored ==
  ASSUME NEW q, SamplesInv, q \in Requests, q.at \in 0 .. MaxTicks, Recent(q.at),
         Ingest(q), UNCHANGED time
  PROVE  /\ StoreTypes' /\ noted \subseteq noted'
         /\ Ordered' /\ Whole' /\ Rooted' /\ Hours' /\ Days' /\ Quota'
         /\ \/ \E n : Stores(q, n) /\ (q.before => "misled" \in noted')
            \/ UNCHANGED <<samples, hourly, daily, first, latest, noted>>
<1>1. heard' \in Nat \cup {None}
  BY SampleConstants DEF Ingest
<1>2. CASE enabled /\ q.seen # None /\ IsNew(q.at)
  <2>1. StoreSample(q) /\ q.seen \in Seen
    BY <1>2 DEF Ingest, Requests
  <2>2. PICK n : n = SampleOf(q)
    OBVIOUS
  <2>3. Stores(q, n)
    BY <1>2, <2>1, <2>2 DEF Stores
  <2>4. q.before => "misled" \in noted'
    BY <2>1 DEF StoreSample, Noted
  <2>5. StoreTypes' /\ noted \subseteq noted'
    BY <1>1, <2>3, StoreTypesHold
  <2>6. Ordered' /\ Whole' /\ Rooted' /\ Hours' /\ Days' /\ Quota'
    BY <2>3, StoreOrdered, StoreWhole, StoreRooted, StoreHours, StoreDays, StoreQuota
  <2> QED BY <2>3, <2>4, <2>5, <2>6
<1>3. CASE ~(enabled /\ q.seen # None /\ IsNew(q.at))
  <2>1. ReportGap \/ UNCHANGED <<storeVars, noted>>
    BY <1>3 DEF Ingest
  <2>2. UNCHANGED <<samples, hourly, daily, first, latest, noted>>
    BY <2>1 DEF ReportGap
  <2>3. StoreTypes' /\ alerts'.quota = alerts.quota
    BY <1>1, <2>1, ReportGapFacts DEF SamplesInv, SamplesTypeOK, StoreTypes, Buckets
  <2>4. Ordered' /\ Whole' /\ Rooted' /\ Hours' /\ Days' /\ Quota'
    BY <2>2, <2>3, StoreKept
  <2> QED BY <2>2, <2>3, <2>4
<1> QED BY <1>2, <1>3
\* Nothing was counted twice, if what was stored agrees with what has passed.
LEMMA IngestCounted ==
  ASSUME NEW q, SamplesInv, q \in Requests, q.at \in 0 .. MaxTicks, Recent(q.at),
         Ingest(q), UNCHANGED <<time, counter, passed>>, SamplesTypeOK', Counted,
         \/ held' = None
         \/ held' = held /\ ~held.before /\ held.at <= q.at
         \/ held'.before,
         IsNew(q.at) /\ q.seen # None =>
           /\ samples # {} => Shown + q.seen.total <= passed + latest
           /\ counter # None => Shown + counter.total <= passed + q.seen.total
  PROVE  Counted'
<1>1. SamplesTypeOK /\ passed \in Nat /\ (counter # None => counter.total \in Nat)
  BY SampleTypes DEF SamplesInv
<1>2. CASE UNCHANGED <<samples, hourly, daily, first, latest, noted>>
  <2>1. held' = held \/ held' = None \/ held'.before
    OBVIOUS
  <2>2. \/ counter' = None /\ passed <= passed'
        \/ /\ counter # None /\ counter' # None /\ passed <= passed'
           /\ counter'.total + passed = counter.total + passed'
    BY <1>1
  <2> QED BY <1>2, <2>1, <2>2, CountedKept
<1>3. ASSUME NEW n, Stores(q, n) PROVE Counted'
  <2>1. IsNew(q.at) /\ q.seen # None
    BY <1>3, SamplesAssumption DEF Stores
  <2>2. /\ Shown' <= passed'
        /\ counter' # None => Shown' + counter'.total <= passed' + latest'
    BY <1>3, <2>1, StoreCounted
  <2>3. held' # None /\ ~held'.before => ~IsNew(held.at)'
    <3>1. SUFFICES ASSUME held' # None, ~held'.before, IsNew(held.at)' PROVE FALSE
      OBVIOUS
    <3>2. held' = held /\ held.at <= q.at /\ held # None
      BY <3>1
    <3>3. n \in samples' /\ n.at = q.at /\ n.at \in Nat /\ held.at \in Nat
      BY <1>1, <1>3, <3>2, StoreFacts, SampleTypes
    <3>4. held.at > n.at
      BY <3>1, <3>2, <3>3 DEF IsNew
    <3> QED BY <3>2, <3>3, <3>4
  <2> QED BY <2>2, <2>3 DEF Counted
<1> QED BY <1>2, <1>3, IngestStored

LEMMA SendSamplesInv == SamplesInv /\ SendSamples => SamplesInv'
<1> SUFFICES ASSUME SamplesInv, SendSamples PROVE SamplesInv'
  OBVIOUS
<1>1. PICK state \in States : /\ IF state = "active" THEN UNCHANGED unusual ELSE Event
                              /\ Ingest(SampleRequest(state))
  BY DEF SendSamples
<1>2. PICK q : q = SampleRequest(state)
  OBVIOUS
<1>3. /\ ~beaten /\ beaten' = TRUE
      /\ UNCHANGED <<time, clock, held, helperVars, policyVars>>
  BY DEF SendSamples, Beat
<1>4. /\ SamplesTypeOK /\ OnTime /\ time \in Nat /\ clock \in 0 .. MaxTicks
      /\ samples # {} => latest # None
  BY SampleTypes DEF SamplesInv, Ordered
<1>5. /\ q \in Requests /\ q.at = clock /\ ~q.before
      /\ q.seen # None => counter # None /\ q.seen.total = counter.total
  BY <1>2, RequestFacts
<1>6. Ingest(q) /\ q.at \in 0 .. MaxTicks /\ Recent(q.at)
  BY <1>1, <1>2, <1>4, <1>5 DEF OnTime
<1>7. /\ StoreTypes' /\ noted \subseteq noted'
      /\ Ordered' /\ Whole' /\ Rooted' /\ Hours' /\ Days' /\ Quota'
  BY <1>3, <1>5, <1>6, IngestStored
<1>8. unusual' \in 0 .. MaxEvents
  BY <1>1, <1>4, SampleConstants DEF Event, SamplesTypeOK
<1>9. SamplesTypeOK'
  BY <1>3, <1>4, <1>7, <1>8 DEF SamplesTypeOK, StoreTypes, Buckets
<1>10. Marked' /\ OnTime'
  BY <1>3, <1>4 DEF SamplesInv, Marked, OnTime, Recent
<1>11. "misled" \notin noted' => Counted'
  <2> SUFFICES ASSUME "misled" \notin noted' PROVE Counted'
    OBVIOUS
  <2>1. Counted
    BY <1>7 DEF SamplesInv
  <2>2. \/ held' = None
        \/ held' = held /\ ~held.before /\ held.at <= q.at
        \/ held'.before
    BY <1>3, <1>4, <1>5, SampleTypes DEF OnTime
  <2>3. Shown \in Nat /\ passed \in Nat /\ (counter # None => counter.total \in Nat)
        /\ (latest # None => latest \in Nat)
    BY <1>4, ShownType, SampleTypes
  <2>4. q.seen # None => /\ samples # {} => Shown + q.seen.total <= passed + latest
                         /\ counter # None => Shown + counter.total <= passed + q.seen.total
    BY <1>4, <1>5, <2>1, <2>3 DEF Counted
  <2> QED BY <1>3, <1>5, <1>6, <1>9, <2>1, <2>2, <2>4, IngestCounted
<1> QED BY <1>7, <1>9, <1>10, <1>11 DEF SamplesInv

LEMMA HandleHeldInv == SamplesInv /\ HandleHeld => SamplesInv'
<1> SUFFICES ASSUME SamplesInv, HandleHeld PROVE SamplesInv'
  OBVIOUS
<1>1. PICK q : q = held
  OBVIOUS
<1>2. /\ q # None /\ Recent(q.at) /\ held' = None /\ Ingest(q)
      /\ UNCHANGED <<clockVars, helperVars, policyVars, unusual>>
  BY <1>1 DEF HandleHeld
<1>3. SamplesTypeOK /\ OnTime /\ q \in Requests /\ q.at \in 0 .. MaxTicks
  BY <1>1, <1>2, SampleTypes DEF SamplesInv, OnTime
<1>4. /\ StoreTypes' /\ noted \subseteq noted'
      /\ Ordered' /\ Whole' /\ Rooted' /\ Hours' /\ Days' /\ Quota'
      /\ \/ \E n : Stores(q, n) /\ (q.before => "misled" \in noted')
         \/ UNCHANGED <<samples, hourly, daily, first, latest, noted>>
  BY <1>2, <1>3, IngestStored
<1>5. SamplesTypeOK'
  BY <1>2, <1>3, <1>4 DEF SamplesTypeOK, StoreTypes, Buckets
<1>6. Marked' /\ OnTime'
  BY <1>2, <1>3 DEF SamplesInv, Marked, OnTime, Recent
<1>7. "misled" \notin noted' => Counted'
  <2> SUFFICES ASSUME "misled" \notin noted' PROVE Counted'
    OBVIOUS
  <2>1. Counted
    BY <1>4 DEF SamplesInv
  <2>2. CASE UNCHANGED <<samples, hourly, daily, first, latest, noted>>
    <3>1. passed \in Nat /\ (counter # None => counter.total \in Nat)
      BY <1>3, SampleTypes
    <3> QED BY <1>2, <1>5, <2>1, <2>2, <3>1, CountedKept
  <2>3. CASE \E n : Stores(q, n) /\ (q.before => "misled" \in noted')
    <3>1. IsNew(q.at) /\ q.seen # None => 
            /\ samples # {} => Shown + q.seen.total <= passed + latest
            /\ counter # None => Shown + counter.total <= passed + q.seen.total
      BY <1>1, <1>2, <2>1, <2>3 DEF Counted
    <3> QED BY <1>2, <1>3, <1>5, <2>1, <3>1, IngestCounted
  <2> QED BY <1>4, <2>2, <2>3
<1> QED BY <1>4, <1>5, <1>6, <1>7 DEF SamplesInv
-----------------------------------------------------------------------------
(* Samples and hours are pruned, the oldest first.                           *)

LEMMA PruneFacts ==
  ASSUME SamplesInv, Prune
  PROVE  /\ samples' \subseteq samples
         /\ \A o \in samples : o \in samples' <=> o.at >= time - RawRetention
         /\ \A o \in samples : \A s \in samples' : s.at <= o.at => o \in samples'
         /\ \A o \in samples \ samples' : \A s \in samples' : o.at < s.at
         /\ \A s \in samples : s.at \in Nat
         /\ time \in Nat /\ RawRetention \in Nat
BY SampleTypes, SampleConstants DEF Prune, SamplesInv

\* What is shown of a sample stays, or the sample has become the first.
LEMMA PrunePoint ==
  ASSUME SamplesInv, Prune, NEW s \in samples'
  PROVE  /\ Older(s)' = {} => Point(s)' = 0
         /\ Older(s)' # {} => Point(s)' = Point(s)
<1>1. Older(s)' = {} => Point(s)' = 0
  BY DEF Point
<1>2. ASSUME Older(s)' # {} PROVE Point(s)' = Point(s)
  <2>1. Older(s)' \subseteq Older(s) /\ Older(s) \subseteq samples
    BY PruneFacts DEF Older
  <2>2. PICK p \in Older(s) : \A o \in Older(s) : o.at <= p.at
    BY <1>2, <2>1, PruneFacts DEF SamplesInv, Ordered
  <2>3. p \in Older(s)'
    <3>1. PICK o \in Older(s)' : TRUE
      BY <1>2
    <3>2. o \in samples' /\ o.at <= p.at
      BY <2>1, <2>2, <3>1 DEF Older
    <3>3. p \in samples'
      BY <2>1, <2>2, <3>2, PruneFacts
    <3> QED BY <2>2, <3>3 DEF Older
  <2>4. Newest(Older(s)) = p
    BY <2>1, <2>2, NewestIs, PruneFacts DEF SamplesInv, Ordered
  <2>5. Newest(Older(s)') = p
    BY <2>1, <2>2, <2>3, NewestIs, PruneFacts DEF SamplesInv, Ordered
  <2>6. Newest(Older(s))' = p
    BY <2>5 DEF Newest
  <2>7. Older(s) # {}
    BY <2>2
  <2> QED BY <1>2, <2>4, <2>6, <2>7 DEF Point
<1> QED BY <1>1, <1>2

LEMMA PruneOrdered == SamplesInv /\ Prune => Ordered'
<1> SUFFICES ASSUME SamplesInv, Prune PROVE Ordered'
  OBVIOUS
<1>1. ASSUME NEW s \in samples', Older(s)' # {}
      PROVE  \E p \in Older(s)' : \A o \in Older(s)' : o.at <= p.at
  <2>1. Older(s)' \subseteq Older(s) /\ Older(s) \subseteq samples
    BY PruneFacts DEF Older
  <2>2. PICK p \in Older(s) : \A o \in Older(s) : o.at <= p.at
    BY <1>1, <2>1, PruneFacts DEF SamplesInv, Ordered
  <2>3. PICK o \in Older(s)' : TRUE
    BY <1>1
  <2>4. p \in samples'
    BY <2>1, <2>2, <2>3, PruneFacts DEF Older
  <2> QED BY <2>1, <2>2, <2>4 DEF Older
<1>2. \A s, o \in samples' : s.at = o.at => s = o
  BY PruneFacts DEF SamplesInv, Ordered
<1>3. ASSUME samples' # {} PROVE \E s \in samples' : IsLast(s)' /\ s.total = latest'
  <2>1. PICK s \in samples : IsLast(s) /\ s.total = latest
    BY <1>3, PruneFacts DEF SamplesInv, Ordered
  <2>2. s \in samples'
    BY <1>3, <2>1, PruneFacts DEF IsLast
  <2> QED BY <2>1, <2>2, PruneFacts DEF IsLast, Prune
<1>4. (first' = None <=> latest' = None) /\ (samples' # {} => latest' # None)
  BY PruneFacts DEF SamplesInv, Ordered, Prune
<1> QED BY <1>1, <1>2, <1>3, <1>4 DEF Ordered

LEMMA PruneHour ==
  ASSUME SamplesInv, Prune, NEW b \in Buckets(Hour)
  PROVE  /\ HourBytes(b)' \in {0, HourBytes(b)}
         /\ b * Hour >= time - HourlyRetention => HourBytes(b)' = HourBytes(b)
<1>1. hourly'[b] = IF b * Hour < time - HourlyRetention THEN None ELSE hourly[b]
  BY DEF Prune
<1>2. b * Hour \in Nat /\ time \in Nat /\ HourlyRetention \in Nat
  BY HourStart, SampleTypes, SampleConstants DEF SamplesInv
<1>3. b * Hour >= time - HourlyRetention => hourly'[b] = hourly[b]
  BY <1>1, <1>2
<1>4. hourly'[b] \in {None, hourly[b]}
  BY <1>1
<1> QED BY <1>3, <1>4 DEF HourBytes, Bytes

LEMMA PruneRooted == SamplesInv /\ Prune => Rooted'
<1> SUFFICES ASSUME SamplesInv, Prune, NEW b \in Buckets(Hour), HourBytes(b)' > 0
             PROVE  b * Hour < time - RawRetention \/ \E s \in samples' : b * Hour <= s.at
  BY DEF Rooted, Buckets, Prune
<1>1. HourBytes(b) > 0
  BY PruneHour
<1>2. CASE b * Hour < time - RawRetention
  BY <1>2
<1>3. ASSUME NEW s \in samples, b * Hour <= s.at
      PROVE  b * Hour < time - RawRetention \/ s \in samples'
  BY <1>3, PruneFacts, HourStart
<1> QED BY <1>1, <1>2, <1>3 DEF SamplesInv, Rooted

LEMMA PruneHours == SamplesInv /\ Prune => Hours'
<1> SUFFICES ASSUME SamplesInv, Prune, NEW b \in Buckets(Hour), b * Hour >= time - HourlyRetention
             PROVE  /\ RawBytes(b)' <= HourBytes(b)'
                    /\ (\E s \in samples' : s.at < b * Hour) => RawBytes(b)' = HourBytes(b)'
  BY DEF Hours, Buckets, Prune
<1>1. /\ HourBytes(b)' = HourBytes(b) /\ HourBytes(b) \in Nat
      /\ RawBytes(b) <= HourBytes(b)
      /\ (\E s \in samples : s.at < b * Hour) => RawBytes(b) = HourBytes(b)
  BY PruneHour, BytesType DEF SamplesInv, Hours
<1> DEFINE T == {s \in samples' : s.at \div Hour = b}
           f == [s \in InHour(b) |-> Point(s)]
           g == [s \in T |-> Point(s)']
<1>2. T \subseteq InHour(b) /\ T \subseteq samples'
  BY PruneFacts DEF InHour
<1>3. /\ IsFiniteSet(InHour(b)) /\ f \in [InHour(b) -> Nat] /\ RawBytes(b) = Total(f)
      /\ RawBytes(b) \in Nat
  BY RawType
<1>4. RawBytes(b)' = Total(g)
  BY DEF RawBytes
<1>5. \A s \in T : g[s] \in Nat /\ g[s] <= f[s]
  <2> SUFFICES ASSUME NEW s \in T PROVE g[s] \in Nat /\ g[s] <= f[s]
    OBVIOUS
  <2>1. f[s] = Point(s) /\ f[s] \in Nat /\ g[s] = Point(s)'
    BY <1>2, <1>3
  <2>2. Point(s)' = 0 \/ Point(s)' = Point(s)
    BY <1>2, PrunePoint
  <2> HIDE DEF f, g
  <2> QED BY <2>1, <2>2
<1>6. Total(g) <= Total(f) /\ Total(g) \in Nat
  <2>1. g \in [T -> Nat] /\ \A s \in T : g[s] <= f[s]
    BY <1>5
  <2> HIDE DEF f, g, T
  <2> QED BY <1>2, <1>3, <2>1, TotalLess, TotalType, FS_Subset
<1>7. ASSUME NEW e \in samples', e.at < b * Hour PROVE g = f
  <2>1. ASSUME NEW s \in InHour(b) PROVE s \in T /\ Point(s)' = Point(s)
    <3>1. s \in samples /\ s.at \in Nat /\ s.at \div Hour = b
      BY PruneFacts DEF InHour
    <3>2. e.at \in Nat /\ e.at < s.at
      <4>1. b * Hour <= s.at /\ b * Hour \in Nat
        BY <3>1, HourStart, Division, SampleConstants
      <4>2. e.at \in Nat
        BY PruneFacts
      <4> QED BY <1>7, <3>1, <4>1, <4>2
    <3>3. s \in samples'
      BY <3>1, <3>2, PruneFacts
    <3>4. e \in Older(s)'
      BY <3>2 DEF Older
    <3> QED BY <3>1, <3>3, <3>4, PrunePoint
  <2>2. T = InHour(b)
    BY <1>2, <2>1
  <2> QED BY <2>1, <2>2
<1>8. (\E s \in samples' : s.at < b * Hour) => RawBytes(b)' = RawBytes(b) /\ \E s \in samples : s.at < b * Hour
  BY <1>3, <1>4, <1>7, PruneFacts
<1> HIDE DEF f, g, T
<1> QED BY <1>1, <1>3, <1>4, <1>6, <1>8

LEMMA PruneDays == SamplesInv /\ Prune => Days'
<1> SUFFICES ASSUME SamplesInv, Prune, NEW d \in Buckets(Day), d * Day >= time - HourlyRetention
             PROVE  DayBytes(d)' = Total([b \in HoursOf(d) |-> HourBytes(b)'])
  BY DEF Days, Buckets, HoursOf, Prune
<1>1. DayBytes(d)' = DayBytes(d) /\ DayBytes(d) = Total([b \in HoursOf(d) |-> HourBytes(b)])
  BY DEF SamplesInv, Days, DayBytes, Prune, Bytes
<1>2. ASSUME NEW b \in HoursOf(d) PROVE HourBytes(b)' = HourBytes(b)
  <2>1. b \in Buckets(Hour) /\ (b * Hour) \div Day = d
    BY DEF HoursOf
  <2>2. b * Hour \in Nat /\ d * Day <= b * Hour /\ d * Day \in Nat
    <3>1. b * Hour \in Nat
      BY <2>1, HourStart
    <3>2. d * Day <= b * Hour
      BY <2>1, <3>1, Division, SampleConstants
    <3>3. d \in Nat
      BY <2>1, <3>1, Division, SampleConstants
    <3> QED BY <3>1, <3>2, <3>3, Product, SampleConstants
  <2>3. time \in Nat /\ HourlyRetention \in Nat
    BY SampleTypes, SampleConstants DEF SamplesInv
  <2>4. b * Hour >= time - HourlyRetention
    BY <2>2, <2>3
  <2> QED BY <2>1, <2>4, PruneHour
<1>3. [b \in HoursOf(d) |-> HourBytes(b)'] = [b \in HoursOf(d) |-> HourBytes(b)]
  BY <1>2
<1> QED BY <1>1, <1>3

LEMMA PruneQuota == SamplesInv /\ Prune => Quota'
<1> SUFFICES ASSUME SamplesInv, Prune PROVE Quota'
  OBVIOUS
<1>1. alerts' = alerts
  BY DEF Prune
<1>2. ASSUME NEW s \in samples', IsLast(s)' PROVE s \in samples /\ IsLast(s)
  BY <1>2, PruneFacts DEF IsLast
<1>3. ASSUME NEW s \in samples', NEW p \in samples', p.at < s.at,
             \A o \in samples' : o.at < s.at => o.at <= p.at
      PROVE  p \in samples /\ \A o \in samples : o.at < s.at => o.at <= p.at
  BY <1>3, PruneFacts
<1>4. ASSUME NEW s \in samples', IsLast(s)'
      PROVE  /\ s.period >= Threshold => alerts.quota.state = "firing"
             /\ s.period < Level => alerts.quota.state # "firing" \/ alerts.quota.succs >= 1
  BY <1>2, <1>4 DEF SamplesInv, Quota
<1>5. ASSUME NEW s \in samples', IsLast(s)', NEW p \in samples', p.at < s.at,
             \A o \in samples' : o.at < s.at => o.at <= p.at, s.period < Level, p.period < Level
      PROVE  alerts.quota.state # "firing"
  <2>1. s \in samples /\ IsLast(s)
    BY <1>2, <1>5
  <2>2. p \in samples /\ \A o \in samples : o.at < s.at => o.at <= p.at
    BY <1>3, <1>5
  <2> QED BY <1>5, <2>1, <2>2 DEF SamplesInv, Quota
<1>6. alerts.quota.state \in {"ok", "firing", "resolved"}
  BY DEF SamplesInv, Quota
<1> QED BY <1>1, <1>4, <1>5, <1>6 DEF Quota
LEMMA PruneInv == SamplesInv /\ Prune => SamplesInv'
<1> SUFFICES ASSUME SamplesInv, Prune PROVE SamplesInv'
  OBVIOUS
<1>1. /\ UNCHANGED <<clockVars, held, helperVars, policyVars, daily, lastSampleAt, alerts,
                     first, latest, unusual, noted, heard>>
      /\ hourly' = [b \in Buckets(Hour) |->
                     IF b * Hour < time - HourlyRetention THEN None ELSE hourly[b]]
  BY DEF Prune
<1>2. SamplesTypeOK /\ time \in Nat
  BY SampleTypes DEF SamplesInv
<1>3. SamplesTypeOK'
  <2>1. samples' \subseteq Samples /\ IsFiniteSet(samples')
    BY <1>2, PruneFacts, FS_Subset DEF SamplesTypeOK
  <2>2. hourly' \in [Buckets(Hour) -> RollupRow \cup {None}]
    BY <1>1, <1>2 DEF SamplesTypeOK
  <2> QED BY <1>1, <1>2, <2>1, <2>2 DEF SamplesTypeOK, Buckets
<1>4. Marked' /\ OnTime'
  BY <1>1 DEF SamplesInv, Marked, OnTime, Recent
<1>5. Shown' = Shown
  <2>1. \A b : DayBytes(b)' = DayBytes(b)
    BY <1>1 DEF DayBytes, Bytes
  <2> QED BY <2>1 DEF Shown
<1>6. Whole'
  BY <1>1, <1>5 DEF SamplesInv, Whole, Uninterrupted
<1>7. "misled" \notin noted' => Counted'
  <2> SUFFICES ASSUME "misled" \notin noted PROVE Counted'
    BY <1>1
  <2>1. Counted
    BY DEF SamplesInv
  <2>2. ASSUME held # None, Recent(held.at), IsNew(held.at)' PROVE IsNew(held.at)
    <3>1. held.at \in Nat /\ held' = held
      BY <1>1, <1>2, <2>2, SampleTypes
    <3>2. ASSUME NEW s \in samples PROVE held.at > s.at
      <4>1. CASE s \in samples'
        BY <2>2, <3>1, <4>1 DEF IsNew
      <4>2. CASE s \notin samples'
        BY <2>2, <3>1, <4>2, PruneFacts DEF Recent
      <4> QED BY <4>1, <4>2
    <3> QED BY <3>2 DEF IsNew
  <2>3. samples' # {} => samples # {}
    BY PruneFacts
  <2> QED BY <1>1, <1>5, <2>1, <2>2, <2>3 DEF Counted, Recent
<1> QED BY <1>3, <1>4, <1>6, <1>7, PruneOrdered, PruneRooted, PruneHours, PruneDays, PruneQuota
    DEF SamplesInv

-----------------------------------------------------------------------------
(* The theorems.                                                             *)

LEMMA SamplesStart == SamplesInit => SamplesInv
<1> SUFFICES ASSUME SamplesInit PROVE SamplesInv
  OBVIOUS
<1>1. /\ time = 0 /\ clock = 0 /\ beaten = FALSE /\ held = None /\ counter = NewCounter(1)
      /\ todo = <<>> /\ results = <<>> /\ enabled = TRUE /\ policyGeneration = 1
      /\ samples = {} /\ hourly = [b \in Buckets(Hour) |-> None]
      /\ daily = [b \in Buckets(Day) |-> None] /\ lastSampleAt = None
      /\ alerts = [k \in Kinds |-> Rules!NewAlert] /\ unusual = 0
      /\ passed = 0 /\ first = None /\ latest = None /\ heard = None /\ noted = {}
  BY DEF SamplesInit
<1>2. Rules!NewAlert \in Rules!Alerts /\ Rules!NewAlert.state = "ok"
  BY DEF Rules!NewAlert, Rules!Alerts, Rules!AlertStates
<1>3. NewCounter(1) \in Counters /\ NewCounter(1).total = 0 /\ NewCounter(1).mark = 0
  BY DEF NewCounter, Counters
<1>4. SamplesTypeOK
  <2>1. alerts \in [Kinds -> Rules!Alerts]
    BY <1>1, <1>2
  <2>2. todo \in Seq(Tasked) /\ results \in Seq(Nat) /\ IsFiniteSet(samples)
    BY <1>1, FS_EmptySet
  <2>3. /\ hourly \in [Buckets(Hour) -> RollupRow \cup {None}]
        /\ daily \in [Buckets(Day) -> RollupRow \cup {None}]
    BY <1>1
  <2>4. /\ time \in 0 .. MaxTicks /\ clock \in 0 .. MaxTicks /\ unusual \in 0 .. MaxEvents
        /\ counter \in Counters /\ passed \in Nat
    BY <1>1, <1>3, SampleConstants
  <2> QED BY <1>1, <2>1, <2>2, <2>3, <2>4 DEF SamplesTypeOK
<1>5. Marked /\ Ordered
  BY <1>1, <1>3 DEF Marked, Ordered
<1>6. OnTime
  BY <1>1, SampleConstants DEF OnTime, Recent
<1>7. /\ \A b \in Buckets(Hour) : HourBytes(b) = 0
      /\ \A b \in Buckets(Day) : DayBytes(b) = 0
  BY <1>1 DEF HourBytes, DayBytes, Bytes
<1>8. Shown = 0
  <2>1. [b \in Buckets(Day) |-> DayBytes(b)] \in [Buckets(Day) -> Nat]
    BY <1>7
  <2> QED BY <1>7, <2>1, TotalNone DEF Shown
<1>9. Counted /\ Whole
  BY <1>1, <1>8 DEF Counted, Whole, Uninterrupted
<1>10. Rooted
  BY <1>7 DEF Rooted
<1>11. \A b : RawBytes(b) = 0
  <2> SUFFICES ASSUME NEW b PROVE RawBytes(b) = 0
    OBVIOUS
  <2>1. /\ [s \in {s \in samples : s.at \div Hour = b} |-> Point(s)]
             \in [{s \in samples : s.at \div Hour = b} -> Nat]
        /\ {s \in samples : s.at \div Hour = b} = {}
    BY <1>1
  <2>2. Total([s \in {s \in samples : s.at \div Hour = b} |-> Point(s)]) = 0
    BY <2>1, TotalNone
  <2> QED BY <2>2 DEF RawBytes
<1>12. Hours
  BY <1>7, <1>11 DEF Hours
<1>13. Days
  <2> SUFFICES ASSUME NEW d \in Buckets(Day)
               PROVE  DayBytes(d) = Total([b \in HoursOf(d) |-> HourBytes(b)])
    BY DEF Days
  <2>1. [b \in HoursOf(d) |-> HourBytes(b)] \in [HoursOf(d) -> Nat]
    BY <1>7 DEF HoursOf
  <2>2. Total([b \in HoursOf(d) |-> HourBytes(b)]) = 0
    BY <1>7, <2>1, TotalNone DEF HoursOf
  <2> QED BY <1>7, <2>2
<1>14. Quota
  <2>1. alerts.quota = Rules!NewAlert
    BY <1>1 DEF Kinds
  <2> QED BY <1>1, <1>2, <2>1 DEF Quota
<1> QED BY <1>4, <1>5, <1>6, <1>9, <1>10, <1>12, <1>13, <1>14 DEF SamplesInv

LEMMA SamplesStep == SamplesInv /\ [SamplesNext]_sampleVars => SamplesInv'
<1> SUFFICES ASSUME SamplesInv, [SamplesNext]_sampleVars PROVE SamplesInv'
  OBVIOUS
<1>1. CASE PassTime
  BY <1>1, PassTimeInv
<1>2. CASE SetBack
  BY <1>2, SetBackInv
<1>3. CASE SetEnabled \/ OrderReset \/ PerformNothing \/ RecordReset
  BY <1>3, TasksInv
<1>4. CASE Perform
  BY <1>4, PerformInv
<1>5. CASE SendSamples
  BY <1>5, SendSamplesInv
<1>6. CASE Delay
  BY <1>6, DelayInv
<1>7. CASE HandleHeld
  BY <1>7, HandleHeldInv
<1>8. CASE Prune
  BY <1>8, PruneInv
<1>9. CASE UNCHANGED sampleVars
  <2>1. /\ UNCHANGED <<time, clock, beaten, held, counter, passed, samples, hourly, daily,
                       first, latest, alerts, noted>>
    BY <1>9 DEF sampleVars
  <2>2. SamplesTypeOK /\ SamplesTypeOK'
    BY <1>9 DEF SamplesInv, SamplesTypeOK, sampleVars, Buckets
  <2>3. Marked' /\ OnTime'
    BY <2>1 DEF SamplesInv, Marked, OnTime, Recent
  <2>4. "misled" \notin noted' => Counted'
    BY <2>1, <2>2, CountedKept, SampleTypes DEF SamplesInv
  <2>5. Ordered' /\ Whole' /\ Rooted' /\ Hours' /\ Days' /\ Quota'
    BY <2>1, StoreKept
  <2> QED BY <2>2, <2>3, <2>4, <2>5 DEF SamplesInv
<1> QED BY <1>1, <1>2, <1>3, <1>4, <1>5, <1>6, <1>7, <1>8, <1>9 DEF SamplesNext

LEMMA SamplesAlways == SamplesSpec => []SamplesInv
BY SamplesStart, SamplesStep, PTL DEF SamplesSpec

\* Every sample, row and alert is what ingest_observations and the tables say.
THEOREM SamplesTypeCorrect == SamplesSpec => []SamplesTypeOK
<1>1. SamplesInv => SamplesTypeOK
  BY DEF SamplesInv
<1> QED BY <1>1, SamplesAlways, PTL

\* The rollups never show more than has passed, and all of it where they show no
\* discontinuity (ingest_observations, _update_rollup).
THEOREM BytesCountedOnce == SamplesSpec => []CountedOnce
<1>1. SamplesInv => CountedOnce
  <2> SUFFICES ASSUME SamplesInv PROVE CountedOnce
    OBVIOUS
  <2>1. Shown \in Nat /\ passed \in Nat /\ (first # None => first \in Nat)
        /\ (latest # None => latest \in Nat)
    BY ShownType, SampleTypes DEF SamplesInv
  <2>2. "misled" \notin noted => Shown <= passed
    BY DEF SamplesInv, Counted
  <2>3. ASSUME Uninterrupted PROVE Shown = latest - first
    <3>1. first # None /\ latest # None /\ Shown + first = latest
      BY <2>3 DEF Uninterrupted, SamplesInv, Whole, Ordered
    <3> QED BY <2>1, <3>1
  <2> QED BY <2>2, <2>3 DEF CountedOnce, Shown
<1> QED BY <1>1, SamplesAlways, PTL

\* The samples, the hours and the days of query_history agree, and the quota alert
\* with the samples (_observe_quota_alerts).
THEOREM ResolutionsAgree == SamplesSpec => []ViewsAgree
<1>1. SamplesInv => ViewsAgree
  <2> SUFFICES ASSUME SamplesInv PROVE ViewsAgree
    OBVIOUS
  <2>1. ASSUME samples # {}
        PROVE  LET s == Newest(samples) IN
               /\ s.period >= Threshold => alerts.quota.state = "firing"
               /\ s.period < Level /\ Older(s) # {} /\ Newest(Older(s)).period < Level =>
                    alerts.quota.state \in {"ok", "resolved"}
    <3>1. PICK s \in samples : s = Newest(samples) /\ IsLast(s)
      BY <2>1, LastSample DEF IsLast
    <3>2. s.period >= Threshold => alerts.quota.state = "firing"
      BY <3>1 DEF SamplesInv, Quota
    <3>3. ASSUME s.period < Level, Older(s) # {}, Newest(Older(s)).period < Level
          PROVE  alerts.quota.state \in {"ok", "resolved"}
      <4>1. PICK p \in Older(s) : \A o \in Older(s) : o.at <= p.at
        BY <3>3 DEF SamplesInv, Ordered
      <4>2. Newest(Older(s)) = p
        <5>1. Older(s) \subseteq samples
          BY DEF Older
        <5> QED BY <4>1, <5>1, NewestIs, SampleTypes DEF SamplesInv, Ordered
      <4>3. /\ p \in samples /\ p.at < s.at
            /\ \A o \in samples : o.at < s.at => o.at <= p.at
        BY <4>1 DEF Older
      <4> QED BY <3>1, <3>3, <4>2, <4>3 DEF SamplesInv, Quota
    <3> QED BY <3>1, <3>2, <3>3
  <2>2. Hours /\ Days
    BY DEF SamplesInv
  <2> QED BY <2>1, <2>2 DEF ViewsAgree, Hours, Days, HoursOf
<1> QED BY <1>1, SamplesAlways, PTL
=============================================================================
