-------------------------- MODULE PortTrafficResets -------------------------
(***************************************************************************)
(* Resets of one port traffic policy: the monitor loop queues a reset when *)
(* a boundary of the approved schedule is due, an administrator may have   *)
(* another one approved at any time; the host performs them and the next   *)
(* boundary is fixed when a result is recorded.                            *)
(*                                                                         *)
(*   controller/guardian/port_traffic.py, reconciliation.py, api.py        *)
(*                                                                         *)
(* Tasks travel through the channel of TaskOutcome.  The policy is enabled *)
(* and its schedule approved; the agent is not revoked.  A dry run changes *)
(* nothing here.  A heartbeat that carries several results appears as      *)
(* several with one.  The observations of abandoned heartbeats are left    *)
(* out: ingest_observations drops those older than the last one stored.    *)
(***************************************************************************)
EXTENDS Naturals, Sequences

CONSTANTS
  Scheduled, \* bound: tasks the monitor loop can create
  Requested, \* bound: tasks a person can ask for
  MaxFaults, \* bound: answers destroyed or never given
  MaxTime,   \* bound: the clock of the controller
  Calendar   \* of the schedule: the first boundary after a time; 0 if none is left

Tasks == Scheduled \cup Requested
Time  == 0 .. MaxTime

ASSUME CalendarAssumption ==
  /\ Scheduled \cap Requested = {}
  /\ MaxTime \in Nat
  /\ MaxFaults \in Nat
  /\ Calendar \in [Time -> Time]
  /\ \A t \in Time : Calendar[t] = 0 \/ Calendar[t] > t
  /\ \A t, u \in Time : t <= u /\ (Calendar[t] = 0 \/ u < Calendar[t]) => Calendar[u] = Calendar[t]

VARIABLES
  verdict, outcome, performed, disturbed,   \* the channel, see TaskOutcome
  delivered,       \* tasks a reply to a heartbeat has carried
  expired,         \* tasks whose expires_at has passed
  boundary,        \* scheduled_for of a task; 0 if a person asked for it
  now,
  nextReset,       \* next_reset_at of the runtime state; 0 if there is none
  lastReset,       \* last_reset_at
  generation,      \* counter_generation of the runtime state
  events,          \* the PortTrafficResetEvent rows
  hostGeneration,  \* the generation in the helper's state file
  granted,         \* the generation the helper answered to a task; 0 if none
  unheard,         \* history: tasks whose reset the agent took for a failure
  faults

channelVars == <<verdict, outcome, performed, disturbed>>
runtimeVars == <<nextReset, lastReset, generation, events>>
hostVars    == <<hostGeneration, granted, unheard, faults>>
vars == <<channelVars, delivered, expired, boundary, now, runtimeVars, hostVars>>

Channel == INSTANCE TaskOutcome

NextResetAt(after) == Calendar[after]

\* The types, and that nothing is queued early or recorded for the future.
TypeOK ==
  /\ Channel!TypeOK
  /\ delivered \subseteq Tasks
  /\ expired \subseteq Tasks
  /\ boundary \in [Tasks -> 0 .. now]
  /\ now \in Time
  /\ nextReset \in Time
  /\ lastReset \in 0 .. now
  /\ generation \in Nat
  /\ events \in Seq([previous : Nat, new : Nat])
  /\ hostGeneration \in Nat
  /\ granted \in [Tasks -> Nat]
  /\ unheard \subseteq Tasks
  /\ faults \in Nat

\* The schedule has just been approved.
Init ==
  /\ Channel!Init
  /\ delivered = {}
  /\ expired = {}
  /\ boundary = [t \in Tasks |-> 0]
  /\ now = 0
  /\ nextReset = NextResetAt(0)
  /\ lastReset = 0
  /\ generation = 1
  /\ events = <<>>
  /\ hostGeneration = 1
  /\ granted = [t \in Tasks |-> 0]
  /\ faults = 0
  /\ unheard = {}

Fault == faults < MaxFaults /\ faults' = faults + 1

-----------------------------------------------------------------------------
(* The controller. *)

Tick ==
  /\ now < MaxTime
  /\ now' = now + 1
  /\ UNCHANGED <<channelVars, delivered, expired, boundary, runtimeVars, hostVars>>

Due == nextReset # 0 /\ nextReset <= now

\* Task.status is "pending": created, and in no reply yet.
Pending(t) == verdict[t] = "open" /\ t \notin delivered

Queue(t, at) ==
  /\ Channel!Issue(t)
  /\ boundary' = [boundary EXCEPT ![t] = at]
  /\ UNCHANGED <<delivered, expired, now, runtimeVars, hostVars>>

\* Variant: delivered tasks are outstanding, too.
DispatchOutstanding(t) ==
  /\ Due
  /\ \A u \in Tasks : verdict[u] # "open"
  /\ Queue(t, nextReset)

\* dispatch_due_port_traffic_resets
Dispatch(t) ==
  /\ Due
  /\ \A u \in Tasks : ~Pending(u)
  /\ Queue(t, nextReset)

\* decide_approval, for a requested reset.
RequestReset(t) == Queue(t, 0)

\* Once the task has been performed this makes no difference.
Expire(t) ==
  /\ verdict[t] = "open" /\ t \notin expired \cup performed
  /\ expired' = expired \cup {t}
  /\ UNCHANGED <<channelVars, delivered, boundary, now, runtimeVars, hostVars>>

\* Variant: the next boundary is the one after that of the task.
AfterSuccessScheduled(t) == nextReset' = NextResetAt(boundary[t])
AfterSuccess(t) == nextReset' = NextResetAt(now)

\* Variant: the next boundary is the first that is not over.
AfterFailureNow(t) == nextReset' = IF boundary[t] = 0 THEN nextReset ELSE NextResetAt(now)
AfterFailure(t) == nextReset' = IF boundary[t] = 0 THEN nextReset ELSE NextResetAt(boundary[t])

\* Variant: the generation is counted by the controller.
ReportedCounted(t) == {generation + 1}

\* counter_generation in the result.  The answer to a task that was performed
\* before says only that it was.
Reported(t) ==
  {g \in {granted[t]} : g # 0} \cup (IF t \in disturbed THEN {generation + 1} ELSE {})

\* Answers come in the order in which they were given (AgentTasks!OldestFirst).
First(t) ==
  \A u \in Tasks \ disturbed :
    verdict[u] = "open" /\ outcome[u] = "ok" => granted[t] <= granted[u]

\* ingest_observations, after the results: the generation of the helper, if the
\* heartbeat carries an observation.
Observed(g) == generation' \in {g, hostGeneration}

\* _record_port_traffic_result
RecordSuccess(t) ==
  /\ Channel!Conclude({t}, {t})
  /\ t \notin disturbed => First(t)
  /\ \E new \in Reported(t) :
       /\ events' = Append(events, [previous |-> generation, new |-> new])
       /\ Observed(new)
  /\ lastReset' = now
  /\ AfterSuccess(t)

RecordFailure(t) ==
  /\ Channel!Conclude({t}, {})
  /\ AfterFailure(t)
  /\ Observed(generation)
  /\ UNCHANGED <<lastReset, events>>

RecordNothing ==
  /\ Observed(generation)
  /\ UNCHANGED <<channelVars, nextReset, lastReset, events>>

\* agent_heartbeat: results, observations, and the tasks of the reply.
Heartbeat ==
  /\ RecordNothing \/ \E t \in Tasks : RecordSuccess(t) \/ RecordFailure(t)
  /\ delivered' = delivered \cup {t \in Tasks \ expired : verdict'[t] = "open"}
  /\ UNCHANGED <<expired, boundary, now, hostVars>>

-----------------------------------------------------------------------------
(* The host. *)

Current(t) == t \in delivered \ (expired \cup performed)

\* desiredState, "reset": see NetHelper.
Reset(t) ==
  /\ Current(t)
  /\ Channel!Perform(t)
  /\ outcome[t] = "none" => outcome'[t] = "ok"
  /\ hostGeneration' = hostGeneration + 1
  /\ granted' = [granted EXCEPT ![t] = hostGeneration + 1]
  /\ UNCHANGED <<delivered, expired, boundary, now, runtimeVars, unheard, faults>>

\* The helper refuses, or fails and takes back what it did; or the state has
\* been written and the agent gets no response.
ResetFails(t) ==
  /\ Current(t)
  /\ Channel!Perform(t)
  /\ outcome'[t] = "failed"
  /\ \/ UNCHANGED <<hostGeneration, unheard, faults>>
     \/ Fault /\ hostGeneration' = hostGeneration + 1 /\ unheard' = unheard \cup {t}
  /\ UNCHANGED <<delivered, expired, boundary, now, runtimeVars, granted>>

\* An answer, or the trace of a performance, is destroyed.  The nonce keeps the
\* task from resetting again, whatever it is going to be answered.
Disturb(t) ==
  /\ t \notin disturbed
  /\ Fault
  /\ Channel!Disturb({t})
  /\ UNCHANGED <<delivered, expired, boundary, now, runtimeVars, hostGeneration, granted, unheard>>

-----------------------------------------------------------------------------
Next ==
  \/ Tick
  \/ \E t \in Scheduled : Dispatch(t)
  \/ \E t \in Requested : RequestReset(t)
  \/ \E t \in Tasks : Expire(t)
  \/ Heartbeat
  \/ \E t \in Tasks : Reset(t) \/ ResetFails(t) \/ Disturb(t)

Spec == Init /\ [][Next]_vars

\* The monitor loop runs every ten seconds; the agent sends a heartbeat every
\* minute, performs what it was given and reports every answer.
FairSpec ==
  /\ Spec
  /\ WF_vars(\E t \in Scheduled : Dispatch(t))
  /\ WF_vars(Heartbeat /\ delivered' # delivered)
  /\ \A t \in Tasks : WF_vars(Reset(t) \/ ResetFails(t))
  /\ \A t \in Tasks : SF_vars(Heartbeat /\ verdict[t] = "open" /\ verdict'[t] # "open")

-----------------------------------------------------------------------------
(* Properties. *)

Boundaries == {Calendar[t] : t \in Time} \ {0}

\* 0 stands for "never".
Sooner(a, b) == a # 0 /\ (b = 0 \/ a < b)

\* No boundary is left behind: by the time the schedule looks past it, a reset
\* was queued for it or one has been recorded since.
NothingSkipped ==
  \A b \in Boundaries :
    Sooner(b, nextReset) => b <= lastReset \/ \E t \in Tasks : boundary[t] = b

\* Resets overlap, since Dispatch queues a boundary again once its task is
\* delivered, so the schedule can go back.  Only a failure does that, recorded
\* after a reset that made the boundary superfluous, or after the failure of a
\* reset for a later one.
BackOnlyByOverlap ==
  [][Sooner(nextReset', nextReset) =>
       \E t \in Tasks :
         /\ verdict[t] = "open" /\ verdict'[t] = "failed"
         /\ \/ nextReset' <= lastReset
            \/ \E u \in Tasks : verdict[u] = "failed" /\ boundary[u] > boundary[t]]_vars

AllRecorded ==
  /\ disturbed = {} /\ unheard = {}
  /\ \A t \in Tasks : verdict[t] = "open" => outcome[t] # "ok"

\* Once all answers are in, the controller knows the generation of the host and
\* has one event for every reset, unless an answer was destroyed or never given.
HistoryComplete ==
  AllRecorded =>
    /\ generation = hostGeneration
    /\ Len(events) = hostGeneration - 1
    /\ {events[i].new : i \in DOMAIN events} = 2 .. hostGeneration

\* A due boundary is left behind, unless a reset that expired before it was
\* delivered stands in the way: it stays pending for good.
ScheduleMoves ==
  Due ~> \/ ~Due
         \/ \E t \in Tasks : Pending(t) /\ t \in expired
         \/ \A t \in Scheduled : verdict[t] # "none"
=============================================================================
