------------------------------- MODULE Repairs ------------------------------
(***************************************************************************)
(* Incidents and repairs of one host: every heartbeat opens or resolves    *)
(* incidents by what it observes and plans the next step of a repair, a    *)
(* dry run first; an operator works on the incidents at the same time.     *)
(*                                                                         *)
(*   controller/guardian/reconciliation.py, runbooks.py, api.py            *)
(*                                                                         *)
(* A fault stands for a fault type with its service and its runbook.  Only *)
(* faults with a runbook are modelled.  Tasks travel through the channel   *)
(* of TaskOutcome.  The plans that need an approval are left out: the      *)
(* reconciler asks for none (README).                                      *)
(***************************************************************************)
EXTENDS Integers, Sequences, FiniteSets, FiniteSetsExt

CONSTANTS
  Faults,       \* a set of numbers: the order in which _observe looks for them
  Level2,       \* faults whose runbook has risk level 2
  MaxActual,    \* max_attempts of the runbooks
  MaxIncidents, \* bound
  MaxAttempts,  \* bound
  MaxUpdates,   \* bound: changes an operator makes
  MaxFailures   \* bound: abandoned heartbeats, answers destroyed

ASSUME ConstantsAssumption ==
  /\ Faults \subseteq Nat \ {0} /\ IsFiniteSet(Faults)
  /\ Level2 \subseteq Faults
  /\ {MaxActual, MaxIncidents, MaxAttempts, MaxUpdates, MaxFailures} \subseteq Nat

\* A plan issues the runbook's action, and its check after an actual repair.
Tasks == (1 .. MaxAttempts) \X {"action", "check"}

VARIABLES
  verdict, outcome, performed, disturbed,   \* the channel, see TaskOutcome
  expired,    \* tasks whose expires_at has passed
  broken,     \* the faults the host has
  late,       \* what the abandoned heartbeats observed that may yet be handled
  incidents,  \* Incident rows
  attempts,   \* RepairAttempt rows
  warm,       \* actual attempts made within the cooldown
  level2,     \* the label guardian_level2_caddy
  update,     \* what update_incident has read
  revived,    \* history: incidents an operator has taken out of "resolved"
  updates, failures

channelVars == <<verdict, outcome, performed, disturbed>>
recordVars  == <<incidents, attempts>>
countVars   == <<revived, updates, failures>>
vars == <<channelVars, expired, broken, late, recordVars, warm, level2, update, countVars>>

Channel == INSTANCE TaskOutcome

Statuses == {"open", "acknowledged", "investigating", "mitigating", "resolved"}
NoUpdate == [incident |-> 0, seen |-> "resolved"]

TypeOK ==
  /\ Channel!TypeOK
  /\ expired \subseteq Tasks
  /\ broken \subseteq Faults
  /\ late \subseteq SUBSET Faults
  /\ incidents \in Seq([fault : Faults, status : Statuses])
  /\ attempts \in Seq([incident : DOMAIN incidents, dryRun : BOOLEAN,
                       success : {"null", "true", "false"}])
  /\ warm \subseteq DOMAIN attempts
  /\ level2 \in BOOLEAN
  /\ update \in [incident : DOMAIN incidents \cup {0}, seen : Statuses]
  /\ revived \subseteq DOMAIN incidents
  /\ {updates, failures} \subseteq Nat

Init ==
  /\ Channel!Init
  /\ expired = {}
  /\ broken = {}
  /\ late = {}
  /\ incidents = <<>>
  /\ attempts = <<>>
  /\ warm = {}
  /\ level2 = FALSE
  /\ update = NoUpdate
  /\ revived = {}
  /\ updates = 0
  /\ failures = 0

Failure == failures < MaxFailures /\ failures' = failures + 1

-----------------------------------------------------------------------------
(* Recording results: record_agent_results. *)

Dispatched(a) == IF attempts[a].dryRun THEN {<<a, "action">>} ELSE {a} \X {"action", "check"}

\* Variant: one task that succeeded is enough.
SuccessAny(a, v) ==
  IF \E t \in Dispatched(a) : v[t] = "succeeded" THEN "true" ELSE "false"
Success(a, v) ==
  IF \A t \in Dispatched(a) : v[t] = "succeeded" THEN "true" ELSE "false"

\* The attempts, once the verdicts v are known.
Concluded(v) ==
  [a \in DOMAIN attempts |->
     IF attempts[a].success = "null" /\ \A t \in Dispatched(a) : v[t] \in Channel!Terminal
       THEN [attempts[a] EXCEPT !.success = Success(a, v)]
       ELSE attempts[a]]

-----------------------------------------------------------------------------
(* Incidents: _open_incident, _resolve_absent_incidents. *)

\* Variant: an incident somebody works on is not found again.
UnresolvedOpen(f) ==
  {i \in DOMAIN incidents : incidents[i].fault = f /\ incidents[i].status = "open"}
Unresolved(f) ==
  {i \in DOMAIN incidents : incidents[i].fault = f /\ incidents[i].status # "resolved"}

\* The incident of what is observed: the latest, or one to be opened; 0 if
\* nothing is wrong.
Current(seen) ==
  IF seen = {} THEN 0
  ELSE IF Unresolved(Min(seen)) = {} THEN Len(incidents) + 1
  ELSE Max(Unresolved(Min(seen)))

Opened(seen) ==
  IF Current(seen) = Len(incidents) + 1
    THEN Append(incidents, [fault |-> Min(seen), status |-> "open"])
    ELSE incidents

Reconciled(seen) ==
  LET opened  == Opened(seen)
      current == Current(seen)
  IN  [i \in DOMAIN opened |->
         IF i = current THEN opened[i] ELSE [opened[i] EXCEPT !.status = "resolved"]]

-----------------------------------------------------------------------------
(* Planning: _maybe_dispatch, RepairOrchestrator.plan. *)

DryRuns(i, att) == {a \in DOMAIN att : att[a].incident = i /\ att[a].dryRun}
Actual(i, att)  == {a \in DOMAIN att : att[a].incident = i /\ ~att[a].dryRun}

PlansDryRun(i, att) == DryRuns(i, att) = {} /\ Actual(i, att) = {}

Retry(i, att) ==
  /\ att[Max(Actual(i, att))].success # "null"
  /\ Max(Actual(i, att)) \notin warm
  /\ Cardinality(Actual(i, att)) < MaxActual

\* Variant: any result of the dry run will do.
PassedKnown(i, att) ==
  DryRuns(i, att) # {} /\ att[Max(DryRuns(i, att))].success # "null"
Passed(i, att) ==
  DryRuns(i, att) # {} /\ att[Max(DryRuns(i, att))].success = "true"

PlansActual(i, f, att) ==
  /\ IF Actual(i, att) # {} THEN Retry(i, att) ELSE Passed(i, att)
  /\ f \in Level2 => level2

Planned(i, f, att) ==
  IF i # 0 /\ (PlansDryRun(i, att) \/ PlansActual(i, f, att))
    THEN <<[incident |-> i, dryRun |-> PlansDryRun(i, att), success |-> "null"]>>
    ELSE <<>>

\* agent_heartbeat with the results of the tasks S, of which W succeeded, and
\* the observation seen.
Handle(seen, S, W) ==
  LET v == [t \in Tasks |-> IF t \in W THEN "succeeded"
                            ELSE IF t \in S THEN "failed" ELSE verdict[t]]
      att == Concluded(v)
      new == Planned(Current(seen), IF seen = {} THEN 0 ELSE Min(seen), att)
      next == Len(att) + 1
  IN  /\ Len(Opened(seen)) <= MaxIncidents /\ Len(att \o new) <= MaxAttempts
      /\ Channel!Exchange(S, W,
           IF new = <<>> THEN {}
           ELSE {next} \X (IF new[1].dryRun THEN {"action"} ELSE {"action", "check"}))
      /\ incidents' = Reconciled(seen)
      /\ attempts' = att \o new
      /\ warm' = IF new = <<>> \/ new[1].dryRun THEN warm ELSE warm \cup {next}

Answered == {t \in Tasks : verdict[t] = "open" /\ outcome[t] # "none"}

Heartbeat ==
  /\ \E S \in SUBSET Answered : \E W \in SUBSET S : Handle(broken, S, W)
  /\ UNCHANGED <<expired, broken, late, level2, update, countVars>>

\* The agent gives a heartbeat up; the controller may handle it later.
Abandon ==
  /\ Failure
  /\ late' = late \cup {broken}
  /\ UNCHANGED <<channelVars, expired, broken, recordVars, warm, level2, update, revived, updates>>

HandleLate ==
  /\ \E seen \in late :
       /\ late' = late \ {seen}
       /\ \E S \in SUBSET Answered : \E W \in SUBSET S : Handle(seen, S, W)
  /\ UNCHANGED <<expired, broken, level2, update, countVars>>

CoolDown(a) ==
  /\ a \in warm
  /\ warm' = warm \ {a}
  /\ UNCHANGED <<channelVars, expired, broken, late, recordVars, level2, update, countVars>>

-----------------------------------------------------------------------------
(* The operator. *)

INCIDENT_TRANSITIONS ==
  [open          |-> {"acknowledged", "investigating"},
   acknowledged  |-> {"investigating"},
   investigating |-> {"mitigating", "resolved"},
   mitigating    |-> {"investigating", "resolved"},
   resolved      |-> {}]

\* update_incident reads the row ...
BeginUpdate(i) ==
  /\ updates < MaxUpdates
  /\ update = NoUpdate
  /\ INCIDENT_TRANSITIONS[incidents[i].status] # {}
  /\ update' = [incident |-> i, seen |-> incidents[i].status]
  /\ updates' = updates + 1
  /\ UNCHANGED <<channelVars, expired, broken, late, recordVars, warm, level2, revived, failures>>

\* ... and writes what is allowed after what it has read.
CommitUpdate ==
  /\ update # NoUpdate
  /\ \E to \in INCIDENT_TRANSITIONS[update.seen] :
       incidents' = [incidents EXCEPT ![update.incident].status = to]
  /\ revived' = IF incidents[update.incident].status = "resolved"
                  THEN revived \cup {update.incident} ELSE revived
  /\ update' = NoUpdate
  /\ UNCHANGED <<channelVars, expired, broken, late, attempts, warm, level2, updates, failures>>

\* The label is set or taken away.
SwitchLevel2 ==
  /\ updates < MaxUpdates
  /\ updates' = updates + 1
  /\ level2' = ~level2
  /\ UNCHANGED <<channelVars, expired, broken, late, recordVars, warm, update, revived, failures>>

-----------------------------------------------------------------------------
(* The host. *)

Break(f) ==
  /\ f \notin broken
  /\ broken' = broken \cup {f}
  /\ UNCHANGED <<channelVars, expired, late, recordVars, warm, level2, update, countVars>>

Heal(f) ==
  /\ f \in broken
  /\ broken' = broken \ {f}
  /\ UNCHANGED <<channelVars, expired, late, recordVars, warm, level2, update, countVars>>

Expire(t) ==
  /\ verdict[t] = "open" /\ t \notin expired \cup performed
  /\ expired' = expired \cup {t}
  /\ UNCHANGED <<channelVars, broken, late, recordVars, warm, level2, update, countVars>>

\* The action or check is run, or refused, which counts as a failure; an actual
\* repair may help.
Run(t) ==
  /\ t \notin expired
  /\ Channel!Perform(t)
  /\ \/ UNCHANGED broken
     \/ /\ ~attempts[t[1]].dryRun /\ t[2] = "action" /\ t \notin performed
        /\ broken' = broken \ {incidents[attempts[t[1]].incident].fault}
  /\ UNCHANGED <<expired, late, recordVars, warm, level2, update, countVars>>

\* An answer or the trace of a performance is destroyed.
Disturb(t) ==
  /\ t \notin disturbed
  /\ Failure
  /\ Channel!Disturb({t})
  /\ UNCHANGED <<expired, broken, late, recordVars, warm, level2, update, revived, updates>>

-----------------------------------------------------------------------------
Next ==
  \/ Heartbeat \/ Abandon \/ HandleLate
  \/ \E a \in DOMAIN attempts : CoolDown(a)
  \/ \E i \in DOMAIN incidents : BeginUpdate(i)
  \/ CommitUpdate \/ SwitchLevel2
  \/ \E f \in Faults : Break(f) \/ Heal(f)
  \/ \E t \in Tasks : Expire(t) \/ Run(t) \/ Disturb(t)

Spec == Init /\ [][Next]_vars

-----------------------------------------------------------------------------
(* Properties. *)

\* Nothing is repaired in earnest before a dry run of the same incident has
\* passed: _maybe_dispatch.
DryRunFirst ==
  \A a \in DOMAIN attempts :
    ~attempts[a].dryRun =>
      \E d \in 1 .. a - 1 :
        /\ attempts[d].incident = attempts[a].incident
        /\ attempts[d].dryRun
        /\ attempts[d].success = "true"

\* An attempt is concluded when all its tasks are, and well only if all were
\* performed and ended well: record_agent_results.
ConclusionAgrees ==
  \A a \in DOMAIN attempts :
    /\ attempts[a].success = "null" <=> \E t \in Dispatched(a) : verdict[t] = "open"
    /\ attempts[a].success = "true" =>
         /\ Dispatched(a) \subseteq performed
         /\ \A t \in Dispatched(a) \ disturbed : outcome[t] = "ok"

\* What an operator has begun is not thrown away: a heartbeat that sees the
\* fault, before all others, goes on with its incident and leaves the status,
\* unless the update of an operator had revived the incident after a heartbeat
\* resolved it: _active_incident, update_incident.
WorkKept ==
  [][\A i \in DOMAIN incidents \ revived :
       /\ incidents[i].status # "resolved"
       /\ broken # {} /\ incidents[i].fault = Min(broken)
       /\ incidents'[i] # incidents[i]
       => ~Heartbeat]_vars
=============================================================================
