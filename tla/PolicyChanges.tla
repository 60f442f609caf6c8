---------------------------- MODULE PolicyChanges ---------------------------
(***************************************************************************)
(* Changes of one port traffic policy: an administrator edits it, which    *)
(* sends a task to the host at once, or requests a change, which another   *)
(* one has to approve first; the policy in the database follows when       *)
(* results are recorded.                                                   *)
(*                                                                         *)
(*   controller/guardian/api.py, reconciliation.py; agent/nethelper        *)
(*                                                                         *)
(* Edits, requests and the listing of approvals, which expires them, run   *)
(* in threads: a read, and later a commit that writes the columns which    *)
(* differ from what was read.  Decisions and heartbeats take turns on the  *)
(* event loop.  Tasks travel through the channel of TaskOutcome, in the    *)
(* order in which they were created (AgentTasks!OldestFirst).              *)
(*                                                                         *)
(* Requested counter resets are in PortTrafficResets.  The policy overlaps *)
(* no other one; the agent is not revoked.                                 *)
(***************************************************************************)
EXTENDS Naturals, Sequences

CONSTANTS
  Edits,      \* bound: creations and edits; each is known by its task
  Requests,   \* bound: requested changes; each is known by its approval and task
  Users,      \* administrators
  Changes,    \* what they ask for: a mode, whether a rate is given, a schedule
  MaxFaults,  \* bound: answers destroyed or never given
  None        \* the absence of a value

Tasks   == Edits \cup Requests
Kernels == {1, 2}                       \* ports, protocol, direction, quota
Modes   == {"monitor_only", "enforcing"}
Rates   == {0, 1}                       \* egress_rate_bps; 0 if there is none
Schedules == {"manual", "daily"}        \* reset_policy

Policy == [kernel : Kernels, enabled : BOOLEAN, mode : Modes, rate : Rates,
           schedule : Schedules, status : {"pending", "active", "disabled", "error"}]
Parameters == [remove : BOOLEAN, kernel : Kernels, mode : Modes, rate : Rates,
               schedule : Schedules, dry : BOOLEAN]
Statuses == {"pending", "approved", "dry_run_only", "rejected", "expired", "executed", "failed"}
Approval == [status : Statuses, reschedules : BOOLEAN, by : Users,
             decidedBy : Users \cup {None}]
Rules == [kernel : Kernels, mode : Modes, rate : Rates]
Edited   == [kernel : Kernels, enabled : BOOLEAN]
Decision == [request : Requests, by : Users, decision : {"approved", "dry_run_only", "rejected"}]

ASSUME ConstantsAssumption ==
  /\ Edits \cap Requests = {}
  /\ Changes \subseteq [mode : Modes, shape : BOOLEAN, schedule : Schedules]
  /\ MaxFaults \in Nat
  /\ None \notin Tasks \cup Users \cup Policy \cup Parameters \cup Rules
  /\ None \notin Approval \cup Statuses

VARIABLES
  verdict, outcome, performed, disturbed,   \* the channel, see TaskOutcome
  issued,      \* the tasks in the order of their creation
  expired,     \* tasks whose expires_at has passed before they were performed
  parameters,  \* of a task, or of the task a request asks for
  policy,      \* the PortTrafficPolicy row
  approvals,   \* the Approval rows of the requests
  editing,     \* what an edit under way has read, and what it wants
  expiring,    \* requests list_approvals has read and is about to expire
  deciding,    \* the decision under way on the event loop
  rules,       \* the policy in the helper's state file
  last,        \* history: the last task recorded as applied or removed
  superseded,  \* history: a newer edit had been committed when last was recorded
  raced,       \* history: the last edit was committed over a row it had not seen
  overtaken,   \* history: requests that were decided before they were expired
  faults

channelVars  == <<verdict, outcome, performed, disturbed>>
taskVars     == <<issued, expired, parameters>>
approvalVars == <<approvals, expiring, deciding, overtaken>>
hostVars     == <<rules, faults>>
historyVars  == <<last, superseded, raced>>
vars == <<channelVars, taskVars, policy, approvalVars, editing, hostVars, historyVars>>

Channel == INSTANCE TaskOutcome

TypeOK ==
  /\ Channel!TypeOK
  /\ issued \in Seq(Tasks)
  /\ expired \subseteq Tasks
  /\ parameters \in [Tasks -> Parameters \cup {None}]
  /\ policy \in Policy \cup {None}
  /\ approvals \in [Requests -> Approval \cup {None}]
  /\ expiring \subseteq Requests /\ overtaken \subseteq Requests
  /\ editing \in [Edits -> [read : Policy, new : Edited] \cup {None}]
  /\ deciding \in Decision \cup {None}
  /\ rules \in Rules \cup {None}
  /\ last \in Tasks \cup {None}
  /\ superseded \in BOOLEAN /\ raced \in BOOLEAN
  /\ faults \in 0 .. MaxFaults

\* PortTrafficPolicy, as create_port_traffic_policy makes it.
NewPolicy(kernel, status) ==
  [kernel |-> kernel, enabled |-> TRUE, mode |-> "monitor_only", rate |-> 0,
   schedule |-> "manual", status |-> status]

\* There is no policy yet, or the host runs it as it was created.
Init ==
  /\ Channel!Init
  /\ issued = <<>>
  /\ expired = {}
  /\ parameters = [t \in Tasks |-> None]
  /\ \/ policy = None /\ rules = None
     \/ /\ policy = NewPolicy(1, "active")
        /\ rules = [kernel |-> 1, mode |-> "monitor_only", rate |-> 0]
  /\ approvals = [r \in Requests |-> None]
  /\ expiring = {} /\ overtaken = {}
  /\ editing = [e \in Edits |-> None]
  /\ deciding = None
  /\ last = None /\ superseded = FALSE /\ raced = FALSE
  /\ faults = 0

Fault == faults < MaxFaults /\ faults' = faults + 1

Stored(t) == parameters[t]

Status(r) == IF approvals[r] = None THEN None ELSE approvals[r].status

IsNew(t) == parameters[t] = None /\ (t \in Edits => editing[t] = None)

-----------------------------------------------------------------------------
(* Edits. *)

\* create_agent_task
CreateTask(t) ==
  /\ Channel!Issue(t)
  /\ issued' = Append(issued, t)

\* _port_traffic_parameters
ParametersOf(p) ==
  [remove |-> ~p.enabled, kernel |-> p.kernel, mode |-> p.mode, rate |-> p.rate,
   schedule |-> p.schedule, dry |-> FALSE]

\* create_port_traffic_policy
CreatePolicy(e) ==
  /\ policy = None /\ IsNew(e)
  /\ policy' = NewPolicy(1, "pending")
  /\ CreateTask(e)
  /\ parameters' = [parameters EXCEPT ![e] = ParametersOf(policy')]
  /\ UNCHANGED <<expired, approvalVars, editing, hostVars, historyVars>>

Editable(p, new) ==
  p.mode = "monitor_only" \/ new = [kernel |-> p.kernel, enabled |-> p.enabled]

\* update_port_traffic_policy: the row is read and the request checked.  An edit
\* that changes nothing of it changes the name.
BeginEdit(e) ==
  /\ policy # None /\ IsNew(e)
  /\ \E new \in Edited :
       /\ Editable(policy, new)
       /\ editing' = [editing EXCEPT ![e] = [read |-> policy, new |-> new]]
  /\ UNCHANGED <<channelVars, taskVars, policy, approvalVars, hostVars, historyVars>>

\* A column is written if its value differs from the one read.
Written(old, new, now) == IF new = old THEN now ELSE new

\* update_port_traffic_policy: the task, made from what was read, and the commit.
CommitEdit(e) ==
  /\ editing[e] # None
  /\ LET read == editing[e].read  new == editing[e].new IN
     /\ policy' = [policy EXCEPT
          !.kernel  = Written(read.kernel, new.kernel, @),
          !.enabled = Written(read.enabled, new.enabled, @),
          !.status  = Written(read.status, "pending", @)]
     /\ parameters' = [parameters EXCEPT ![e] =
          ParametersOf([read EXCEPT !.kernel = new.kernel, !.enabled = new.enabled])]
     /\ raced' = (read # policy)
  /\ CreateTask(e)
  /\ editing' = [editing EXCEPT ![e] = None]
  /\ UNCHANGED <<expired, approvalVars, hostVars, last, superseded>>

-----------------------------------------------------------------------------
(* Requests and approvals. *)

\* _port_traffic_change_approval
NewApproval(u, reschedules) ==
  [status |-> "pending", reschedules |-> reschedules, by |-> u, decidedBy |-> None]

\* request_port_traffic_change: the whole policy is written down as it is now,
\* with the mode, rate and schedule asked for; without a rate the old one stays.
RequestChange(r) ==
  /\ policy # None /\ IsNew(r)
  /\ \E c \in Changes, u \in Users :
       /\ parameters' = [parameters EXCEPT ![r] =
            ParametersOf([policy EXCEPT !.enabled = TRUE, !.mode = c.mode,
                                        !.rate = IF c.shape THEN 1 ELSE @,
                                        !.schedule = c.schedule])]
       /\ approvals' = [approvals EXCEPT ![r] = NewApproval(u, c.schedule # policy.schedule)]
  /\ UNCHANGED <<channelVars, issued, expired, policy, expiring, deciding, overtaken,
                 editing, hostVars, historyVars>>

\* expire_pending_approvals: the query, of requests whose time is over, and the
\* commit.
SelectExpired ==
  /\ expiring = {}
  /\ expiring' \in (SUBSET {r \in Requests : Status(r) = "pending"}) \ {{}}
  /\ UNCHANGED <<channelVars, taskVars, policy, approvals, deciding, overtaken,
                 editing, hostVars, historyVars>>

CommitExpired ==
  /\ expiring # {}
  /\ approvals' = [r \in Requests |-> IF r \in expiring
                     THEN [approvals[r] EXCEPT !.status = "expired"] ELSE approvals[r]]
  /\ overtaken' = overtaken \cup {r \in expiring : Status(r) \notin {"pending", "expired"}}
  /\ expiring' = {}
  /\ UNCHANGED <<channelVars, taskVars, policy, deciding, editing, hostVars, historyVars>>

Executes(decision) == decision \in {"approved", "dry_run_only"}

\* Variant: whoever asked may decide.
IndependentNever(r, u, decision) == TRUE
Independent(r, u, decision) == Executes(decision) => u # approvals[r].by

\* decide_approval, up to its first write; "rejected" stands for every decision
\* that creates no task.
BeginDecision(r) ==
  /\ deciding = None
  /\ Status(r) = "pending" /\ r \notin expiring
  /\ \E u \in Users, decision \in {"approved", "dry_run_only", "rejected"} :
       /\ Independent(r, u, decision)
       /\ deciding' = [request |-> r, by |-> u, decision |-> decision]
  /\ UNCHANGED <<channelVars, taskVars, policy, approvals, expiring, overtaken,
                 editing, hostVars, historyVars>>

\* decide_approval, of a request that has expired.
DecideTooLate(r) ==
  /\ deciding = None
  /\ Status(r) = "pending"
  /\ approvals' = [approvals EXCEPT ![r].status = "expired"]
  /\ UNCHANGED <<channelVars, taskVars, policy, expiring, deciding, overtaken,
                 editing, hostVars, historyVars>>

Dry(decision) == decision = "dry_run_only"

\* decide_approval: the task, with the parameters of the request, and the commit.
CommitDecision ==
  /\ deciding # None
  /\ LET r == deciding.request  decision == deciding.decision IN
     /\ approvals' = [approvals EXCEPT ![r].status = decision, ![r].decidedBy = deciding.by]
     /\ \/ /\ Executes(decision)
           /\ CreateTask(r)
           /\ parameters' = [parameters EXCEPT ![r].dry = Dry(decision)]
        \/ /\ ~Executes(decision)
           /\ UNCHANGED <<channelVars, issued, parameters>>
  /\ deciding' = None
  /\ UNCHANGED <<expired, policy, expiring, overtaken, editing, hostVars, historyVars>>

-----------------------------------------------------------------------------
(* The host. *)

Expire(t) ==
  /\ verdict[t] = "open" /\ outcome[t] = "none" /\ t \notin expired
  /\ expired' = expired \cup {t}
  /\ UNCHANGED <<channelVars, issued, parameters, policy, approvalVars, editing, hostVars, historyVars>>

\* t is the next task the agent is given.
IsNext(t) ==
  /\ verdict[t] = "open" /\ t \notin expired
  /\ \E i \in DOMAIN issued :
       /\ issued[i] = t /\ outcome[t] = "none"
       /\ \A j \in 1 .. i - 1 : outcome[issued[j]] # "none" \/ issued[j] \in expired

\* What enforces or shapes needs an approval, which edits do not have
\* (approvalBound, verifyAuthorization).
Authorized(t) == t \in Edits => Stored(t).mode = "monitor_only" /\ Stored(t).rate = 0

\* desiredState, "apply" and "remove".
Desired(p) ==
  IF p.dry THEN rules
  ELSE IF p.remove THEN None ELSE [kernel |-> p.kernel, mode |-> p.mode, rate |-> p.rate]

Apply(t) ==
  /\ IsNext(t) /\ Authorized(t)
  /\ Channel!Perform(t) /\ outcome'[t] = "ok"
  /\ rules' = Desired(Stored(t))
  /\ UNCHANGED <<taskVars, policy, approvalVars, editing, faults, historyVars>>

\* The helper fails and takes back what it did; or the state is written and the
\* agent gets no response.
ApplyFails(t) ==
  /\ IsNext(t) /\ Authorized(t)
  /\ Channel!Perform(t) /\ outcome'[t] = "failed"
  /\ \/ UNCHANGED <<rules, faults>>
     \/ Fault /\ rules' = Desired(Stored(t))
  /\ UNCHANGED <<taskVars, policy, approvalVars, editing, historyVars>>

Refuse(t) ==
  /\ IsNext(t) /\ ~Authorized(t)
  /\ Channel!Refuse(t)
  /\ UNCHANGED <<taskVars, policy, approvalVars, editing, hostVars, historyVars>>

\* An answer, or the trace of a performance, is destroyed.  The nonce keeps the
\* task from changing anything again.
Disturb(t) ==
  /\ t \notin disturbed /\ verdict[t] = "open"
  /\ Fault
  /\ Channel!Disturb({t})
  /\ UNCHANGED <<taskVars, policy, approvalVars, editing, rules, historyVars>>

-----------------------------------------------------------------------------
(* agent_heartbeat: one result is recorded. *)

\* Variant: what succeeded is active, a dry run too.
RecordedDry(t) == [policy EXCEPT !.mode = Stored(t).mode, !.rate = Stored(t).rate,
                                 !.status = "active"]

\* _record_port_traffic_result, of a success
Recorded(t) ==
  LET p == Stored(t) IN
  IF p.dry THEN policy
  ELSE IF p.remove THEN [policy EXCEPT !.status = "disabled"]
  ELSE [policy EXCEPT !.mode = p.mode, !.rate = p.rate, !.status = "active",
          !.schedule = IF t \in Requests /\ approvals[t].reschedules THEN p.schedule ELSE @]

\* Variant: the approval of a dry run stays as it is.
ConcludedApproved(t, verdictOfTask) ==
  IF t \in Requests /\ Status(t) = "approved"
  THEN [approvals EXCEPT ![t].status = verdictOfTask] ELSE approvals
Concluded(t, status) ==
  IF t \in Requests /\ Executes(Status(t))
  THEN [approvals EXCEPT ![t].status = status] ELSE approvals

\* Answers come in the order in which they were given.
InOrder(t) ==
  t \in disturbed
  \/ \A i, j \in DOMAIN issued :
       issued[i] = t /\ j < i => \/ verdict[issued[j]] # "open"
                                 \/ issued[j] \in expired \cup disturbed

\* An edit was committed after the task was created.
EditedSince(t) ==
  \E i, j \in DOMAIN issued : issued[i] = t /\ i < j /\ issued[j] \in Edits

RecordSuccess(t) ==
  /\ deciding = None
  /\ InOrder(t) /\ Channel!Conclude({t}, {t})
  /\ policy' = Recorded(t)
  /\ IF Stored(t).dry THEN UNCHANGED <<last, superseded>>
     ELSE last' = t /\ superseded' = EditedSince(t)
  /\ approvals' = Concluded(t, "executed")
  /\ UNCHANGED <<taskVars, expiring, deciding, overtaken, editing, hostVars, raced>>

RecordFailure(t) ==
  /\ deciding = None
  /\ InOrder(t) /\ Channel!Conclude({t}, {})
  /\ policy' = [policy EXCEPT !.status = "error"]
  /\ approvals' = Concluded(t, "failed")
  /\ UNCHANGED <<taskVars, expiring, deciding, overtaken, editing, hostVars, historyVars>>

-----------------------------------------------------------------------------
Next ==
  \/ \E e \in Edits : CreatePolicy(e) \/ BeginEdit(e) \/ CommitEdit(e)
  \/ \E r \in Requests : RequestChange(r) \/ BeginDecision(r) \/ DecideTooLate(r)
  \/ SelectExpired \/ CommitExpired \/ CommitDecision
  \/ \E t \in Tasks :
       \/ Expire(t) \/ Apply(t) \/ ApplyFails(t) \/ Refuse(t) \/ Disturb(t)
       \/ RecordSuccess(t) \/ RecordFailure(t)

Spec == Init /\ [][Next]_vars

-----------------------------------------------------------------------------
(* Properties. *)

\* Every task is concluded or was never given to the host, and no answer was lost.
Quiet ==
  /\ disturbed = {}
  /\ \A t \in Tasks : verdict[t] = "open" => t \in expired

Described ==
  IF policy.enabled THEN [kernel |-> policy.kernel, mode |-> policy.mode, rate |-> policy.rate]
  ELSE None

\* An approved change is performed as it was when it was asked for; the policy
\* has been edited since.
Outdated ==
  last \in Requests /\ [kernel |-> Stored(last).kernel, mode |-> Stored(last).mode,
                        rate |-> Stored(last).rate] # Described

\* A policy shown as active or disabled is what the host runs (api.py,
\* _record_port_traffic_result), whatever the order of edits, approvals and
\* results; except for an outdated change, for a result that came after a newer edit,
\* which may expire, and for an edit that had not seen another write.
HostAgrees ==
  policy # None /\ Quiet /\ ~Outdated /\ ~superseded /\ ~raced =>
    /\ policy.status = "active" => rules = Described
    /\ policy.status = "disabled" => rules = None

Approved(r) == approvals[r] # None /\ approvals[r].decidedBy \notin {None, approvals[r].by}

\* PORT_TRAFFIC_SECURITY_MODEL.md: enforcement, shaping and schedules "require a
\* high-risk approval whose requester and approver differ", of just this mode, rate
\* or schedule.
OnlyApproved ==
  /\ rules # None /\ (rules.mode = "enforcing" \/ rules.rate # 0) =>
       \E r \in Requests :
         /\ Approved(r) /\ ~Stored(r).dry
         /\ Stored(r).mode = rules.mode /\ Stored(r).rate = rules.rate
  /\ policy # None /\ policy.schedule # "manual" =>
       \E r \in Requests : Approved(r) /\ ~Stored(r).dry /\ Stored(r).schedule = policy.schedule

\* The status of an approval tells what became of it: no task without a
\* decision, no task after an expiry, and the conclusion is that of its task;
\* except when the listing had found it pending before it was decided.
ApprovalAgrees ==
  \A r \in Requests \ overtaken :
    /\ Status(r) \in {None, "pending", "rejected", "expired"} <=> verdict[r] = "none"
    /\ Executes(Status(r)) <=> verdict[r] = "open"
    /\ Status(r) = "executed" <=> verdict[r] = "succeeded"
    /\ Status(r) = "failed" <=> verdict[r] = "failed"
=============================================================================
