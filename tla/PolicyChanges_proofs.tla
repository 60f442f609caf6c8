------------------------ MODULE PolicyChanges_proofs ------------------------
(* Theorems of PolicyChanges, for any number of edits, requests and users. *)
EXTENDS PolicyChanges, TLAPS

(***************************************************************************)
(* Approvals.                                                              *)
(*                                                                         *)
(* ApprovalAgrees and OnlyApproved compare rows, tasks and the host.  The  *)
(* invariant adds which rows exist (Rows), what a decision, an expiry or   *)
(* an edit under way may rely on (UnderWay), that every task of a request  *)
(* was approved (Decided) and that the approved request which explains the *)
(* host or the schedule has a task, so that no later decision can change   *)
(* it (Explained).                                                         *)
(***************************************************************************)

Rows ==
  /\ \A r \in Requests : approvals[r] = None <=> parameters[r] = None
  /\ \A t \in Tasks : verdict[t] # "none" => parameters[t] # None
  /\ \A t \in Tasks : parameters[t] # None => policy # None
  /\ \A e \in Edits : editing[e] # None => policy # None

UnderWay ==
  /\ \A r \in expiring : approvals[r] # None
  /\ \A r \in overtaken : Status(r) = "expired"
  /\ deciding # None =>
       /\ Status(deciding.request) \in {"pending", "expired"}
       /\ deciding.request \notin overtaken
       /\ verdict[deciding.request] = "none"
       /\ Executes(deciding.decision) => deciding.by # approvals[deciding.request].by

Decided == \A r \in Requests : verdict[r] # "none" => Approved(r)

Explains(r, mode, rate) ==
  /\ verdict[r] # "none" /\ ~Stored(r).dry
  /\ Stored(r).mode = mode /\ Stored(r).rate = rate

Reschedules(r, schedule) ==
  verdict[r] # "none" /\ ~Stored(r).dry /\ Stored(r).schedule = schedule

Explained ==
  /\ rules # None /\ (rules.mode = "enforcing" \/ rules.rate # 0) =>
       \E r \in Requests : Explains(r, rules.mode, rules.rate)
  /\ policy # None /\ policy.schedule # "manual" =>
       \E r \in Requests : Reschedules(r, policy.schedule)

Agrees(r) ==
  /\ Status(r) \in {None, "pending", "rejected", "expired"} <=> verdict[r] = "none"
  /\ Executes(Status(r)) <=> verdict[r] = "open"
  /\ Status(r) = "executed" <=> verdict[r] = "succeeded"
  /\ Status(r) = "failed" <=> verdict[r] = "failed"

AInv == TypeOK /\ Rows /\ UnderWay /\ Decided /\ Explained /\ ApprovalAgrees
(***************************************************************************)
(* Types.                                                                  *)
(***************************************************************************)

\* The promises of the channel, step by step.
LEMMA ChannelIssue ==
  ASSUME Channel!TypeOK, NEW t \in Tasks, Channel!Issue(t)
  PROVE  Channel!TypeOK'
BY DEF Channel!TypeOK, Channel!Issue, Channel!Terminal

LEMMA ChannelPerform ==
  ASSUME Channel!TypeOK, NEW t \in Tasks, Channel!Perform(t)
  PROVE  Channel!TypeOK'
BY DEF Channel!TypeOK, Channel!Perform, Channel!FirstAnswer, Channel!Terminal

LEMMA ChannelRefuse ==
  ASSUME Channel!TypeOK, NEW t \in Tasks, Channel!Refuse(t)
  PROVE  Channel!TypeOK'
BY DEF Channel!TypeOK, Channel!Refuse, Channel!FirstAnswer, Channel!Terminal

LEMMA ChannelDisturb ==
  ASSUME Channel!TypeOK, NEW t \in Tasks, Channel!Disturb({t})
  PROVE  Channel!TypeOK'
BY DEF Channel!TypeOK, Channel!Disturb, Channel!Terminal

LEMMA ChannelConclude ==
  ASSUME Channel!TypeOK, NEW S, NEW W, Channel!Conclude(S, W)
  PROVE  Channel!TypeOK'
BY DEF Channel!TypeOK, Channel!Conclude, Channel!Terminal

LEMMA ChannelUnchanged ==
  ASSUME Channel!TypeOK, UNCHANGED channelVars
  PROVE  Channel!TypeOK'
BY DEF Channel!TypeOK, channelVars

LEMMA ParametersType == ASSUME NEW p \in Policy PROVE ParametersOf(p) \in Parameters
BY DEF ParametersOf, Policy, Parameters

LEMMA NewPolicyType ==
  ASSUME NEW status \in {"pending", "active", "disabled", "error"}
  PROVE  NewPolicy(1, status) \in Policy
BY DEF NewPolicy, Policy, Kernels, Modes, Rates, Schedules

LEMMA CreateTaskTypeOK ==
  ASSUME TypeOK, NEW t \in Tasks, CreateTask(t)
  PROVE  Channel!TypeOK' /\ issued' \in Seq(Tasks)
<1>1. Channel!TypeOK' BY ChannelIssue DEF CreateTask, TypeOK
<1>2. issued' \in Seq(Tasks) BY DEF CreateTask, TypeOK
<1> QED BY <1>1, <1>2

LEMMA InitTypeOK == Init => TypeOK
<1> SUFFICES ASSUME Init PROVE TypeOK
  OBVIOUS
<1>1. Channel!TypeOK BY DEF Init, Channel!Init, Channel!TypeOK, Channel!Terminal
<1>2. policy \in Policy \cup {None}
  <2>1. NewPolicy(1, "active") \in Policy BY NewPolicyType
  <2> QED BY <2>1 DEF Init
<1>4. rules \in Rules \cup {None}
  <2>1. [kernel |-> 1, mode |-> "monitor_only", rate |-> 0] \in Rules
    BY DEF Rules, Kernels, Modes, Rates
  <2> QED BY <2>1 DEF Init
<1>3. issued \in Seq(Tasks) BY DEF Init
<1>5. /\ faults \in 0 .. MaxFaults
      /\ parameters \in [Tasks -> Parameters \cup {None}]
      /\ approvals \in [Requests -> Approval \cup {None}]
      /\ editing \in [Edits -> [read : Policy, new : Edited] \cup {None}]
  BY ConstantsAssumption DEF Init
<1>6. /\ expired = {} /\ expiring = {} /\ overtaken = {} /\ deciding = None
      /\ last = None /\ superseded = FALSE /\ raced = FALSE
  BY DEF Init
<1> QED BY <1>1, <1>2, <1>3, <1>4, <1>5, <1>6 DEF TypeOK

\* The edits.
LEMMA EditTypeOK ==
  ASSUME AInv, NEW e \in Edits, CreatePolicy(e) \/ BeginEdit(e) \/ CommitEdit(e)
  PROVE  TypeOK'
<1> TypeOK /\ e \in Tasks BY DEF AInv, Tasks
<1>1. CASE CreatePolicy(e)
  <2>1. Channel!TypeOK' /\ issued' \in Seq(Tasks)
    BY <1>1, CreateTaskTypeOK DEF CreatePolicy
  <2>2. policy' \in Policy
    BY <1>1, NewPolicyType DEF CreatePolicy
  <2>3. parameters' \in [Tasks -> Parameters \cup {None}]
    BY <1>1, <2>2, ParametersType DEF CreatePolicy, TypeOK
  <2> QED BY <1>1, <2>1, <2>2, <2>3 DEF CreatePolicy, TypeOK, approvalVars, hostVars, historyVars
<1>2. CASE BeginEdit(e)
  <2>1. Channel!TypeOK' BY <1>2, ChannelUnchanged DEF BeginEdit, TypeOK
  <2>2. PICK new \in Edited : editing' = [editing EXCEPT ![e] = [read |-> policy, new |-> new]]
    BY <1>2 DEF BeginEdit
  <2>3. policy \in Policy BY <1>2 DEF BeginEdit, TypeOK
  <2>4. editing' \in [Edits -> [read : Policy, new : Edited] \cup {None}]
    BY <2>2, <2>3 DEF TypeOK
  <2> QED BY <1>2, <2>1, <2>4 DEF BeginEdit, TypeOK, taskVars, approvalVars, hostVars, historyVars
<1>3. CASE CommitEdit(e)
  <2> DEFINE read == editing[e].read
             new  == editing[e].new
  <2>1. Channel!TypeOK' /\ issued' \in Seq(Tasks)
    BY <1>3, CreateTaskTypeOK DEF CommitEdit
  <2>2. read \in Policy /\ new \in Edited /\ new.kernel \in Kernels /\ new.enabled \in BOOLEAN
    BY <1>3 DEF CommitEdit, TypeOK, Edited
  <2>3. [read EXCEPT !.kernel = new.kernel, !.enabled = new.enabled] \in Policy
    BY <2>2 DEF Policy
  <2>4. parameters' \in [Tasks -> Parameters \cup {None}]
    BY <1>3, <2>3, ParametersType DEF CommitEdit, TypeOK
  <2>5. policy' \in Policy \cup {None}
    <3>1. policy' = [policy EXCEPT !.kernel  = Written(read.kernel, new.kernel, @),
                                  !.enabled = Written(read.enabled, new.enabled, @),
                                  !.status  = Written(read.status, "pending", @)]
      BY <1>3 DEF CommitEdit
    <3>2. policy \in Policy BY <1>3 DEF CommitEdit, AInv, Rows, TypeOK
    <3> QED BY <3>1, <3>2, <2>2 DEF Policy, Written
  <2>6. raced' \in BOOLEAN BY <1>3, Zenon DEF CommitEdit
  <2>7. editing' \in [Edits -> [read : Policy, new : Edited] \cup {None}]
    BY <1>3 DEF CommitEdit, TypeOK
  <2> QED BY <1>3, <2>1, <2>4, <2>5, <2>6, <2>7 DEF CommitEdit, TypeOK, approvalVars, hostVars
<1> QED BY <1>1, <1>2, <1>3
\* A request, and what has been read of it.
LEMMA RequestTypeOK ==
  ASSUME AInv, NEW r \in Requests, RequestChange(r) \/ BeginDecision(r) \/ SelectExpired
  PROVE  TypeOK'
<1> TypeOK /\ r \in Tasks BY DEF AInv, Tasks
<1>1. CASE RequestChange(r)
  <2>1. PICK c \in Changes, u \in Users :
          /\ parameters' = [parameters EXCEPT ![r] =
               ParametersOf([policy EXCEPT !.enabled = TRUE, !.mode = c.mode,
                                           !.rate = IF c.shape THEN 1 ELSE @,
                                           !.schedule = c.schedule])]
          /\ approvals' = [approvals EXCEPT ![r] = NewApproval(u, c.schedule # policy.schedule)]
    BY <1>1 DEF RequestChange
  <2>2. policy \in Policy BY <1>1 DEF RequestChange, TypeOK
  <2>3. c.mode \in Modes /\ c.shape \in BOOLEAN /\ c.schedule \in Schedules
    BY ConstantsAssumption
  <2>4. [policy EXCEPT !.enabled = TRUE, !.mode = c.mode,
                       !.rate = IF c.shape THEN 1 ELSE @, !.schedule = c.schedule] \in Policy
    BY <2>2, <2>3 DEF Policy, Rates
  <2>5. parameters' \in [Tasks -> Parameters \cup {None}]
    BY <2>1, <2>4, ParametersType DEF TypeOK
  <2>6. (c.schedule # policy.schedule) \in BOOLEAN BY Zenon
  <2>7. NewApproval(u, c.schedule # policy.schedule) \in Approval
    BY <2>6 DEF NewApproval, Approval, Statuses
  <2>8. approvals' \in [Requests -> Approval \cup {None}] BY <2>1, <2>7 DEF TypeOK
  <2>9. Channel!TypeOK' BY <1>1, ChannelUnchanged DEF RequestChange, TypeOK
  <2> QED BY <1>1, <2>5, <2>8, <2>9 DEF RequestChange, TypeOK, hostVars, historyVars
<1>2. CASE BeginDecision(r)
  <2>1. Channel!TypeOK' BY <1>2, ChannelUnchanged DEF BeginDecision, TypeOK
  <2>2. deciding' \in Decision \cup {None} BY <1>2 DEF BeginDecision, Decision
  <2> QED BY <1>2, <2>1, <2>2 DEF BeginDecision, TypeOK, taskVars, hostVars, historyVars
<1>3. CASE SelectExpired
  <2>1. Channel!TypeOK' BY <1>3, ChannelUnchanged DEF SelectExpired, TypeOK
  <2>2. expiring' \subseteq Requests BY <1>3 DEF SelectExpired
  <2> QED BY <1>3, <2>1, <2>2 DEF SelectExpired, TypeOK, taskVars, hostVars, historyVars
<1> QED BY <1>1, <1>2, <1>3

\* A decision or an expiry, and the failure of the other.
LEMMA DecisionTypeOK ==
  ASSUME AInv, CommitDecision \/ CommitExpired \/ \E r \in Requests : DecideTooLate(r)
  PROVE  TypeOK'
<1> TypeOK BY DEF AInv
<1>1. ASSUME NEW a \in Approval, NEW s \in Statuses
      PROVE  [a EXCEPT !.status = s] \in Approval
  BY DEF Approval
<1>2. CASE CommitDecision
  <2> DEFINE r == deciding.request
             decision == deciding.decision
  <2>1. /\ deciding \in Decision /\ r \in Requests /\ r \in Tasks
        /\ decision \in {"approved", "dry_run_only", "rejected"} /\ deciding.by \in Users
    BY <1>2 DEF CommitDecision, TypeOK, Decision, Tasks
  <2>2. approvals[r] \in Approval /\ parameters[r] \in Parameters
    <3>1. Status(r) \in {"pending", "expired"} BY <1>2 DEF CommitDecision, AInv, UnderWay
    <3>2. approvals[r] # None
      BY <3>1, ConstantsAssumption DEF Status, Statuses
    <3> QED BY <2>1, <3>2 DEF AInv, Rows, TypeOK
  <2>3. approvals' \in [Requests -> Approval \cup {None}]
    <3>1. approvals' = [approvals EXCEPT ![r].status = decision, ![r].decidedBy = deciding.by]
      BY <1>2 DEF CommitDecision
    <3>2. approvals' = [approvals EXCEPT ![r] =
             [approvals[r] EXCEPT !.status = decision, !.decidedBy = deciding.by]]
      BY <3>1, <2>1 DEF TypeOK
    <3>3. [approvals[r] EXCEPT !.status = decision, !.decidedBy = deciding.by] \in Approval
      BY <2>1, <2>2 DEF Approval, Statuses
    <3> QED BY <3>2, <3>3, <2>1 DEF TypeOK
  <2>4. /\ Channel!TypeOK' /\ issued' \in Seq(Tasks)
        /\ parameters' \in [Tasks -> Parameters \cup {None}]
    <3>1. CASE Executes(decision)
      <4>1. CreateTask(r) /\ parameters' = [parameters EXCEPT ![r].dry = Dry(decision)]
        BY <1>2, <3>1 DEF CommitDecision
      <4>2. parameters' = [parameters EXCEPT ![r] = [parameters[r] EXCEPT !.dry = Dry(decision)]]
        BY <4>1, <2>1 DEF TypeOK
      <4>3. Dry(decision) \in BOOLEAN BY Zenon DEF Dry
      <4>4. [parameters[r] EXCEPT !.dry = Dry(decision)] \in Parameters
        BY <4>3, <2>2 DEF Parameters
      <4>5. parameters' \in [Tasks -> Parameters \cup {None}] BY <4>2, <4>4, <2>1 DEF TypeOK
      <4> QED BY <4>1, <4>5, <2>1, CreateTaskTypeOK
    <3>2. CASE ~Executes(decision)
      BY <1>2, <3>2, ChannelUnchanged DEF CommitDecision, TypeOK
    <3> QED BY <3>1, <3>2
  <2> QED BY <1>2, <2>3, <2>4 DEF CommitDecision, TypeOK, hostVars, historyVars
<1>3. CASE CommitExpired
  <2>1. Channel!TypeOK' BY <1>3, ChannelUnchanged DEF CommitExpired, TypeOK
  <2>2. \A r \in expiring : approvals[r] \in Approval BY DEF AInv, UnderWay, TypeOK
  <2>3. \A r \in expiring : [approvals[r] EXCEPT !.status = "expired"] \in Approval
    BY <1>1, <2>2 DEF Statuses
  <2>4. approvals' \in [Requests -> Approval \cup {None}]
    BY <1>3, <2>3 DEF CommitExpired, TypeOK
  <2>5. overtaken' \subseteq Requests BY <1>3 DEF CommitExpired, TypeOK
  <2> QED BY <1>3, <2>1, <2>4, <2>5 DEF CommitExpired, TypeOK, taskVars, hostVars, historyVars
<1>4. ASSUME NEW r \in Requests, DecideTooLate(r) PROVE TypeOK'
  <2>1. Channel!TypeOK' BY <1>4, ChannelUnchanged DEF DecideTooLate, TypeOK
  <2>2. approvals' = [approvals EXCEPT ![r] = [approvals[r] EXCEPT !.status = "expired"]]
    BY <1>4 DEF DecideTooLate, TypeOK
  <2>3. approvals' \in [Requests -> Approval \cup {None}]
    <3>1. approvals[r] # None
      BY <1>4, ConstantsAssumption DEF DecideTooLate, Status, Statuses
    <3> QED BY <3>1, <2>2, <1>1 DEF TypeOK, Statuses
  <2> QED BY <1>4, <2>1, <2>3 DEF DecideTooLate, TypeOK, taskVars, hostVars, historyVars
<1> QED BY <1>2, <1>3, <1>4

\* The host.
LEMMA DesiredType ==
  ASSUME TypeOK, NEW p \in Parameters
  PROVE  Desired(p) \in Rules \cup {None}
BY DEF Desired, Parameters, Rules, TypeOK

LEMMA HostTypeOK ==
  ASSUME AInv, NEW t \in Tasks,
         Expire(t) \/ Apply(t) \/ ApplyFails(t) \/ Refuse(t) \/ Disturb(t)
  PROVE  TypeOK'
<1> TypeOK BY DEF AInv
<1>1. CASE Expire(t)
  <2>1. Channel!TypeOK' BY <1>1, ChannelUnchanged DEF Expire, TypeOK
  <2> QED BY <1>1, <2>1 DEF Expire, TypeOK, approvalVars, hostVars, historyVars
<1>2. CASE Apply(t) \/ ApplyFails(t)
  <2>1. Channel!Perform(t) BY <1>2 DEF Apply, ApplyFails
  <2>2. Channel!TypeOK' BY <2>1, ChannelPerform DEF TypeOK
  <2>3. verdict[t] = "open" BY <1>2 DEF Apply, ApplyFails, IsNext
  <2>4. Stored(t) \in Parameters BY <2>3 DEF AInv, Rows, TypeOK, Stored
  <2>5. rules' \in Rules \cup {None}
    BY <1>2, <2>4, DesiredType DEF Apply, ApplyFails, TypeOK
  <2>6. faults' \in 0 .. MaxFaults
    BY <1>2, ConstantsAssumption DEF Apply, ApplyFails, Fault, TypeOK
  <2>7. UNCHANGED <<taskVars, policy, approvalVars, editing, historyVars>>
    BY <1>2 DEF Apply, ApplyFails
  <2> QED BY <2>2, <2>5, <2>6, <2>7 DEF TypeOK, taskVars, approvalVars, historyVars
<1>3. CASE Refuse(t)
  <2>1. Channel!TypeOK' BY <1>3, ChannelRefuse DEF Refuse, TypeOK
  <2> QED BY <1>3, <2>1 DEF Refuse, TypeOK, taskVars, approvalVars, hostVars, historyVars
<1>4. CASE Disturb(t)
  <2>1. Channel!TypeOK' BY <1>4, ChannelDisturb DEF Disturb, TypeOK
  <2>2. faults' \in 0 .. MaxFaults
    BY <1>4, ConstantsAssumption DEF Disturb, Fault, TypeOK
  <2> QED BY <1>4, <2>1, <2>2 DEF Disturb, TypeOK, taskVars, approvalVars, historyVars
<1> QED BY <1>1, <1>2, <1>3, <1>4

\* Results.
LEMMA ConcludedType ==
  ASSUME TypeOK, NEW t, NEW status \in Statuses
  PROVE  Concluded(t, status) \in [Requests -> Approval \cup {None}]
<1>1. CASE t \in Requests /\ Executes(Status(t))
  <2>1. Executes(Status(t)) => Status(t) \in Statuses BY DEF Executes, Statuses
  <2>2. approvals[t] \in Approval
    BY <1>1, <2>1, ConstantsAssumption DEF Status, TypeOK
  <2>3. [approvals[t] EXCEPT !.status = status] \in Approval BY <2>2 DEF Approval
  <2>4. Concluded(t, status) = [approvals EXCEPT ![t] = [approvals[t] EXCEPT !.status = status]]
    BY <1>1 DEF Concluded, TypeOK
  <2> QED BY <1>1, <2>3, <2>4 DEF TypeOK
<1>2. CASE ~(t \in Requests /\ Executes(Status(t)))
  BY <1>2 DEF Concluded, TypeOK
<1> QED BY <1>1, <1>2

LEMMA RecordedType ==
  ASSUME policy \in Policy, NEW t \in Tasks, Stored(t) \in Parameters
  PROVE  Recorded(t) \in Policy
<1>1. /\ Stored(t).mode \in Modes /\ Stored(t).rate \in Rates
      /\ Stored(t).schedule \in Schedules
  BY DEF Parameters
<1>2. [policy EXCEPT !.status = "disabled"] \in Policy BY DEF Policy
<1>3. ASSUME NEW schedule \in Schedules
      PROVE  [policy EXCEPT !.mode = Stored(t).mode, !.rate = Stored(t).rate,
                            !.status = "active", !.schedule = schedule] \in Policy
  BY <1>1, <1>3 DEF Policy
<1>4. policy.schedule \in Schedules BY DEF Policy
<1> QED BY <1>1, <1>2, <1>3, <1>4 DEF Recorded

LEMMA RecordTypeOK ==
  ASSUME AInv, NEW t \in Tasks, RecordSuccess(t) \/ RecordFailure(t)
  PROVE  TypeOK'
<1> TypeOK BY DEF AInv
<1>1. Channel!TypeOK' BY ChannelConclude DEF RecordSuccess, RecordFailure, TypeOK
<1>2. verdict[t] = "open" BY DEF RecordSuccess, RecordFailure, Channel!Conclude
<1>3. policy \in Policy /\ Stored(t) \in Parameters
  BY <1>2 DEF AInv, Rows, TypeOK, Stored
<1>4. policy' \in Policy
  <2>1. [policy EXCEPT !.status = "error"] \in Policy BY <1>3 DEF Policy
  <2> QED BY <1>3, <2>1, RecordedType DEF RecordSuccess, RecordFailure
<1>5. approvals' \in [Requests -> Approval \cup {None}]
  <2>1. "executed" \in Statuses /\ "failed" \in Statuses BY DEF Statuses
  <2> QED BY <2>1, ConcludedType DEF RecordSuccess, RecordFailure
<1>6. last' \in Tasks \cup {None} /\ superseded' \in BOOLEAN /\ raced' \in BOOLEAN
  <2>1. EditedSince(t) \in BOOLEAN BY Zenon DEF EditedSince
  <2>2. last' \in Tasks \cup {None} BY DEF RecordSuccess, RecordFailure, TypeOK, historyVars
  <2>3. superseded' \in {superseded, EditedSince(t)}
    BY Zenon DEF RecordSuccess, RecordFailure, historyVars
  <2>4. superseded' \in BOOLEAN BY <2>1, <2>3 DEF TypeOK
  <2>5. raced' = raced BY DEF RecordSuccess, RecordFailure, historyVars
  <2> QED BY <2>2, <2>4, <2>5 DEF TypeOK
<1>7. UNCHANGED <<taskVars, expiring, deciding, overtaken, editing, hostVars>>
  BY DEF RecordSuccess, RecordFailure
<1> QED BY <1>1, <1>4, <1>5, <1>6, <1>7 DEF TypeOK, taskVars, hostVars

LEMMA NextTypeOK == AInv /\ [Next]_vars => TypeOK'
<1> SUFFICES ASSUME AInv, [Next]_vars PROVE TypeOK'
  OBVIOUS
<1>1. CASE UNCHANGED vars
  <2>1. Channel!TypeOK' BY <1>1, ChannelUnchanged DEF vars, AInv, TypeOK
  <2> QED BY <1>1, <2>1 DEF vars, AInv, TypeOK, taskVars, approvalVars, hostVars, historyVars
<1>2. CASE SelectExpired
  <2>1. expiring' # {} /\ expiring' \subseteq Requests BY <1>2 DEF SelectExpired
  <2>2. PICK r \in Requests : r \in expiring' BY <2>1
  <2> QED BY <1>2, <2>2, RequestTypeOK
<1>3. CASE \E r \in Requests : RequestChange(r) \/ BeginDecision(r)
  BY <1>3, RequestTypeOK
<1>4. CASE CommitDecision \/ CommitExpired \/ \E r \in Requests : DecideTooLate(r)
  BY <1>4, DecisionTypeOK
<1> QED BY <1>1, <1>2, <1>3, <1>4, EditTypeOK, HostTypeOK, RecordTypeOK DEF Next

(***************************************************************************)
(* The approvals, step by step.                                            *)
(***************************************************************************)

LEMMA AgreesAll == ApprovalAgrees <=> \A r \in Requests \ overtaken : Agrees(r)
BY DEF ApprovalAgrees, Agrees

LEMMA AgreesAllNext == ApprovalAgrees' <=> \A r \in Requests \ overtaken' : Agrees(r)'
BY DEF ApprovalAgrees, Agrees

LEMMA InitAInv == Init => AInv
<1> SUFFICES ASSUME Init PROVE AInv
  OBVIOUS
<1>1. TypeOK BY InitTypeOK
<1>2. /\ verdict = [t \in Tasks |-> "none"] /\ parameters = [t \in Tasks |-> None]
      /\ approvals = [r \in Requests |-> None] /\ editing = [e \in Edits |-> None]
      /\ expiring = {} /\ overtaken = {} /\ deciding = None
  BY DEF Init, Channel!Init
<1>3. Rows BY <1>2 DEF Rows, Tasks
<1>4. UnderWay BY <1>2 DEF UnderWay
<1>5. Decided BY <1>2 DEF Decided, Tasks
<1>6. Explained
  <2>1. rules = None \/ (rules.mode = "monitor_only" /\ rules.rate = 0) BY DEF Init
  <2>2. policy = None \/ policy.schedule = "manual" BY DEF Init, NewPolicy
  <2> QED BY <2>1, <2>2 DEF Explained
<1>7. ApprovalAgrees
  <2>1. \A r \in Requests : Status(r) = None /\ verdict[r] = "none" BY <1>2 DEF Status, Tasks
  <2> QED BY <2>1, ConstantsAssumption DEF ApprovalAgrees, Executes, Statuses
<1> QED BY <1>1, <1>3, <1>4, <1>5, <1>6, <1>7 DEF AInv

\* What a task has explained it goes on explaining.
LEMMA ExplainedStep ==
  ASSUME Explained,
         \A r \in Requests : verdict[r] # "none" => verdict'[r] # "none" /\ parameters'[r] = parameters[r],
         \/ rules' = rules \/ rules' = None
         \/ rules'.mode = "monitor_only" /\ rules'.rate = 0
         \/ \E r \in Requests : verdict[r] # "none" /\ ~parameters[r].dry
              /\ rules'.mode = parameters[r].mode /\ rules'.rate = parameters[r].rate,
         \/ policy' = policy
         \/ policy # None /\ policy'.schedule = policy.schedule
         \/ policy'.schedule = "manual"
         \/ \E r \in Requests : verdict[r] # "none" /\ ~parameters[r].dry
              /\ policy'.schedule = parameters[r].schedule
  PROVE  Explained'
<1>1. ASSUME rules' # None, rules'.mode = "enforcing" \/ rules'.rate # 0
      PROVE  \E r \in Requests : Explains(r, rules.mode, rules.rate)'
  <2>1. \E r \in Requests : verdict[r] # "none" /\ ~parameters[r].dry
              /\ rules'.mode = parameters[r].mode /\ rules'.rate = parameters[r].rate
    BY <1>1 DEF Explained, Explains, Stored
  <2> QED BY <2>1 DEF Explains, Stored
<1>2. ASSUME policy' # None, policy'.schedule # "manual"
      PROVE  \E r \in Requests : Reschedules(r, policy.schedule)'
  <2>1. \E r \in Requests : verdict[r] # "none" /\ ~parameters[r].dry
              /\ policy'.schedule = parameters[r].schedule
    BY <1>2 DEF Explained, Reschedules, Stored
  <2> QED BY <2>1 DEF Reschedules, Stored
<1> QED BY <1>1, <1>2 DEF Explained

\* A new task.
LEMMA NewTask ==
  ASSUME TypeOK, NEW t \in Tasks, CreateTask(t)
  PROVE  /\ verdict[t] = "none" /\ issued' = Append(issued, t)
         /\ \A u \in Tasks : verdict'[u] = IF u = t THEN "open" ELSE verdict[u]
         /\ UNCHANGED <<outcome, performed, disturbed>>
BY DEF CreateTask, Channel!Issue, TypeOK, Channel!TypeOK

LEMMA EditAInv ==
  ASSUME AInv, TypeOK', NEW e \in Edits, CreatePolicy(e) \/ BeginEdit(e) \/ CommitEdit(e)
  PROVE  AInv'
<1> e \in Tasks /\ e \notin Requests /\ Requests \subseteq Tasks BY ConstantsAssumption DEF Tasks
<1>1. UNCHANGED <<approvals, expiring, deciding, overtaken, rules>>
  BY DEF CreatePolicy, BeginEdit, CommitEdit, approvalVars, hostVars
<1>2. /\ \A u \in Tasks : u # e => verdict'[u] = verdict[u] /\ parameters'[u] = parameters[u]
      /\ verdict'[e] # "none" => parameters'[e] # None
  <2>1. CASE BeginEdit(e)
    BY <2>1 DEF BeginEdit, channelVars, taskVars, AInv, Rows
  <2>2. CASE CreatePolicy(e) \/ CommitEdit(e)
    <3>1. \A u \in Tasks : verdict'[u] = IF u = e THEN "open" ELSE verdict[u]
      BY <2>2, NewTask DEF CreatePolicy, CommitEdit, AInv
    <3>2. \E p \in Policy : parameters' = [parameters EXCEPT ![e] = ParametersOf(p)]
      <4>1. CASE CreatePolicy(e)
        <5>1. policy' \in Policy BY <4>1, NewPolicyType DEF CreatePolicy
        <5> QED BY <4>1, <5>1 DEF CreatePolicy
      <4>2. CASE CommitEdit(e)
        <5> DEFINE read == editing[e].read
                   new  == editing[e].new
        <5>1. read \in Policy /\ new.kernel \in Kernels /\ new.enabled \in BOOLEAN
          BY <4>2 DEF CommitEdit, AInv, TypeOK, Edited
        <5>2. [read EXCEPT !.kernel = new.kernel, !.enabled = new.enabled] \in Policy
          BY <5>1 DEF Policy
        <5> QED BY <4>2, <5>2 DEF CommitEdit
      <4> QED BY <2>2, <4>1, <4>2
    <3>3. parameters'[e] \in Parameters
      BY <3>2, ParametersType DEF AInv, TypeOK
    <3>4. \A u \in Tasks : u # e => parameters'[u] = parameters[u]
      BY <3>2 DEF AInv, TypeOK
    <3> QED BY <3>1, <3>3, <3>4, ConstantsAssumption
  <2> QED BY <2>1, <2>2
<1>3. /\ policy' # None
      /\ \/ policy' = policy \/ policy'.schedule = "manual"
         \/ policy # None /\ policy'.schedule = policy.schedule
  <2>1. CASE BeginEdit(e) BY <2>1 DEF BeginEdit
  <2>2. CASE CreatePolicy(e)
    <3>1. policy' \in Policy BY <2>2, NewPolicyType DEF CreatePolicy
    <3> QED BY <2>2, <3>1, ConstantsAssumption DEF CreatePolicy, NewPolicy
  <2>3. CASE CommitEdit(e)
    <3>1. policy \in Policy BY <2>3 DEF CommitEdit, AInv, Rows, TypeOK
    <3> DEFINE kernel == Written(editing[e].read.kernel, editing[e].new.kernel, policy.kernel)
               enabled == Written(editing[e].read.enabled, editing[e].new.enabled, policy.enabled)
               status == Written(editing[e].read.status, "pending", policy.status)
    <3>2. policy' = [policy EXCEPT !.kernel = kernel, !.enabled = enabled, !.status = status]
      BY <2>3 DEF CommitEdit
    <3> HIDE DEF kernel, enabled, status
    <3>3. policy'.schedule = policy.schedule BY <3>1, <3>2 DEF Policy
    <3>4. policy # None BY <3>1, ConstantsAssumption
    <3>5. "schedule" \in DOMAIN policy' /\ policy' \in Policy \cup {None}
      BY <3>1, <3>2 DEF Policy, TypeOK
    <3>6. policy' # None
      <4>1. editing[e].read \in Policy /\ editing[e].new \in Edited
        BY <2>3 DEF CommitEdit, AInv, TypeOK
      <4>2. kernel \in Kernels /\ enabled \in BOOLEAN
            /\ status \in {"pending", "active", "disabled", "error"}
        BY <3>1, <4>1 DEF kernel, enabled, status, Written, Policy, Edited
      <4>3. policy' \in Policy BY <3>1, <3>2, <4>2 DEF Policy
      <4> QED BY <4>3, ConstantsAssumption
    <3> QED BY <3>3, <3>4, <3>6
  <2> QED BY <2>1, <2>2, <2>3
<1>4. \A r \in Requests : verdict'[r] = verdict[r] /\ parameters'[r] = parameters[r]
  BY <1>2
<1>5. Rows'
  BY <1>1, <1>2, <1>3, <1>4 DEF AInv, Rows
<1>6. UnderWay'
  <2>1. deciding # None => deciding.request \in Requests BY DEF AInv, TypeOK, Decision
  <2> QED BY <1>1, <1>4, <2>1 DEF AInv, UnderWay, Status
<1>7. Decided' BY <1>1, <1>4 DEF AInv, Decided, Approved
<1>8. ApprovalAgrees' BY <1>1, <1>4 DEF AInv, ApprovalAgrees, Status
<1>9. Explained' BY <1>1, <1>3, <1>4, ExplainedStep DEF AInv
<1> QED BY <1>5, <1>6, <1>7, <1>8, <1>9 DEF AInv

LEMMA RequestAInv ==
  ASSUME AInv, TypeOK', NEW r \in Requests, RequestChange(r)
  PROVE  AInv'
<1> r \in Tasks /\ Requests \subseteq Tasks BY DEF Tasks
<1>1. /\ UNCHANGED <<verdict, policy, expiring, deciding, overtaken, editing, rules>>
      /\ policy # None /\ parameters[r] = None
  BY DEF RequestChange, channelVars, hostVars, IsNew
<1>2. approvals[r] = None /\ verdict[r] = "none" BY <1>1 DEF AInv, Rows
<1>3. PICK c \in Changes, u \in Users :
        /\ parameters' = [parameters EXCEPT ![r] =
             ParametersOf([policy EXCEPT !.enabled = TRUE, !.mode = c.mode,
                                         !.rate = IF c.shape THEN 1 ELSE @,
                                         !.schedule = c.schedule])]
        /\ approvals' = [approvals EXCEPT ![r] = NewApproval(u, c.schedule # policy.schedule)]
  BY DEF RequestChange
<1>4. /\ \A t \in Tasks : t # r => parameters'[t] = parameters[t]
      /\ \A q \in Requests : q # r => approvals'[q] = approvals[q]
  BY <1>3 DEF AInv, TypeOK
<1>5. /\ approvals'[r].status = "pending" /\ approvals'[r] # None /\ parameters'[r] # None
  <2>1. approvals'[r].status = "pending" BY <1>3 DEF NewApproval, AInv, TypeOK
  <2>2. policy \in Policy BY <1>1 DEF AInv, TypeOK
  <2>3. c.mode \in Modes /\ c.shape \in BOOLEAN /\ c.schedule \in Schedules
    BY ConstantsAssumption
  <2>4. [policy EXCEPT !.enabled = TRUE, !.mode = c.mode,
                       !.rate = IF c.shape THEN 1 ELSE @, !.schedule = c.schedule] \in Policy
    BY <2>2, <2>3 DEF Policy, Rates
  <2>5. parameters'[r] \in Parameters BY <1>3, <2>4, ParametersType DEF AInv, TypeOK
  <2>6. (c.schedule # policy.schedule) \in BOOLEAN BY Zenon
  <2>7. NewApproval(u, c.schedule # policy.schedule) \in Approval
    BY <2>6 DEF NewApproval, Approval, Statuses
  <2>8. approvals'[r] \in Approval BY <1>3, <2>7 DEF AInv, TypeOK
  <2> QED BY <2>1, <2>5, <2>8, ConstantsAssumption
<1>6. Rows' BY <1>1, <1>4, <1>5 DEF AInv, Rows
<1>7. UnderWay'
  <2>1. ASSUME deciding # None PROVE deciding.request # r /\ deciding.request \in Requests
    <3>1. Status(r) = None BY <1>2 DEF Status
    <3> QED BY <2>1, <3>1, ConstantsAssumption DEF AInv, UnderWay, Statuses, TypeOK, Decision
  <2>2. r \notin expiring BY <1>2 DEF AInv, UnderWay
  <2>3. expiring \subseteq Requests /\ overtaken \subseteq Requests BY DEF AInv, TypeOK
  <2>4. r \notin overtaken
    <3>1. Status(r) = None BY <1>2 DEF Status
    <3> QED BY <3>1, ConstantsAssumption DEF AInv, UnderWay, Statuses
  <2> QED BY <1>1, <1>4, <2>1, <2>2, <2>3, <2>4 DEF AInv, UnderWay, Status
<1>8. Decided' BY <1>1, <1>2, <1>4 DEF AInv, Decided, Approved
<1>9. ApprovalAgrees'
  <2> SUFFICES ASSUME NEW q \in Requests \ overtaken PROVE Agrees(q)'
    BY <1>1, AgreesAllNext
  <2>1. CASE q = r
    <3>1. Status(r)' = "pending" BY <1>5 DEF Status
    <3> QED BY <2>1, <3>1, <1>1, <1>2 DEF Agrees, Executes
  <2>2. CASE q # r
    BY <2>2, <1>1, <1>4, AgreesAll DEF AInv, Agrees, Status
  <2> QED BY <2>1, <2>2
<1>10. Explained'
  <2>1. \A q \in Requests : verdict[q] # "none" => verdict'[q] # "none" /\ parameters'[q] = parameters[q]
    BY <1>1, <1>2, <1>4
  <2> QED BY <2>1, <1>1, ExplainedStep DEF AInv
<1> QED BY <1>6, <1>7, <1>8, <1>9, <1>10 DEF AInv

\* What is read before a decision or an expiry.
LEMMA ReadAInv ==
  ASSUME AInv, TypeOK', SelectExpired \/ \E r \in Requests : BeginDecision(r)
  PROVE  AInv'
<1>1. UNCHANGED <<verdict, parameters, policy, approvals, overtaken, editing, rules>>
  BY DEF SelectExpired, BeginDecision, channelVars, taskVars, hostVars
<1>2. (Rows /\ Decided /\ Explained /\ ApprovalAgrees)'
  BY <1>1 DEF AInv, Rows, Decided, Approved, Explained, Explains, Reschedules, Stored,
              ApprovalAgrees, Status
<1>3. \A r \in Requests : Status(r) = "pending" => approvals[r] # None
  BY ConstantsAssumption DEF Status, Statuses
<1>4. UnderWay'
  <2>1. CASE SelectExpired
    <3>1. \A r \in expiring' : approvals[r] # None BY <2>1, <1>3 DEF SelectExpired
    <3>2. deciding' = deciding BY <2>1 DEF SelectExpired
    <3> QED BY <3>1, <3>2, <1>1 DEF AInv, UnderWay, Status
  <2>2. ASSUME NEW r \in Requests, BeginDecision(r) PROVE UnderWay'
    <3>1. PICK u \in Users, decision \in {"approved", "dry_run_only", "rejected"} :
            /\ Independent(r, u, decision)
            /\ deciding' = [request |-> r, by |-> u, decision |-> decision]
      BY <2>2 DEF BeginDecision
    <3>2. Status(r) = "pending" /\ expiring' = expiring BY <2>2 DEF BeginDecision
    <3>3. verdict[r] = "none"
      <4>1. r \notin overtaken BY <3>2 DEF AInv, UnderWay
      <4> QED BY <4>1, <3>2, AgreesAll DEF AInv, Agrees
    <3>4. r \notin overtaken' BY <1>1, <3>2 DEF AInv, UnderWay
    <3> QED BY <1>1, <3>1, <3>2, <3>3, <3>4 DEF AInv, UnderWay, Status, Independent
  <2> QED BY <2>1, <2>2
<1> QED BY <1>2, <1>4 DEF AInv

LEMMA TooLateAInv ==
  ASSUME AInv, TypeOK', NEW r \in Requests, DecideTooLate(r)
  PROVE  AInv'
<1>1. /\ UNCHANGED <<verdict, parameters, policy, expiring, deciding, overtaken, editing, rules>>
      /\ deciding = None /\ Status(r) = "pending"
  BY DEF DecideTooLate, channelVars, taskVars, hostVars
<1>2. approvals[r] # None BY <1>1, ConstantsAssumption DEF Status, Statuses
<1>3. approvals[r] \in Approval BY <1>2 DEF AInv, TypeOK
<1>4. approvals' = [approvals EXCEPT ![r] = [approvals[r] EXCEPT !.status = "expired"]]
  BY DEF DecideTooLate, AInv, TypeOK
<1>5. approvals'[r] \in Approval BY <1>3, <1>4 DEF AInv, TypeOK, Approval, Statuses
<1>6. /\ approvals'[r] # None /\ approvals'[r].status = "expired"
      /\ approvals'[r].by = approvals[r].by /\ approvals'[r].decidedBy = approvals[r].decidedBy
  BY <1>3, <1>4, <1>5, ConstantsAssumption DEF AInv, TypeOK, Approval
<1>7. \A q \in Requests : q # r => approvals'[q] = approvals[q]
  BY <1>4 DEF AInv, TypeOK
<1>8. Status(r)' = "expired" BY <1>6 DEF Status
<1>9. r \notin overtaken BY <1>1 DEF AInv, UnderWay
<1>10. Rows' BY <1>1, <1>2, <1>6, <1>7 DEF AInv, Rows
<1>11. UnderWay'
  <2>1. expiring \subseteq Requests /\ overtaken \subseteq Requests BY DEF AInv, TypeOK
  <2> QED BY <1>1, <1>6, <1>7, <1>8, <2>1 DEF AInv, UnderWay, Status
<1>12. Decided' BY <1>1, <1>2, <1>6, <1>7 DEF AInv, Decided, Approved
<1>13. ApprovalAgrees'
  <2> SUFFICES ASSUME NEW q \in Requests \ overtaken PROVE Agrees(q)'
    BY <1>1, AgreesAllNext
  <2>1. Agrees(q) BY AgreesAll DEF AInv
  <2>2. CASE q = r BY <2>1, <2>2, <1>1, <1>8 DEF Agrees, Executes
  <2>3. CASE q # r BY <2>1, <2>3, <1>1, <1>7 DEF Agrees, Status
  <2> QED BY <2>2, <2>3
<1>14. Explained' BY <1>1 DEF AInv, Explained, Explains, Reschedules, Stored
<1> QED BY <1>10, <1>11, <1>12, <1>13, <1>14 DEF AInv

LEMMA ExpiredAInv ==
  ASSUME AInv, TypeOK', CommitExpired
  PROVE  AInv'
<1>1. /\ UNCHANGED <<verdict, parameters, policy, deciding, editing, rules>>
      /\ expiring' = {} /\ expiring \subseteq Requests /\ overtaken \subseteq Requests
      /\ overtaken' = overtaken \cup {r \in expiring : Status(r) \notin {"pending", "expired"}}
  BY DEF CommitExpired, channelVars, taskVars, hostVars, AInv, TypeOK
<1>2. \A r \in expiring : approvals[r] # None /\ approvals[r] \in Approval
  BY <1>1 DEF AInv, UnderWay, TypeOK
<1>3. \A r \in Requests \ expiring : approvals'[r] = approvals[r]
  BY DEF CommitExpired
<1>4. \A r \in expiring : approvals'[r] = [approvals[r] EXCEPT !.status = "expired"]
  BY <1>1 DEF CommitExpired
<1>5. \A r \in expiring : approvals'[r] \in Approval
  BY <1>2, <1>4 DEF Approval, Statuses
<1>6. \A r \in expiring :
        /\ approvals'[r] # None /\ approvals'[r].status = "expired"
        /\ approvals'[r].by = approvals[r].by /\ approvals'[r].decidedBy = approvals[r].decidedBy
  BY <1>2, <1>4, <1>5, ConstantsAssumption DEF Approval
<1>7. \A r \in expiring : Status(r)' = "expired" BY <1>6 DEF Status
<1>8. \A r \in Requests \ expiring : Status(r)' = Status(r) BY <1>3 DEF Status
<1>9. Rows' BY <1>1, <1>2, <1>3, <1>6 DEF AInv, Rows
<1>10. UnderWay'
  <2>1. \A r \in overtaken' : Status(r)' = "expired"
    BY <1>1, <1>7, <1>8 DEF AInv, UnderWay
  <2>2. ASSUME deciding # None
        PROVE  /\ Status(deciding.request)' \in {"pending", "expired"}
               /\ deciding.request \notin overtaken'
               /\ approvals'[deciding.request].by = approvals[deciding.request].by
    <3>1. PICK r \in Requests : r = deciding.request BY <2>2 DEF AInv, TypeOK, Decision
    <3>2. Status(r) \in {"pending", "expired"} /\ r \notin overtaken
      BY <2>2, <3>1 DEF AInv, UnderWay
    <3>3. Status(r)' \in {"pending", "expired"} BY <3>2, <1>7, <1>8
    <3>4. approvals'[r].by = approvals[r].by BY <1>3, <1>6
    <3>5. r \notin overtaken' BY <3>2, <1>1
    <3>6. deciding' = deciding BY <1>1
    <3> QED BY <3>1, <3>3, <3>4, <3>5, <3>6 DEF Status
  <2> QED BY <1>1, <2>1, <2>2 DEF AInv, UnderWay, Status
<1>11. Decided'
  <2>1. \A r \in Requests : Approved(r) => Approved(r)'
    BY <1>3, <1>6 DEF Approved
  <2> QED BY <1>1, <2>1 DEF AInv, Decided
<1>12. ApprovalAgrees'
  <2> SUFFICES ASSUME NEW r \in Requests \ overtaken' PROVE Agrees(r)'
    BY AgreesAllNext
  <2>1. r \notin overtaken /\ Agrees(r) BY <1>1, AgreesAll DEF AInv
  <2>2. CASE r \in expiring
    <3>1. Status(r) \in {"pending", "expired"} BY <2>2, <1>1
    <3> QED BY <3>1, <2>1, <2>2, <1>1, <1>7 DEF Agrees, Executes
  <2>3. CASE r \notin expiring BY <2>1, <2>3, <1>1, <1>8 DEF Agrees
  <2> QED BY <2>2, <2>3
<1>13. Explained' BY <1>1 DEF AInv, Explained, Explains, Reschedules, Stored
<1> QED BY <1>9, <1>10, <1>11, <1>12, <1>13 DEF AInv

LEMMA DecisionAInv ==
  ASSUME AInv, TypeOK', CommitDecision
  PROVE  AInv'
<1> DEFINE decision == deciding.decision
<1>1. PICK r \in Requests : r = deciding.request
  BY DEF CommitDecision, AInv, TypeOK, Decision
<1>2. /\ UNCHANGED <<policy, expiring, overtaken, editing, rules>>
      /\ deciding' = None /\ r \in Tasks /\ Requests \subseteq Tasks
  BY DEF CommitDecision, hostVars, Tasks
<1>3. /\ Status(r) \in {"pending", "expired"} /\ verdict[r] = "none" /\ r \notin overtaken
      /\ Executes(decision) => deciding.by # approvals[r].by
      /\ decision \in {"approved", "dry_run_only", "rejected"} /\ deciding.by \in Users
  BY <1>1 DEF CommitDecision, AInv, UnderWay, TypeOK, Decision
<1>4. approvals[r] # None /\ approvals[r] \in Approval
  <2>1. approvals[r] # None BY <1>3, ConstantsAssumption DEF Status, Statuses
  <2> QED BY <2>1 DEF AInv, TypeOK
<1>5. approvals' = [approvals EXCEPT ![r] =
                     [approvals[r] EXCEPT !.status = decision, !.decidedBy = deciding.by]]
  <2>1. approvals' = [approvals EXCEPT ![r].status = decision, ![r].decidedBy = deciding.by]
    BY <1>1 DEF CommitDecision
  <2> QED BY <2>1 DEF AInv, TypeOK
<1>6. \A q \in Requests : q # r => approvals'[q] = approvals[q] BY <1>5 DEF AInv, TypeOK
<1>7. approvals'[r] = [approvals[r] EXCEPT !.status = decision, !.decidedBy = deciding.by]
  BY <1>5 DEF AInv, TypeOK
<1>8. approvals'[r] \in Approval BY <1>3, <1>4, <1>7 DEF Approval, Statuses
<1>9. /\ approvals'[r] # None /\ approvals'[r].status = decision
      /\ approvals'[r].by = approvals[r].by /\ approvals'[r].decidedBy = deciding.by
  BY <1>4, <1>7, <1>8, ConstantsAssumption DEF Approval
<1>10. Status(r)' = decision BY <1>9 DEF Status
<1>11. parameters[r] \in Parameters BY <1>2, <1>4 DEF AInv, Rows, TypeOK
<1>12. /\ \A t \in Tasks : t # r => verdict'[t] = verdict[t] /\ parameters'[t] = parameters[t]
       /\ verdict'[r] = IF Executes(decision) THEN "open" ELSE "none"
       /\ parameters'[r] \in Parameters
  <2>1. CASE Executes(decision)
    <3>1. CreateTask(r) /\ parameters' = [parameters EXCEPT ![r].dry = Dry(decision)]
      BY <1>1, <2>1 DEF CommitDecision
    <3>2. parameters' = [parameters EXCEPT ![r] = [parameters[r] EXCEPT !.dry = Dry(decision)]]
      BY <3>1, <1>2 DEF AInv, TypeOK
    <3>3. Dry(decision) \in BOOLEAN BY Zenon DEF Dry
    <3>4. [parameters[r] EXCEPT !.dry = Dry(decision)] \in Parameters
      BY <3>3, <1>11 DEF Parameters
    <3>5. parameters'[r] \in Parameters BY <3>2, <3>4, <1>2 DEF AInv, TypeOK
    <3>6. \A t \in Tasks : t # r => parameters'[t] = parameters[t] BY <3>2 DEF AInv, TypeOK
    <3>7. \A t \in Tasks : verdict'[t] = IF t = r THEN "open" ELSE verdict[t]
      BY <3>1, <1>2, NewTask DEF AInv
    <3> QED BY <2>1, <3>5, <3>6, <3>7, <1>2
  <2>2. CASE ~Executes(decision)
    <3>1. verdict' = verdict /\ parameters' = parameters
      BY <1>1, <2>2 DEF CommitDecision, channelVars
    <3> QED BY <2>2, <3>1, <1>3, <1>11
  <2> QED BY <2>1, <2>2
<1>13. Rows'
  <2>1. parameters[r] # None /\ parameters'[r] # None BY <1>11, <1>12, ConstantsAssumption
  <2> QED BY <2>1, <1>2, <1>4, <1>6, <1>9, <1>12 DEF AInv, Rows
<1>14. UnderWay'
  <2>1. expiring \subseteq Requests /\ overtaken \subseteq Requests BY DEF AInv, TypeOK
  <2> QED BY <1>2, <1>3, <1>6, <1>9, <2>1 DEF AInv, UnderWay, Status
<1>15. Decided'
  <2>1. Executes(decision) => Approved(r)'
    <3>1. deciding.by # None BY <1>3, ConstantsAssumption
    <3> QED BY <1>3, <1>9, <3>1 DEF Approved
  <2>2. \A q \in Requests : q # r => (Approved(q)' <=> Approved(q)) BY <1>6 DEF Approved
  <2> QED BY <1>2, <1>12, <2>1, <2>2 DEF AInv, Decided
<1>16. ApprovalAgrees'
  <2> SUFFICES ASSUME NEW q \in Requests \ overtaken PROVE Agrees(q)'
    BY <1>2, AgreesAllNext
  <2>1. Agrees(q) BY AgreesAll DEF AInv
  <2>2. CASE q = r
    <3>1. None # decision BY <1>3, ConstantsAssumption DEF Statuses
    <3> HIDE DEF decision
    <3> QED BY <2>2, <3>1, <1>3, <1>10, <1>12 DEF Agrees, Executes
  <2>3. CASE q # r BY <2>1, <2>3, <1>2, <1>6, <1>12 DEF Agrees, Status
  <2> QED BY <2>2, <2>3
<1>17. Explained'
  <2>1. \A q \in Requests : verdict[q] # "none" => verdict'[q] # "none" /\ parameters'[q] = parameters[q]
    BY <1>2, <1>3, <1>12
  <2> QED BY <2>1, <1>2, ExplainedStep DEF AInv
<1> QED BY <1>13, <1>14, <1>15, <1>16, <1>17 DEF AInv

LEMMA HostAInv ==
  ASSUME AInv, TypeOK', NEW t \in Tasks,
         Expire(t) \/ Apply(t) \/ ApplyFails(t) \/ Refuse(t) \/ Disturb(t)
  PROVE  AInv'
<1>1. UNCHANGED <<verdict, parameters, policy, approvals, expiring, deciding, overtaken, editing>>
  BY DEF Expire, Apply, ApplyFails, Refuse, Disturb, Channel!Perform, Channel!Refuse,
         Channel!Disturb, channelVars, taskVars, approvalVars
<1>2. (Rows /\ UnderWay /\ Decided /\ ApprovalAgrees)'
  BY <1>1 DEF AInv, Rows, UnderWay, Decided, Approved, ApprovalAgrees, Status
<1>3. Explained'
  <2>1. CASE rules' = rules
    BY <2>1, <1>1, ExplainedStep DEF AInv
  <2>2. CASE (Apply(t) \/ ApplyFails(t)) /\ rules' = Desired(Stored(t))
    <3>1. verdict[t] = "open" /\ Authorized(t) BY <2>2 DEF Apply, ApplyFails, IsNext
    <3>2. CASE Stored(t).dry \/ Stored(t).remove
      <4>1. rules' = rules \/ rules' = None BY <2>2, <3>2 DEF Desired
      <4> QED BY <4>1, <1>1, ExplainedStep DEF AInv
    <3>3. CASE ~(Stored(t).dry \/ Stored(t).remove)
      <4>1. rules'.mode = parameters[t].mode /\ rules'.rate = parameters[t].rate
        BY <2>2, <3>3 DEF Desired, Stored
      <4>2. CASE t \in Edits
        <5>1. rules'.mode = "monitor_only" /\ rules'.rate = 0
          BY <4>1, <4>2, <3>1 DEF Authorized, Stored
        <5> QED BY <5>1, <1>1, ExplainedStep DEF AInv
      <4>3. CASE t \in Requests
        <5>1. \E r \in Requests : verdict[r] # "none" /\ ~parameters[r].dry
                /\ rules'.mode = parameters[r].mode /\ rules'.rate = parameters[r].rate
          BY <4>1, <4>3, <3>1, <3>3 DEF Stored
        <5> QED BY <5>1, <1>1, ExplainedStep DEF AInv
      <4> QED BY <4>2, <4>3 DEF Tasks
    <3> QED BY <3>2, <3>3
  <2> QED BY <2>1, <2>2 DEF Expire, Apply, ApplyFails, Refuse, Disturb, hostVars
<1> QED BY <1>2, <1>3 DEF AInv

\* A result: the task is concluded, and its approval with it.
LEMMA Results ==
  ASSUME AInv, NEW t \in Tasks, RecordSuccess(t) \/ RecordFailure(t)
  PROVE  /\ verdict[t] = "open" /\ outcome[t] # "none" /\ InOrder(t) /\ deciding = None
         /\ \A u \in Tasks : u # t => verdict'[u] = verdict[u]
         /\ RecordSuccess(t) => verdict'[t] = "succeeded"
         /\ RecordFailure(t) => verdict'[t] = "failed"
         /\ t \notin disturbed => (RecordSuccess(t) <=> outcome[t] = "ok")
         /\ UNCHANGED <<outcome, disturbed, taskVars, expiring, deciding, overtaken, editing,
                        hostVars, raced>>
BY DEF RecordSuccess, RecordFailure, Channel!Conclude, historyVars

LEMMA RecordAInv ==
  ASSUME AInv, TypeOK', NEW t \in Tasks, RecordSuccess(t) \/ RecordFailure(t)
  PROVE  AInv'
<1>1. /\ verdict[t] = "open" /\ deciding = None
      /\ \A u \in Tasks : u # t => verdict'[u] = verdict[u]
      /\ UNCHANGED <<parameters, expiring, deciding, overtaken, editing, rules>>
      /\ Requests \subseteq Tasks
  BY Results DEF taskVars, hostVars, Tasks
<1>2. \/ verdict'[t] = "succeeded" /\ approvals' = Concluded(t, "executed")
      \/ verdict'[t] = "failed" /\ approvals' = Concluded(t, "failed")
  BY Results DEF RecordSuccess, RecordFailure
<1>3. PICK end \in {"executed", "failed"} :
        /\ approvals' = Concluded(t, end)
        /\ verdict'[t] = IF end = "executed" THEN "succeeded" ELSE "failed"
  BY <1>2
<1>4. \A r \in Requests : r # t \/ ~Executes(Status(r)) => approvals'[r] = approvals[r]
  BY <1>3 DEF Concluded, AInv, TypeOK
<1>5. ASSUME t \in Requests, Executes(Status(t))
      PROVE  /\ approvals[t] # None /\ approvals'[t] # None
             /\ approvals'[t].status = end /\ approvals'[t].by = approvals[t].by
             /\ approvals'[t].decidedBy = approvals[t].decidedBy
  <2>1. approvals[t] # None BY <1>5, ConstantsAssumption DEF Status, Executes, Statuses
  <2>2. approvals[t] \in Approval BY <2>1, <1>5 DEF AInv, TypeOK
  <2>3. approvals' = [approvals EXCEPT ![t] = [approvals[t] EXCEPT !.status = end]]
    BY <1>3, <1>5 DEF Concluded, AInv, TypeOK
  <2>4. approvals'[t] = [approvals[t] EXCEPT !.status = end] BY <2>3, <1>5 DEF AInv, TypeOK
  <2>5. approvals'[t] \in Approval BY <2>2, <2>4 DEF Approval, Statuses
  <2> QED BY <2>1, <2>2, <2>4, <2>5, ConstantsAssumption DEF Approval
<1>6. \A r \in Requests : /\ approvals[r] = None <=> approvals'[r] = None
                          /\ Approved(r) => Approved(r)'
  BY <1>4, <1>5 DEF Approved
<1>7. policy # None /\ policy' # None
  <2>1. policy # None /\ policy \in Policy /\ Stored(t) \in Parameters
    BY <1>1 DEF AInv, Rows, TypeOK, Stored
  <2>2. [policy EXCEPT !.status = "error"] \in Policy BY <2>1 DEF Policy
  <2>3. policy' \in Policy BY <2>1, <2>2, RecordedType DEF RecordSuccess, RecordFailure
  <2> QED BY <2>1, <2>3, ConstantsAssumption
<1>8. Rows' BY <1>1, <1>2, <1>6, <1>7 DEF AInv, Rows
<1>9. UnderWay'
  <2>1. expiring \subseteq Requests /\ overtaken \subseteq Requests BY DEF AInv, TypeOK
  <2>2. \A r \in overtaken : Status(r) = "expired" /\ ~Executes("expired")
    BY DEF AInv, UnderWay, Executes
  <2>3. \A r \in overtaken : approvals'[r] = approvals[r] BY <2>1, <2>2, <1>4
  <2> QED BY <1>1, <1>6, <2>1, <2>3 DEF AInv, UnderWay, Status
<1>10. Decided' BY <1>1, <1>6 DEF AInv, Decided
<1>11. ApprovalAgrees'
  <2> SUFFICES ASSUME NEW r \in Requests \ overtaken PROVE Agrees(r)'
    BY <1>1, AgreesAllNext
  <2>1. Agrees(r) BY AgreesAll DEF AInv
  <2>2. CASE r = t
    <3>1. Executes(Status(t)) BY <2>1, <2>2, <1>1 DEF Agrees
    <3>2. Status(t)' = end BY <2>2, <3>1, <1>5 DEF Status
    <3>3. None # end BY ConstantsAssumption DEF Statuses
    <3> QED BY <2>2, <3>2, <3>3, <1>3 DEF Agrees, Executes
  <2>3. CASE r # t BY <2>1, <2>3, <1>1, <1>4 DEF Agrees, Status
  <2> QED BY <2>2, <2>3
<1>12. Explained'
  <2>1. \A r \in Requests : verdict[r] # "none" => verdict'[r] # "none" /\ parameters'[r] = parameters[r]
    BY <1>1, <1>2
  <2>2. \/ policy' = policy
        \/ policy # None /\ policy'.schedule = policy.schedule
        \/ \E r \in Requests : verdict[r] # "none" /\ ~parameters[r].dry
             /\ policy'.schedule = parameters[r].schedule
    <3>1. policy \in Policy BY <1>7 DEF AInv, TypeOK
    <3>2. CASE RecordFailure(t)
      <4>1. policy'.schedule = policy.schedule BY <3>1, <3>2 DEF RecordFailure, Policy
      <4> QED BY <4>1, <1>7
    <3>3. CASE RecordSuccess(t)
      <4>1. policy' = Recorded(t) BY <3>3 DEF RecordSuccess
      <4>2. CASE Stored(t).dry \/ Stored(t).remove
        BY <4>1, <4>2, <3>1, <1>7 DEF Recorded, Policy
      <4>3. CASE ~(Stored(t).dry \/ Stored(t).remove)
        <5>1. policy'.schedule = IF t \in Requests /\ approvals[t].reschedules
                                   THEN Stored(t).schedule ELSE policy.schedule
          BY <4>1, <4>3, <3>1 DEF Recorded, Policy
        <5> QED BY <5>1, <4>3, <1>1, <1>7 DEF Stored
      <4> QED BY <4>2, <4>3
    <3> QED BY <3>2, <3>3
  <2> QED BY <2>1, <2>2, <1>1, ExplainedStep DEF AInv
<1> QED BY <1>8, <1>9, <1>10, <1>11, <1>12 DEF AInv

LEMMA NextAInv == AInv /\ [Next]_vars => AInv'
<1> SUFFICES ASSUME AInv, [Next]_vars PROVE AInv'
  OBVIOUS
<1>1. TypeOK' BY NextTypeOK
<1>2. CASE UNCHANGED vars
  <2>1. UNCHANGED <<verdict, parameters, policy, approvals, expiring, deciding, overtaken,
                    editing, rules>>
    BY <1>2 DEF vars, channelVars, taskVars, approvalVars, hostVars
  <2> QED BY <2>1, <1>1 DEF AInv, Rows, UnderWay, Decided, Approved, Explained, Explains,
                            Reschedules, Stored, ApprovalAgrees, Status
<1>3. CASE SelectExpired \/ \E r \in Requests : BeginDecision(r)
  BY <1>1, <1>3, ReadAInv
<1> QED BY <1>1, <1>2, <1>3, EditAInv, RequestAInv, TooLateAInv, ExpiredAInv, DecisionAInv,
           HostAInv, RecordAInv DEF Next

\* All variables keep their types: PortTrafficPolicy, Approval, the helper's state.
THEOREM TypeCorrect == Spec => []TypeOK
<1>1. AInv => TypeOK BY DEF AInv
<1> QED BY InitAInv, NextAInv, <1>1, PTL DEF Spec

\* The status of an approval tells what became of its task: decide_approval,
\* expire_pending_approvals, _record_port_traffic_result.
THEOREM ApprovalsTell == Spec => []ApprovalAgrees
<1>1. AInv => ApprovalAgrees BY DEF AInv
<1> QED BY InitAInv, NextAInv, <1>1, PTL DEF Spec

\* Nothing is enforced, shaped or scheduled that was not approved, as it is, by
\* another than who asked: request_port_traffic_change, decide_approval.
THEOREM NothingUnapproved == Spec => []OnlyApproved
<1>1. AInv => OnlyApproved
  <2> SUFFICES ASSUME AInv PROVE OnlyApproved
    OBVIOUS
  <2>1. \A r \in Requests : verdict[r] # "none" => Approved(r) BY DEF AInv, Decided
  <2> QED BY <2>1 DEF AInv, OnlyApproved, Explained, Explains, Reschedules
<1> QED BY InitAInv, NextAInv, <1>1, PTL DEF Spec

(***************************************************************************)
(* The host.                                                               *)
(*                                                                         *)
(* HostAgrees compares the row with the host once everything is quiet.     *)
(* Before that, answers are under way, so the invariant says who had the   *)
(* last word: on the host the last task that was performed (HostFollows),  *)
(* in the ports of the row the newest edit (RowFollows), in its status the *)
(* last result (ShownFollows).  They are the same task because tasks are   *)
(* answered and concluded in the order of their creation (Order).          *)
(***************************************************************************)

Issued == {t \in Tasks : verdict[t] # "none"}

Before(t, u) == \E i, j \in DOMAIN issued : i < j /\ issued[i] = t /\ issued[j] = u

Over(t) == verdict[t] \in {"succeeded", "failed"}

\* A task that succeeded without doing anything.
Idle(t) == verdict[t] = "succeeded" /\ Stored(t).dry

Numbered ==
  /\ \A t \in Tasks : (\E i \in DOMAIN issued : issued[i] = t) <=> t \in Issued
  /\ \A i, j \in DOMAIN issued : issued[i] = issued[j] => i = j

Answered ==
  \A t \in Tasks :
    /\ verdict[t] # "cancelled"
    /\ outcome[t] # "none" => t \in Issued \ expired
    /\ Over(t) => outcome[t] # "none"
    /\ disturbed = {} /\ verdict[t] = "succeeded" => outcome[t] = "ok"

Order ==
  \A t, u \in Tasks : Before(t, u) =>
    /\ outcome[u] # "none" => outcome[t] # "none" \/ t \in expired
    /\ disturbed = {} /\ Over(u) => verdict[t] # "open" \/ t \in expired

\* The task was answered with success and without doing anything, or not at all.
Harmless(t) == outcome[t] # "none" => outcome[t] = "ok" /\ Stored(t).dry

HostFollows ==
  \A t \in Tasks :
    /\ outcome[t] = "ok" /\ ~Stored(t).dry
    /\ \A u \in Tasks : Before(t, u) => Harmless(u)
    => rules = Desired(Stored(t))

RowFollows ==
  ~raced => \A e \in Edits :
    e \in Issued /\ (\A f \in Edits : ~Before(e, f)) =>
      policy.kernel = Stored(e).kernel /\ policy.enabled = ~Stored(e).remove

LastWord(t) ==
  /\ verdict[t] = "succeeded" /\ ~Stored(t).dry
  /\ policy.status = "disabled" <=> Stored(t).remove
  /\ ~Stored(t).remove => policy.mode = Stored(t).mode /\ policy.rate = Stored(t).rate
  /\ disturbed = {} => \A u \in Tasks : Before(t, u) /\ Over(u) => Idle(u)
  /\ ~raced /\ ~superseded => \A f \in Edits : ~Before(t, f)

Untouched ==
  /\ policy.status = "active" /\ policy.mode = "monitor_only" /\ policy.rate = 0
  /\ (\A u \in Tasks : Harmless(u)) => rules = [kernel |-> 1, mode |-> "monitor_only", rate |-> 0]
  /\ disturbed = {} => \A u \in Tasks : Over(u) => Idle(u)
  /\ ~raced => policy.kernel = 1 /\ policy.enabled

\* A policy that is shown as active or disabled has not been edited since the
\* last result, and no failure came after it.
ShownFollows ==
  policy # None /\ policy.status \in {"active", "disabled"} =>
    IF last = None THEN Untouched ELSE LastWord(last)

Follows == Answered /\ Order /\ HostFollows /\ RowFollows /\ ShownFollows

HInv == AInv /\ Numbered /\ Follows

\* The order of the tasks.
LEMMA OrderOf ==
  ASSUME TypeOK, Numbered
  PROVE  /\ \A t, u \in Tasks : Before(t, u) => t \in Issued /\ u \in Issued /\ t # u
         /\ \A t, u \in Issued : t # u => Before(t, u) \/ Before(u, t)
<1>1. DOMAIN issued \subseteq Nat
  <2>1. issued \in Seq(Tasks) BY DEF TypeOK
  <2> QED BY <2>1
<1>2. ASSUME NEW t \in Tasks, NEW u \in Tasks, Before(t, u)
      PROVE  t \in Issued /\ u \in Issued /\ t # u
  <2>1. PICK i \in DOMAIN issued, j \in DOMAIN issued : i < j /\ issued[i] = t /\ issued[j] = u
    BY <1>2 DEF Before
  <2>2. i # j BY <2>1, <1>1
  <2> QED BY <2>1, <2>2 DEF Numbered
<1>3. ASSUME NEW t \in Issued, NEW u \in Issued, t # u PROVE Before(t, u) \/ Before(u, t)
  <2>1. t \in Tasks /\ u \in Tasks BY DEF Issued
  <2>2. PICK i \in DOMAIN issued : issued[i] = t BY <2>1 DEF Numbered
  <2>3. PICK j \in DOMAIN issued : issued[j] = u BY <2>1 DEF Numbered
  <2>4. i < j \/ j < i BY <2>2, <2>3, <1>1, <1>3
  <2> QED BY <2>2, <2>3, <2>4 DEF Before
<1> QED BY <1>2, <1>3

LEMMA NewTaskLast ==
  ASSUME TypeOK, Numbered, NEW t \in Tasks, CreateTask(t)
  PROVE  /\ Numbered'
         /\ \A u, v \in Tasks : Before(u, v)' <=> Before(u, v) \/ (v = t /\ u \in Issued)
<1>1. /\ verdict[t] = "none" /\ issued' = Append(issued, t)
      /\ \A u \in Tasks : verdict'[u] = IF u = t THEN "open" ELSE verdict[u]
  BY NewTask
<1> DEFINE n == Len(issued)
<1>2. /\ n \in Nat /\ DOMAIN issued = 1 .. n /\ DOMAIN issued' = 1 .. n + 1
      /\ issued'[n + 1] = t /\ \A i \in 1 .. n : issued'[i] = issued[i]
  <2>1. issued \in Seq(Tasks) BY DEF TypeOK
  <2> QED BY <2>1, <1>1
<1> HIDE DEF n
<1>3. 1 .. n \subseteq 1 .. n + 1 /\ n + 1 \in 1 .. n + 1 /\ n + 1 \notin 1 .. n
      /\ \A i \in 1 .. n + 1 : i \in 1 .. n \/ i = n + 1
  BY <1>2
<1>4. \A i \in 1 .. n : issued[i] # t
  BY <1>1, <1>2 DEF Numbered, Issued
<1>5. Numbered'
  <2>1. \A i, j \in 1 .. n + 1 : issued'[i] = issued'[j] => i = j
    BY <1>2, <1>3, <1>4 DEF Numbered
  <2>2. \A u \in Tasks : (\E i \in 1 .. n + 1 : issued'[i] = u) <=> u \in Issued'
    <3> TAKE u \in Tasks
    <3>1. (\E i \in 1 .. n + 1 : issued'[i] = u) <=> (\E i \in 1 .. n : issued[i] = u) \/ u = t
      BY <1>2, <1>3
    <3>2. u \in Issued' <=> u \in Issued \/ u = t BY <1>1 DEF Issued
    <3> QED BY <3>1, <3>2, <1>2 DEF Numbered
  <2> QED BY <2>1, <2>2, <1>2 DEF Numbered
<1>6. ASSUME NEW u \in Tasks, NEW v \in Tasks
      PROVE  Before(u, v)' <=> Before(u, v) \/ (v = t /\ u \in Issued)
  <2>1. ASSUME Before(u, v)' PROVE Before(u, v) \/ (v = t /\ u \in Issued)
    <3>1. PICK i \in 1 .. n + 1, j \in 1 .. n + 1 : i < j /\ issued'[i] = u /\ issued'[j] = v
      BY <2>1, <1>2 DEF Before
    <3>2. i \in 1 .. n BY <3>1, <1>2
    <3>3. CASE j = n + 1 BY <3>1, <3>2, <3>3, <1>2 DEF Numbered
    <3>4. CASE j \in 1 .. n BY <3>1, <3>2, <3>4, <1>2 DEF Before
    <3> QED BY <3>3, <3>4, <1>3
  <2>2. ASSUME Before(u, v) PROVE Before(u, v)'
    <3>1. PICK i \in 1 .. n, j \in 1 .. n : i < j /\ issued[i] = u /\ issued[j] = v
      BY <2>2, <1>2 DEF Before
    <3> QED BY <3>1, <1>2, <1>3 DEF Before
  <2>3. ASSUME v = t, u \in Issued PROVE Before(u, v)'
    <3>1. PICK i \in 1 .. n : issued[i] = u BY <2>3, <1>2 DEF Numbered
    <3>2. i < n + 1 BY <1>2
    <3> QED BY <3>1, <3>2, <2>3, <1>2, <1>3 DEF Before
  <2> QED BY <2>1, <2>2, <2>3
<1> QED BY <1>5, <1>6

LEMMA SameOrder ==
  ASSUME UNCHANGED <<issued>>
  PROVE  \A u, v : Before(u, v)' <=> Before(u, v)
BY DEF Before

LEMMA InitHInv == Init => HInv
<1> SUFFICES ASSUME Init PROVE HInv
  OBVIOUS
<1>1. AInv BY InitAInv
<1>2. /\ verdict = [t \in Tasks |-> "none"] /\ outcome = [t \in Tasks |-> "none"]
      /\ issued = <<>> /\ last = None
  BY DEF Init, Channel!Init
<1>3. Issued = {} /\ DOMAIN issued = {} BY <1>2 DEF Issued
<1>4. Numbered BY <1>3 DEF Numbered
<1>5. Answered BY <1>2 DEF Answered, Over
<1>6. Order BY <1>2 DEF Order, Over
<1>7. HostFollows BY <1>2 DEF HostFollows
<1>8. RowFollows BY <1>3 DEF RowFollows
<1>9. ShownFollows
  <2>1. \A u \in Tasks : ~Over(u) BY <1>2 DEF Over
  <2>2. policy # None => policy = NewPolicy(1, "active")
                         /\ rules = [kernel |-> 1, mode |-> "monitor_only", rate |-> 0]
    BY DEF Init
  <2> QED BY <1>2, <2>1, <2>2 DEF ShownFollows, Untouched, NewPolicy
<1> QED BY <1>1, <1>4, <1>5, <1>6, <1>7, <1>8, <1>9 DEF HInv, Follows

\* Requests, what is read before a decision, and expiries of requests.
LEMMA StillFollows ==
  ASSUME HInv, \A t \in Issued : parameters'[t] = parameters[t],
         UNCHANGED <<channelVars, issued, expired, policy, rules, historyVars>>
  PROVE  (Numbered /\ Follows)'
<1>1. /\ UNCHANGED <<verdict, outcome, disturbed, policy, rules, last, superseded, raced>>
      /\ expired' = expired /\ issued' = issued /\ Issued' = Issued
  BY DEF channelVars, historyVars, Issued
<1>2. \A u, v : Before(u, v)' <=> Before(u, v) BY <1>1, SameOrder
<1>3. \A t \in Tasks : outcome[t] # "none" \/ verdict[t] = "succeeded" => parameters'[t] = parameters[t]
  BY DEF HInv, Follows, Answered, Issued
<1>4. Numbered' BY <1>1 DEF HInv, Numbered
<1>5. Answered' BY <1>1 DEF HInv, Follows, Answered, Over
<1>6. Order' BY <1>1, <1>2 DEF HInv, Follows, Order, Over
<1>7. \A u \in Tasks : Harmless(u)' <=> Harmless(u) BY <1>1, <1>3 DEF Harmless, Stored
<1>8. HostFollows'
  <2>1. \A t \in Tasks : outcome[t] = "ok" => parameters'[t] = parameters[t] BY <1>3
  <2> QED BY <1>1, <1>2, <1>7, <2>1 DEF HInv, Follows, HostFollows, Stored, Desired
<1>9. RowFollows'
  BY <1>1, <1>2, ConstantsAssumption DEF HInv, Follows, RowFollows, Stored, Tasks
<1>10. \A u \in Tasks : (Over(u)' <=> Over(u)) /\ (Idle(u)' <=> Idle(u))
  BY <1>1, <1>3 DEF Over, Idle, Stored
<1>11. ShownFollows'
  <2>1. Untouched' <=> Untouched BY <1>1, <1>7, <1>10 DEF Untouched
  <2>2. ASSUME last # None, LastWord(last) PROVE LastWord(last)'
    <3>1. PICK t \in Tasks : t = last BY <2>2 DEF HInv, AInv, TypeOK
    <3>2. LastWord(t) BY <2>2, <3>1
    <3>3. parameters'[t] = parameters[t] BY <3>2, <1>3 DEF LastWord
    <3>4. LastWord(t)' BY <3>2, <3>3, <1>1, <1>2, <1>10 DEF LastWord, Stored, Tasks
    <3> QED BY <3>1, <3>4, <1>1
  <2> QED BY <2>1, <2>2, <1>1 DEF HInv, Follows, ShownFollows
<1> QED BY <1>4, <1>5, <1>6, <1>8, <1>9, <1>11 DEF Follows

\* What a new task leaves as it was.
LEMMA NewTaskFollows ==
  ASSUME HInv, NEW t \in Tasks, CreateTask(t), UNCHANGED <<expired, rules>>,
         \A u \in Tasks : u # t => parameters'[u] = parameters[u]
  PROVE  /\ Numbered' /\ Answered' /\ Order' /\ HostFollows'
         /\ \A u \in Tasks : /\ Over(u)' <=> Over(u)
                             /\ Harmless(u)' <=> Harmless(u)
                             /\ Idle(u)' <=> Idle(u)
<1>1. /\ verdict[t] = "none" /\ UNCHANGED <<outcome, performed, disturbed>>
      /\ \A u \in Tasks : verdict'[u] = IF u = t THEN "open" ELSE verdict[u]
  BY NewTask DEF HInv, AInv
<1>2. /\ Numbered'
      /\ \A u, v \in Tasks : Before(u, v)' <=> Before(u, v) \/ (v = t /\ u \in Issued)
  BY NewTaskLast DEF HInv, AInv
<1>3. outcome[t] = "none" BY <1>1 DEF HInv, Follows, Answered, Issued
<1>4. \A u \in Tasks : Over(u)' <=> Over(u) BY <1>1 DEF Over
<1>5. \A u \in Tasks : Harmless(u)' <=> Harmless(u) BY <1>1, <1>3 DEF Harmless, Stored
<1>6. \A u \in Tasks : Idle(u)' <=> Idle(u) BY <1>1 DEF Idle, Stored
<1>7. Answered' BY <1>1, <1>4 DEF HInv, Follows, Answered, Issued
<1>8. ~Over(t) BY <1>1 DEF Over
<1>9. Order'
  <2> SUFFICES ASSUME NEW u \in Tasks, NEW v \in Tasks, Before(u, v)'
               PROVE  /\ outcome'[v] # "none" => outcome'[u] # "none" \/ u \in expired'
                      /\ disturbed' = {} /\ Over(v)' => verdict'[u] # "open" \/ u \in expired'
    BY DEF Order
  <2>1. CASE v = t BY <2>1, <1>1, <1>3, <1>4, <1>8
  <2>2. CASE v # t
    <3>1. Before(u, v) BY <2>2, <1>2
    <3>2. u # t BY <3>1, <1>1, OrderOf DEF HInv, AInv, Issued
    <3> QED BY <3>1, <3>2, <1>1, <1>4 DEF HInv, Follows, Order
  <2> QED BY <2>1, <2>2
<1>10. HostFollows'
  <2> SUFFICES ASSUME NEW u \in Tasks, outcome'[u] = "ok", ~Stored(u).dry',
                      \A v \in Tasks : Before(u, v)' => Harmless(v)'
               PROVE  rules' = Desired(Stored(u))'
    BY DEF HostFollows
  <2>1. u # t BY <1>1, <1>3
  <2>2. parameters'[u] = parameters[u] BY <2>1
  <2>3. \A v \in Tasks : Before(u, v) => Harmless(v) BY <1>2, <1>5
  <2>4. rules = Desired(Stored(u)) BY <2>2, <2>3, <1>1 DEF HInv, Follows, HostFollows, Stored
  <2> QED BY <2>2, <2>4 DEF Stored, Desired
<1> QED BY <1>2, <1>4, <1>5, <1>6, <1>7, <1>9, <1>10

\* A decision creates the task of a request: it has done nothing yet.
LEMMA DecisionFollows ==
  ASSUME HInv, CommitDecision
  PROVE  (Numbered /\ Follows)'
<1>1. PICK r \in Requests : r = deciding.request
  BY DEF CommitDecision, HInv, AInv, TypeOK, Decision
<1>2. UNCHANGED <<expired, policy, rules, last, superseded, raced>> /\ r \in Tasks /\ r \notin Edits
  BY ConstantsAssumption DEF CommitDecision, hostVars, historyVars, Tasks
<1>3. CASE Executes(deciding.decision)
  <2>1. CreateTask(r) /\ parameters' = [parameters EXCEPT ![r].dry = Dry(deciding.decision)]
    BY <1>1, <1>3 DEF CommitDecision
  <2>2. \A u \in Tasks : u # r => parameters'[u] = parameters[u]
    BY <2>1 DEF HInv, AInv, TypeOK
  <2>3. /\ Numbered' /\ Answered' /\ Order' /\ HostFollows'
        /\ \A u \in Tasks : (Over(u)' <=> Over(u)) /\ (Harmless(u)' <=> Harmless(u))
                            /\ (Idle(u)' <=> Idle(u))
    BY <2>1, <2>2, <1>2, NewTaskFollows
  <2>4. /\ verdict[r] = "none" /\ disturbed' = disturbed
        /\ \A u \in Tasks : verdict'[u] = IF u = r THEN "open" ELSE verdict[u]
    BY <2>1, <1>2, NewTask DEF HInv, AInv
  <2>5. \A u, v \in Tasks : Before(u, v)' <=> Before(u, v) \/ (v = r /\ u \in Issued)
    BY <2>1, <1>2, NewTaskLast DEF HInv, AInv
  <2>6. RowFollows'
    <3> SUFFICES ASSUME ~raced, NEW e \in Edits, e \in Issued', \A f \in Edits : ~Before(e, f)'
                 PROVE  policy'.kernel = Stored(e).kernel' /\ policy'.enabled = ~Stored(e).remove'
      BY <1>2 DEF RowFollows
    <3>1. e # r /\ e \in Tasks /\ e \in Issued BY <1>2, <2>4 DEF Issued, Tasks
    <3>2. \A f \in Edits : ~Before(e, f) BY <2>5, <3>1 DEF Tasks
    <3>3. parameters'[e] = parameters[e] BY <3>1, <2>2
    <3> QED BY <3>1, <3>2, <3>3, <1>2 DEF HInv, Follows, RowFollows, Stored
  <2>7. ShownFollows'
    <3>1. Untouched => Untouched' BY <1>2, <2>3, <2>4 DEF Untouched
    <3>2. ASSUME last # None, LastWord(last) PROVE LastWord(last)'
      <4>1. PICK t \in Tasks : t = last BY <3>2 DEF HInv, AInv, TypeOK
      <4>2. LastWord(t) BY <3>2, <4>1
      <4>3. t # r BY <4>2, <2>4 DEF LastWord
      <4>4. parameters'[t] = parameters[t] /\ verdict'[t] = verdict[t] BY <4>3, <2>2, <2>4
      <4>5. ~Over(r) BY <2>4 DEF Over
      <4>6. \A u \in Tasks : Before(t, u)' /\ Over(u)' => Before(t, u) /\ Over(u)
        BY <2>3, <2>5, <4>5
      <4>7. \A f \in Edits : Before(t, f)' => Before(t, f) BY <2>5, <1>2 DEF Tasks
      <4>8. LastWord(t)' BY <4>2, <4>4, <4>6, <4>7, <1>2, <2>3, <2>4 DEF LastWord, Stored
      <4> QED BY <4>1, <4>8, <1>2
    <3> QED BY <3>1, <3>2, <1>2 DEF HInv, Follows, ShownFollows
  <2> QED BY <2>3, <2>6, <2>7 DEF Follows
<1>4. CASE ~Executes(deciding.decision)
  <2>1. UNCHANGED <<channelVars, issued, parameters>> BY <1>1, <1>4 DEF CommitDecision
  <2> QED BY <2>1, <1>2, StillFollows DEF historyVars
<1> QED BY <1>3, <1>4

LEMMA CreateFollows ==
  ASSUME HInv, NEW e \in Edits, CreatePolicy(e)
  PROVE  (Numbered /\ Follows)'
<1> e \in Tasks BY DEF Tasks
<1>1. /\ policy = None /\ policy' = NewPolicy(1, "pending") /\ CreateTask(e)
      /\ parameters' = [parameters EXCEPT ![e] = ParametersOf(policy')]
      /\ UNCHANGED <<expired, rules>>
  BY DEF CreatePolicy, hostVars
<1>2. \A u \in Tasks : u # e => parameters'[u] = parameters[u] BY <1>1 DEF HInv, AInv, TypeOK
<1>3. Numbered' /\ Answered' /\ Order' /\ HostFollows' BY <1>1, <1>2, NewTaskFollows
<1>4. \A u \in Tasks : verdict[u] = "none" BY <1>1 DEF HInv, AInv, Rows
<1>5. \A u \in Tasks : u \in Issued' => u = e
  <2>1. \A u \in Tasks : verdict'[u] = IF u = e THEN "open" ELSE verdict[u]
    BY <1>1, NewTask DEF HInv, AInv
  <2> QED BY <2>1, <1>4 DEF Issued
<1>6. RowFollows'
  <2>1. parameters'[e] = ParametersOf(policy') BY <1>1 DEF HInv, AInv, TypeOK
  <2>2. Stored(e).kernel' = policy'.kernel /\ Stored(e).remove' = ~policy'.enabled
    BY <2>1 DEF Stored, ParametersOf
  <2>3. policy'.enabled = TRUE BY <1>1 DEF NewPolicy
  <2> QED BY <2>2, <2>3, <1>5 DEF RowFollows, Tasks
<1>7. ShownFollows' BY <1>1 DEF ShownFollows, NewPolicy
<1> QED BY <1>3, <1>6, <1>7 DEF Follows

\* An edit: the row waits for its task, unless it was committed over a row it
\* had not seen.
LEMMA EditFollows ==
  ASSUME HInv, NEW e \in Edits, CommitEdit(e)
  PROVE  (Numbered /\ Follows)'
<1> e \in Tasks BY DEF Tasks
<1> DEFINE read == editing[e].read
           new  == editing[e].new
           kernel  == Written(read.kernel, new.kernel, policy.kernel)
           enabled == Written(read.enabled, new.enabled, policy.enabled)
           status  == Written(read.status, "pending", policy.status)
<1>1. /\ policy' = [policy EXCEPT !.kernel = kernel, !.enabled = enabled, !.status = status]
      /\ parameters' = [parameters EXCEPT ![e] =
           ParametersOf([read EXCEPT !.kernel = new.kernel, !.enabled = new.enabled])]
      /\ raced' = (read # policy)
      /\ CreateTask(e)
      /\ UNCHANGED <<expired, rules, last, superseded>>
  BY DEF CommitEdit, hostVars
<1>2. policy \in Policy /\ policy # None
  BY ConstantsAssumption DEF CommitEdit, HInv, AInv, Rows, TypeOK
<1>3. /\ read \in Policy /\ new \in Edited /\ new.kernel \in Kernels /\ new.enabled \in BOOLEAN
  BY DEF CommitEdit, HInv, AInv, TypeOK, Edited
<1>4. \A u \in Tasks : u # e => parameters'[u] = parameters[u] BY <1>1 DEF HInv, AInv, TypeOK
<1>5. /\ Numbered' /\ Answered' /\ Order' /\ HostFollows'
      /\ \A u \in Tasks : (Over(u)' <=> Over(u)) /\ (Harmless(u)' <=> Harmless(u))
                          /\ (Idle(u)' <=> Idle(u))
  BY <1>1, <1>4, NewTaskFollows
<1>6. /\ verdict[e] = "none" /\ disturbed' = disturbed
      /\ \A u \in Tasks : verdict'[u] = IF u = e THEN "open" ELSE verdict[u]
  BY <1>1, NewTask DEF HInv, AInv
<1>7. \A u, v \in Tasks : Before(u, v)' <=> Before(u, v) \/ (v = e /\ u \in Issued)
  BY <1>1, NewTaskLast DEF HInv, AInv
<1>8. /\ policy'.kernel = kernel /\ policy'.enabled = enabled /\ policy'.status = status
      /\ policy'.mode = policy.mode /\ policy'.rate = policy.rate
  BY <1>1, <1>2 DEF Policy
<1>9. Stored(e).kernel' = new.kernel /\ Stored(e).remove' = ~new.enabled
  <2>1. parameters'[e] = ParametersOf([read EXCEPT !.kernel = new.kernel, !.enabled = new.enabled])
    BY <1>1 DEF HInv, AInv, TypeOK
  <2> QED BY <2>1, <1>3 DEF ParametersOf, Stored, Policy
<1>10. CASE read = policy
  <2>1. status = "pending" /\ kernel = new.kernel /\ (enabled <=> new.enabled)
    BY <1>10 DEF Written
  <2>2. ShownFollows' BY <2>1, <1>8 DEF ShownFollows
  <2>3. ASSUME NEW f \in Edits, f \in Issued', \A g \in Edits : ~Before(f, g)' PROVE f = e
    <3>1. f \in Tasks /\ (f \in Issued \/ f = e) BY <2>3, <1>6 DEF Issued, Tasks
    <3> QED BY <3>1, <2>3, <1>7 DEF Tasks
  <2>4. policy'.enabled = ~Stored(e).remove'
    <3>1. enabled = new.enabled BY <1>10 DEF Written
    <3> QED BY <3>1, <1>3, <1>8, <1>9
  <2>5. RowFollows' BY <2>1, <2>3, <2>4, <1>8, <1>9 DEF RowFollows
  <2> QED BY <1>5, <2>2, <2>5 DEF Follows
<1>11. CASE read # policy
  <2>1. raced' BY <1>1, <1>11
  <2>2. RowFollows' BY <2>1 DEF RowFollows
  <2>3. status \in {"active", "disabled"} => status = policy.status BY DEF Written
  <2> HIDE DEF kernel, enabled, status
  <2>4. ASSUME status = policy.status, Untouched PROVE Untouched'
    BY <2>1, <2>4, <1>1, <1>5, <1>6, <1>8 DEF Untouched
  <2>5. ASSUME status = policy.status, last # None, LastWord(last) PROVE LastWord(last)'
    <3>1. PICK t \in Tasks : t = last BY <2>5 DEF HInv, AInv, TypeOK
    <3>2. LastWord(t) BY <2>5, <3>1
    <3>3. t # e BY <3>2, <1>6 DEF LastWord
    <3>4. parameters'[t] = parameters[t] /\ verdict'[t] = verdict[t] BY <3>3, <1>4, <1>6
    <3>5. ~Over(e) BY <1>6 DEF Over
    <3>6. \A u \in Tasks : Before(t, u)' /\ Over(u)' => Before(t, u) /\ Over(u)
      BY <1>5, <1>7, <3>5
    <3>7. LastWord(t)'
      BY <2>1, <2>5, <3>2, <3>4, <3>6, <1>5, <1>6, <1>8 DEF LastWord, Stored
    <3> QED BY <3>1, <3>7, <1>1
  <2>6. ShownFollows'
    <3> SUFFICES ASSUME policy' # None, policy'.status \in {"active", "disabled"}
                 PROVE  IF last = None THEN Untouched' ELSE LastWord(last)'
      BY <1>1 DEF ShownFollows
    <3>1. status = policy.status /\ policy.status \in {"active", "disabled"} BY <2>3, <1>8
    <3>2. IF last = None THEN Untouched ELSE LastWord(last)
      BY <3>1, <1>2 DEF HInv, Follows, ShownFollows
    <3> QED BY <3>1, <3>2, <2>4, <2>5
  <2> QED BY <1>5, <2>2, <2>6 DEF Follows
<1> QED BY <1>10, <1>11

\* The host answers the next task.
LEMMA AnswerFollows ==
  ASSUME HInv, NEW t \in Tasks, Apply(t) \/ ApplyFails(t) \/ Refuse(t)
  PROVE  (Numbered /\ Follows)'
<1>1. /\ UNCHANGED <<verdict, disturbed, issued, expired, parameters, policy, last, superseded, raced>>
      /\ Issued' = Issued
  BY DEF Apply, ApplyFails, Refuse, Channel!Perform, Channel!Refuse, taskVars, historyVars, Issued
<1>2. IsNext(t) BY DEF Apply, ApplyFails, Refuse
<1>3. /\ verdict[t] = "open" /\ t \notin expired /\ t \in Issued /\ outcome[t] = "none"
      /\ \A u \in Tasks : Before(u, t) => outcome[u] # "none" \/ u \in expired
  <2>1. PICK i \in DOMAIN issued :
          /\ issued[i] = t /\ outcome[t] = "none"
          /\ \A j \in 1 .. i - 1 : outcome[issued[j]] # "none" \/ issued[j] \in expired
    BY <1>2 DEF IsNext
  <2>2. verdict[t] = "open" /\ t \notin expired BY <1>2 DEF IsNext
  <2>3. ASSUME NEW u \in Tasks, Before(u, t) PROVE outcome[u] # "none" \/ u \in expired
    <3>1. PICK j \in DOMAIN issued, k \in DOMAIN issued : j < k /\ issued[j] = u /\ issued[k] = t
      BY <2>3 DEF Before
    <3>2. k = i BY <2>1, <3>1 DEF HInv, Numbered
    <3>3. DOMAIN issued \subseteq Nat \ {0}
      <4>1. issued \in Seq(Tasks) BY DEF HInv, AInv, TypeOK
      <4> QED BY <4>1
    <3>4. j \in 1 .. i - 1 BY <3>1, <3>2, <3>3
    <3> QED BY <2>1, <3>1, <3>4
  <2> QED BY <2>1, <2>2, <2>3 DEF Issued
<1>4. \A u \in Tasks : u # t => outcome'[u] = outcome[u]
  BY DEF Apply, ApplyFails, Refuse, Channel!Perform, Channel!Refuse, Channel!FirstAnswer,
         HInv, AInv, TypeOK, Channel!TypeOK
<1>5. \/ outcome'[t] = "ok" /\ rules' = Desired(Stored(t))
      \/ outcome'[t] = "failed"
  <2>1. CASE Apply(t) BY <2>1 DEF Apply
  <2>2. CASE ApplyFails(t) BY <2>2 DEF ApplyFails
  <2>3. CASE Refuse(t)
    BY <2>3, <1>3 DEF Refuse, Channel!Refuse, Channel!FirstAnswer, HInv, AInv, TypeOK, Channel!TypeOK
  <2> QED BY <2>1, <2>2, <2>3
<1>6. \A u, v : Before(u, v)' <=> Before(u, v) BY <1>1, SameOrder
<1>7. ~Over(t) BY <1>3 DEF Over
<1>8. \A u \in Tasks : (Over(u)' <=> Over(u)) /\ (Idle(u)' <=> Idle(u))
  BY <1>1 DEF Over, Idle, Stored
<1>9. Numbered' BY <1>1 DEF HInv, Numbered
<1>10. Answered'
  <2> SUFFICES ASSUME NEW u \in Tasks
               PROVE  /\ verdict'[u] # "cancelled"
                      /\ outcome'[u] # "none" => u \in Issued' \ expired'
                      /\ Over(u)' => outcome'[u] # "none"
                      /\ disturbed' = {} /\ verdict'[u] = "succeeded" => outcome'[u] = "ok"
    BY DEF Answered
  <2>1. CASE u = t BY <2>1, <1>1, <1>3, <1>7, <1>8
  <2>2. CASE u # t BY <2>2, <1>1, <1>4, <1>8 DEF HInv, Follows, Answered
  <2> QED BY <2>1, <2>2
<1>11. Order'
  <2> SUFFICES ASSUME NEW u \in Tasks, NEW v \in Tasks, Before(u, v)
               PROVE  /\ outcome'[v] # "none" => outcome'[u] # "none" \/ u \in expired
                      /\ disturbed = {} /\ Over(v) => verdict[u] # "open" \/ u \in expired
    BY <1>1, <1>6, <1>8 DEF Order
  <2>1. outcome[u] # "none" => outcome'[u] # "none"
    BY <1>3, <1>4
  <2>2. outcome'[v] # "none" => outcome'[u] # "none" \/ u \in expired
    <3>1. CASE v = t BY <3>1, <2>1, <1>3
    <3>2. CASE v # t BY <3>2, <2>1, <1>4 DEF HInv, Follows, Order
    <3> QED BY <3>1, <3>2
  <2> QED BY <2>2 DEF HInv, Follows, Order
<1>12. \A u \in Tasks : Harmless(u)' => Harmless(u)
  BY <1>1, <1>3, <1>4 DEF Harmless, Stored
<1>13. Harmless(t)' => rules' = rules
  <2>1. ASSUME Harmless(t)' PROVE outcome'[t] = "ok" /\ Stored(t).dry
    BY <2>1, <1>1, <1>5 DEF Harmless, Stored
  <2> QED BY <2>1, <1>5 DEF Desired
<1>14. HostFollows'
  <2> SUFFICES ASSUME NEW u \in Tasks, outcome'[u] = "ok", ~Stored(u).dry,
                      \A v \in Tasks : Before(u, v) => Harmless(v)'
               PROVE  rules' = Desired(Stored(u))'
    BY <1>1, <1>6 DEF HostFollows, Stored
  <2>1. Desired(Stored(u))' = Desired(Stored(u)) BY <1>1 DEF Desired, Stored
  <2>2. CASE u = t BY <2>1, <2>2, <1>5
  <2>3. CASE u # t
    <3>1. outcome[u] = "ok" BY <2>3, <1>4
    <3>2. u \in Issued BY <3>1 DEF HInv, Follows, Answered
    <3>3. ~Before(t, u) BY <3>1, <1>3 DEF HInv, Follows, Order
    <3>4. Before(u, t) BY <2>3, <3>2, <3>3, <1>3, OrderOf DEF HInv, AInv
    <3>5. rules' = rules BY <3>4, <1>13
    <3>6. rules = Desired(Stored(u)) BY <3>1, <1>12 DEF HInv, Follows, HostFollows
    <3> QED BY <2>1, <3>5, <3>6
  <2> QED BY <2>2, <2>3
<1>15. RowFollows'
  BY <1>1, <1>6 DEF HInv, Follows, RowFollows, Stored
<1>16. ShownFollows'
  <2>1. Untouched => Untouched'
    BY <1>1, <1>8, <1>12, <1>13 DEF Untouched
  <2>2. ASSUME last # None, LastWord(last) PROVE LastWord(last)'
    <3>1. PICK u \in Tasks : u = last BY <2>2 DEF HInv, AInv, TypeOK
    <3>2. LastWord(u) BY <2>2, <3>1
    <3>3. LastWord(u)' BY <3>2, <1>1, <1>6, <1>8 DEF LastWord, Stored
    <3> QED BY <3>1, <3>3, <1>1
  <2> QED BY <2>1, <2>2, <1>1 DEF HInv, Follows, ShownFollows
<1> QED BY <1>9, <1>10, <1>11, <1>14, <1>15, <1>16 DEF Follows

\* A task expires, or an answer is destroyed.
LEMMA LostFollows ==
  ASSUME HInv, NEW t \in Tasks, Expire(t) \/ Disturb(t)
  PROVE  (Numbered /\ Follows)'
<1>1. /\ UNCHANGED <<verdict, outcome, issued, parameters, policy, rules, last, superseded, raced>>
      /\ Issued' = Issued
      /\ expired \subseteq expired' /\ \A u \in Tasks : outcome[u] # "none" /\ u \in expired' => u \in expired
      /\ disturbed' = disturbed \/ disturbed' # {}
  <2>1. CASE Expire(t)
    BY <2>1 DEF Expire, channelVars, hostVars, historyVars, Issued
  <2>2. CASE Disturb(t)
    BY <2>2 DEF Disturb, Channel!Disturb, taskVars, historyVars, Issued
  <2> QED BY <2>1, <2>2
<1>2. \A u, v : Before(u, v)' <=> Before(u, v) BY <1>1, SameOrder
<1>3. \A u \in Tasks : (Over(u)' <=> Over(u)) /\ (Idle(u)' <=> Idle(u)) /\ (Harmless(u)' <=> Harmless(u))
  BY <1>1 DEF Over, Idle, Harmless, Stored
<1>4. Numbered' BY <1>1 DEF HInv, Numbered
<1>5. Answered' BY <1>1, <1>3 DEF HInv, Follows, Answered
<1>6. Order' BY <1>1, <1>2, <1>3 DEF HInv, Follows, Order
<1>7. HostFollows' BY <1>1, <1>2, <1>3 DEF HInv, Follows, HostFollows, Stored, Desired
<1>8. RowFollows' BY <1>1, <1>2 DEF HInv, Follows, RowFollows, Stored
<1>9. ShownFollows'
  <2>1. Untouched => Untouched' BY <1>1, <1>3 DEF Untouched
  <2>2. ASSUME last # None, LastWord(last) PROVE LastWord(last)'
    <3>1. PICK u \in Tasks : u = last BY <2>2 DEF HInv, AInv, TypeOK
    <3>2. LastWord(u) BY <2>2, <3>1
    <3>3. LastWord(u)' BY <3>2, <1>1, <1>2, <1>3 DEF LastWord, Stored
    <3> QED BY <3>1, <3>3, <1>1
  <2> QED BY <2>1, <2>2, <1>1 DEF HInv, Follows, ShownFollows
<1> QED BY <1>4, <1>5, <1>6, <1>7, <1>8, <1>9 DEF Follows

\* A result is recorded: it has the last word, or says nothing.
LEMMA RecordFollows ==
  ASSUME HInv, NEW t \in Tasks, RecordSuccess(t) \/ RecordFailure(t)
  PROVE  (Numbered /\ Follows)'
<1>1. /\ verdict[t] = "open" /\ outcome[t] # "none"
      /\ \A u \in Tasks : u # t => verdict'[u] = verdict[u]
      /\ verdict'[t] \in {"succeeded", "failed"}
      /\ RecordSuccess(t) => verdict'[t] = "succeeded"
      /\ t \notin disturbed => (RecordSuccess(t) <=> outcome[t] = "ok")
      /\ UNCHANGED <<outcome, disturbed, issued, expired, parameters, rules, raced>>
  BY Results DEF HInv, taskVars, hostVars
<1>2. t \notin disturbed =>
        \A u \in Tasks : Before(u, t) => verdict[u] # "open" \/ u \in expired \cup disturbed
  BY Results DEF HInv, InOrder, Before
<1>3. Issued' = Issued /\ t \in Issued BY <1>1 DEF Issued
<1>4. \A u, v : Before(u, v)' <=> Before(u, v) BY <1>1, SameOrder
<1>5. /\ \A u \in Tasks : Over(u)' <=> Over(u) \/ u = t
      /\ ~Over(t)
  BY <1>1 DEF Over
<1>6. \A u \in Tasks : (Harmless(u)' <=> Harmless(u)) /\ (u # t => (Idle(u)' <=> Idle(u)))
  BY <1>1 DEF Harmless, Idle, Stored
<1>7. Numbered' BY <1>1, <1>3 DEF HInv, Numbered
<1>8. Answered'
  <2> SUFFICES ASSUME NEW u \in Tasks
               PROVE  /\ verdict'[u] # "cancelled"
                      /\ outcome[u] # "none" => u \in Issued \ expired
                      /\ Over(u)' => outcome[u] # "none"
                      /\ disturbed = {} /\ verdict'[u] = "succeeded" => outcome[u] = "ok"
    BY <1>1, <1>3 DEF Answered
  <2>1. outcome[u] # "none" => u \in Issued \ expired BY DEF HInv, Follows, Answered
  <2>2. CASE u = t
    <3>1. RecordFailure(t) => verdict'[t] = "failed" BY Results DEF HInv
    <3> QED BY <2>1, <2>2, <3>1, <1>1
  <2>3. CASE u # t BY <2>1, <2>3, <1>1, <1>5 DEF HInv, Follows, Answered
  <2> QED BY <2>2, <2>3
<1>9. Order'
  <2> SUFFICES ASSUME NEW u \in Tasks, NEW v \in Tasks, Before(u, v)
               PROVE  /\ outcome[v] # "none" => outcome[u] # "none" \/ u \in expired
                      /\ disturbed = {} /\ Over(v)' => verdict'[u] # "open" \/ u \in expired
    BY <1>1, <1>4 DEF Order
  <2>1. verdict[u] # "open" => verdict'[u] # "open" BY <1>1
  <2>2. disturbed = {} /\ Over(v)' => verdict[u] # "open" \/ u \in expired
    <3>1. CASE v = t BY <3>1, <1>2
    <3>2. CASE v # t BY <3>2, <1>5 DEF HInv, Follows, Order
    <3> QED BY <3>1, <3>2
  <2> QED BY <2>1, <2>2 DEF HInv, Follows, Order
<1>10. HostFollows' BY <1>1, <1>4, <1>6 DEF HInv, Follows, HostFollows, Stored, Desired
<1>11. policy \in Policy BY <1>1 DEF HInv, AInv, Rows, TypeOK
<1>12. Stored(t) \in Parameters BY <1>1 DEF HInv, AInv, Rows, TypeOK, Stored
<1>13. policy'.kernel = policy.kernel /\ policy'.enabled = policy.enabled
  <2>1. CASE RecordSuccess(t)
    <3>1. policy' = Recorded(t) BY <2>1 DEF RecordSuccess
    <3> QED BY <3>1, <1>11 DEF Recorded, Policy
  <2>2. CASE RecordFailure(t) BY <2>2, <1>11 DEF RecordFailure, Policy
  <2> QED BY <2>1, <2>2
<1>14. RowFollows' BY <1>1, <1>3, <1>4, <1>13 DEF HInv, Follows, RowFollows, Stored
<1>15. ShownFollows'
  <2>1. CASE RecordFailure(t)
    <3>1. policy'.status = "error" BY <2>1, <1>11 DEF RecordFailure, Policy
    <3> QED BY <3>1 DEF ShownFollows
  <2>2. CASE RecordSuccess(t) /\ Stored(t).dry
    <3>1. policy' = policy /\ last' = last /\ superseded' = superseded
      BY <2>2 DEF RecordSuccess, Recorded
    <3>2. Idle(t)' BY <2>2, <1>1 DEF Idle, Stored
    <3>3. \A u \in Tasks : Over(u)' /\ (Over(u) => Idle(u)) => Idle(u)'
      BY <3>2, <1>5, <1>6
    <3>4. Untouched => Untouched' BY <3>1, <3>3, <1>1, <1>5, <1>6 DEF Untouched
    <3>5. ASSUME last # None, LastWord(last) PROVE LastWord(last)'
      <4>1. PICK u \in Tasks : u = last BY <3>5 DEF HInv, AInv, TypeOK
      <4>2. LastWord(u) BY <3>5, <4>1
      <4>3. u # t BY <4>2, <1>1 DEF LastWord
      <4>4. LastWord(u)' BY <4>2, <4>3, <3>1, <3>3, <1>1, <1>4, <1>5 DEF LastWord, Stored
      <4> QED BY <4>1, <4>4, <3>1
    <3> QED BY <3>1, <3>4, <3>5 DEF HInv, Follows, ShownFollows
  <2>3. CASE RecordSuccess(t) /\ ~Stored(t).dry
    <3>1. policy' = Recorded(t) /\ last' = t /\ superseded' = EditedSince(t)
      BY <2>3 DEF RecordSuccess
    <3>2. /\ policy'.status = "disabled" <=> Stored(t).remove
          /\ ~Stored(t).remove => policy'.mode = Stored(t).mode /\ policy'.rate = Stored(t).rate
      <4>1. CASE Stored(t).remove BY <2>3, <3>1, <4>1, <1>11 DEF Recorded, Policy
      <4>2. CASE ~Stored(t).remove
        <5> DEFINE schedule == IF t \in Requests /\ approvals[t].reschedules
                                 THEN Stored(t).schedule ELSE policy.schedule
        <5>1. policy' = [policy EXCEPT !.mode = Stored(t).mode, !.rate = Stored(t).rate,
                                       !.status = "active", !.schedule = schedule]
          BY <2>3, <3>1, <4>2 DEF Recorded
        <5> HIDE DEF schedule
        <5> QED BY <5>1, <4>2, <1>11 DEF Policy
      <4> QED BY <4>1, <4>2
    <3>3. ASSUME disturbed = {}, NEW u \in Tasks, Before(t, u) PROVE ~Over(u)'
      <4>1. u # t BY <3>3, OrderOf DEF HInv, AInv
      <4>2. t \notin expired BY <1>1 DEF HInv, Follows, Answered
      <4>3. ~Over(u) BY <3>3, <4>2, <1>1 DEF HInv, Follows, Order
      <4> QED BY <4>1, <4>3, <1>5
    <3>4. ~superseded' => \A f \in Edits : ~Before(t, f)
      BY <3>1 DEF EditedSince, Before
    <3>5. verdict'[t] = "succeeded" BY <2>3, <1>1
    <3>6. LastWord(t)' BY <2>3, <3>2, <3>3, <3>4, <3>5, <1>1, <1>4 DEF LastWord, Stored
    <3>7. t # None BY ConstantsAssumption
    <3> QED BY <3>1, <3>6, <3>7 DEF ShownFollows
  <2> QED BY <2>1, <2>2, <2>3
<1> QED BY <1>7, <1>8, <1>9, <1>10, <1>14, <1>15 DEF Follows

LEMMA NextHInv == HInv /\ [Next]_vars => HInv'
<1> SUFFICES ASSUME HInv, [Next]_vars PROVE (Numbered /\ Follows)'
  BY NextAInv DEF HInv
<1>1. CASE \/ UNCHANGED vars \/ SelectExpired \/ CommitExpired
           \/ \E e \in Edits : BeginEdit(e)
           \/ \E r \in Requests : BeginDecision(r) \/ DecideTooLate(r)
  <2>1. UNCHANGED <<channelVars, issued, expired, parameters, policy, rules, historyVars>>
    BY <1>1 DEF vars, SelectExpired, CommitExpired, BeginEdit, BeginDecision, DecideTooLate,
                taskVars, hostVars
  <2> QED BY <2>1, StillFollows
<1>2. ASSUME NEW r \in Requests, RequestChange(r) PROVE (Numbered /\ Follows)'
  <2>1. UNCHANGED <<channelVars, issued, expired, policy, rules, historyVars>>
    BY <1>2 DEF RequestChange, hostVars
  <2>2. parameters[r] = None BY <1>2 DEF RequestChange, IsNew
  <2>3. r \notin Issued BY <2>2 DEF Issued, HInv, AInv, Rows
  <2>4. \A t \in Tasks : t # r => parameters'[t] = parameters[t]
    BY <1>2 DEF RequestChange, HInv, AInv, TypeOK
  <2>5. \A t \in Issued : parameters'[t] = parameters[t] BY <2>3, <2>4 DEF Issued
  <2> QED BY <2>1, <2>5, StillFollows
<1> QED BY <1>1, <1>2, CreateFollows, EditFollows, DecisionFollows, AnswerFollows, LostFollows,
           RecordFollows DEF Next

LEMMA HostAgreesWhenQuiet == HInv => HostAgrees
<1> SUFFICES ASSUME HInv, policy # None, Quiet, ~Outdated, ~superseded, ~raced,
                    policy.status \in {"active", "disabled"}
             PROVE  /\ policy.status = "active" => rules = Described
                    /\ policy.status = "disabled" => rules = None
  BY DEF HostAgrees
<1>1. disturbed = {} BY DEF Quiet
<1>2. \A u \in Tasks : outcome[u] # "none" => Over(u)
  <2> SUFFICES ASSUME NEW u \in Tasks, outcome[u] # "none" PROVE Over(u)
    OBVIOUS
  <2>1. verdict[u] # "none" /\ verdict[u] # "cancelled" /\ u \notin expired
    BY DEF HInv, Follows, Answered, Issued
  <2>2. verdict[u] # "open" BY <2>1 DEF Quiet
  <2> QED BY <2>1, <2>2 DEF HInv, AInv, TypeOK, Channel!TypeOK, Channel!Terminal, Over
<1>3. \A u \in Tasks : Idle(u) => Harmless(u)
  BY <1>1 DEF HInv, Follows, Answered, Idle, Harmless
<1>4. CASE last = None
  <2>1. Untouched BY <1>4 DEF HInv, Follows, ShownFollows
  <2>2. \A u \in Tasks : Harmless(u) BY <2>1, <1>1, <1>2, <1>3 DEF Untouched, Harmless
  <2> QED BY <2>1, <2>2 DEF Untouched, Described
<1>5. CASE last # None
  <2>1. PICK t \in Tasks : t = last BY <1>5 DEF HInv, AInv, TypeOK
  <2>2. LastWord(t) BY <1>5, <2>1 DEF HInv, Follows, ShownFollows
  <2>3. verdict[t] = "succeeded" /\ ~Stored(t).dry BY <2>2 DEF LastWord
  <2>4. outcome[t] = "ok" BY <2>3, <1>1 DEF HInv, Follows, Answered
  <2>5. \A u \in Tasks : Before(t, u) => Harmless(u)
    BY <2>2, <1>1, <1>2, <1>3 DEF LastWord, Harmless
  <2>6. rules = Desired(Stored(t)) BY <2>3, <2>4, <2>5 DEF HInv, Follows, HostFollows
  <2>7. policy.status = "disabled" <=> Stored(t).remove BY <2>2 DEF LastWord
  <2>8. CASE Stored(t).remove BY <2>3, <2>6, <2>7, <2>8 DEF Desired
  <2>9. CASE ~Stored(t).remove
    <3>1. rules = [kernel |-> Stored(t).kernel, mode |-> Stored(t).mode, rate |-> Stored(t).rate]
      BY <2>3, <2>6, <2>9 DEF Desired
    <3>2. CASE t \in Requests BY <3>1, <3>2, <2>1, <2>7, <2>9 DEF Outdated
    <3>3. CASE t \in Edits
      <4>1. t \in Issued /\ \A f \in Edits : ~Before(t, f)
        BY <2>2, <2>3 DEF LastWord, Issued
      <4>2. policy.kernel = Stored(t).kernel /\ policy.enabled = ~Stored(t).remove
        BY <3>3, <4>1 DEF HInv, Follows, RowFollows
      <4>3. policy.mode = Stored(t).mode /\ policy.rate = Stored(t).rate
        BY <2>2, <2>9 DEF LastWord
      <4> QED BY <3>1, <4>2, <4>3, <2>7, <2>9 DEF Described
    <3> QED BY <3>2, <3>3 DEF Tasks
  <2> QED BY <2>8, <2>9
<1> QED BY <1>4, <1>5

\* A policy that is shown as active or disabled is what the host runs, whatever
\* the order of edits, approvals and results: _record_port_traffic_result,
\* update_port_traffic_policy, desiredState.
THEOREM HostRunsWhatIsShown == Spec => []HostAgrees
<1> QED BY InitHInv, NextHInv, HostAgreesWhenQuiet, PTL DEF Spec
=============================================================================
