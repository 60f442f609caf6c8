# VPS Guardian: specifications, model checks and proofs

VPS Guardian is a controller (FastAPI and PostgreSQL, `controller/guardian`), a
Go agent on every managed host (`agent`), a privileged network helper next to
it (`agent/nethelper`), and shell and Python scripts that install, upgrade and
back up the controller (`scripts`). Paths below are relative to the root of the
repository.

The controller never calls an agent. Every minute the agent sends a heartbeat
that carries metrics, traffic observations and the oldest records of its disk
queue; the reply carries tasks. Everything else hangs on this loop: repairs
are planned from what heartbeats report and end when results come back, port
traffic policies change when their tasks succeed, a prepared identity proves
itself by heartbeats before an owner activates it, a decommission takes tasks back.

## Inventory

| part | state | operations | what makes it correct |
|---|---|---|---|
| Task channel, `api.py` `agent_heartbeat`, `tasking.py`, `reconciliation.py` `record_agent_results` | `AgentTask` rows | create, deliver, record result, expire, cancel | a verdict is what the host answered first, is final, and every task gets one |
| Agent loop, `main.go`, `queue.go`, `actions.go` | queue file, action state file | snapshot, send, acknowledge, execute, enqueue, restart | an action runs at most once, an answer survives until it is recorded |
| Repairs, `reconciliation.py`, `runbooks.py` | `Incident`, `RepairAttempt` | open, plan (dry run, then actual), conclude, resolve | one repair at a time, never without a passed dry run, bounded attempts |
| Approvals, `api.py` 277-300, 4236-4404 | `Approval` | request, decide, expire, conclude | decided once, not by its requester, tasks only from an approval in force |
| Port traffic, `port_traffic.py`, `nethelper` | policy, runtime state, samples, rollups, helper state file | apply, remove, reset, ingest, scheduled resets | a boundary resets once, counters agree, no traffic invented by a reset |
| Agent identities, `agent_security.py`, `api.py` 5164-5600, `identity.go` | `AgentIdentity` rows, generation directories | renew, rotate, validate pending, retire, revoke | one active identity, the agent can always prove one the controller accepts |
| Enrollment, `enrollment.py` | `EnrollmentToken` | issue, authenticate, consume, progress, fail, revoke | a token is redeemed once |
| Maintenance, `maintenance.py` | `AgentMaintenanceSession` | issue, consume, progress, finalize, revoke | one session per host, monotonic progress |
| Alerts, `alerting.py`, `liveness.py` | `AlertInstance`, silences, windows | observe, acknowledge, silence, close | nothing fires while silenced, what is announced as resolved was announced |
| Checks and notifications, `monitoring.py`, `notifications.py`, `main.py` | checks, results, deliveries | run due, record, schedule, deliver, retry | delivered or failed after bounded retries, not twice |
| Users and sessions, `sessions.py`, `identity.py`, `security.py` | users, sessions, one-time codes | log in, touch, step up, revoke, transfer ownership | a revoked session stays revoked, an owner remains |
| Backups, `backup.py`, `run-systemd-backup.sh`, `systemd-backup-markers.py` | repository, `RecoveryPoint` rows, freshness markers | back up, attest, plan and apply retention, plan and execute a restore | verified is only what was restored, one attestation counts, snapshots go and come back as approved |
| Lifecycle, `scripts/lifecycle-journal.py`, `atomic-directory-switch.py`, upgrade, rollback, recover | journal, release directories, units, database revision | phases of install, upgrade, rollback, recovery | a crash anywhere leaves a state recovery can finish |
| Monitor state machine, `state_machine.py` | counters, state | observe | thresholds and cooldown; nothing but its own tests uses it |

Concurrency: one uvicorn process. `async` handlers (the heartbeat, renewal and
validation of identities, approval decisions, the notification test) and the
two background coroutines of `main.py` run on the event loop and interleave
only at their `await`s; the other handlers run in a thread pool and interleave
at every SQL statement, at READ COMMITTED. Agents, their helper and the scripts
are processes of their own. The hard behaviours are listed under `hazards` in
`PROJECT.json`, each at the line where it bites.

## The modules

| module | models | builds on |
|---|---|---|
| `AgentTasks` | the task channel between one agent and the controller | implements `TaskOutcome` |
| `TaskOutcome` | what the channel promises | |
| `NetHelper` | the privileged helper and its state file | |
| `PortTrafficResets` | scheduled and requested resets of one policy | `TaskOutcome` |
| `PolicyChanges` | edits, approvals and results of one policy | `TaskOutcome` |
| `TrafficSamples` | samples, rollups and traffic alerts of one policy | `AlertRules` |
| `Repairs` | incidents and repairs of one host | `TaskOutcome` |
| `AgentIdentity` | the identities of one agent, and its link to one | |
| `AgentLifecycle` | enrolment, maintenance and decommissioning | `AgentIdentity` |
| `AlertRules` | what one observation does to an alert | |
| `Alerting` | one alert, the two background loops and the messages | `AlertRules` |
| `LifecycleJournal` | the journal of a transaction of the controller's host | |
| `ControllerHost` | installation, upgrade, rollback, recovery | `LifecycleJournal` |
| `RecoveryPoints` | backups, attestations, retention, restores | |
| `Accounts` | users, sessions and second factors | |

`MC*` instantiate them for TLC, `*_proofs` hold the theorems. The order is that
of importance: the channel first, because all else relies on it, then what acts
on hosts, then the controller's own bookkeeping.

A definition whose name continues that of another one (`DeltaFromZero` of
`Delta`) and whose comment begins with "Variant:" is a plausible mistake, which
`PROJECT.json` pairs with the property that finds it. No specification uses it.

Two runs hold two components each that share no state: `resets_releases` and
`samples_accounts`. A variable `moving`, settled at the start, says which of the
two takes all the steps of a behaviour, so that each is explored as if it were
alone, with its own bounds and its own fairness; the states of the run are those
of the one and those of the other, never their product.

### Proved and not proved

Every safety and action property of the passing runs is a theorem, for every value
of the constants; the sections below say by which inductive invariant. TLC has
checked each of these invariants on the instance of the run before.

| module | proves about |
|---|---|
| `AgentTasks_proofs` | `AgentTasks`, and that it implements `TaskOutcome` |
| `Host_proofs` | `NetHelper`, `AgentIdentity` and `AgentLifecycle` |
| `PortTraffic_proofs` | `PortTrafficResets` and `TrafficSamples` |
| `PolicyChanges_proofs`, `Repairs_proofs`, `ControllerHost_proofs`, `Accounts_proofs` | the module of that name |
| `Operations_proofs` | `RecoveryPoints`, and `Alerting` with `AlertRules` |

The theorems assume what the modules assume of their constants and nothing else.

Only model-checked is liveness (`TaskConcludes`, `RulesReturn`, `ScheduleMoves`,
`DeliveryEnds`, `Recovers`): fairness and `ENABLED` are outside what TLAPS proves
here.

## The task channel

`AgentTasks.tla` models one agent and the controller.

| model | code |
|---|---|
| `status`, `createdAt`, `expired`, `revoked` | `AgentTask.status`, `.created_at`, `.expires_at` against the controller's clock, `Agent.revoked_at` |
| `queue` | the file of `DiskQueue`; a record is a task's result or a `heartbeat_failed` notice |
| `saved`, `savedHot`; `completed`, `hot` | `Completed` and the keys of `LastRun` within ten minutes, in the state file and in memory |
| `pc`, `snap`, `batch`, `result` | where `run` is: between requests, waiting, inside `Execute` before `saveState`, before `Enqueue` |
| `late`, `reply` | requests the agent gave up on that the server may still handle; the response |
| `HandleHeartbeat`, `HandleLate`, `DeferHeartbeat`, `RefuseHeartbeat` | `agent_heartbeat`: record results, then select and mark tasks; identity pending (425); agent revoked |
| `CreateTask`, `Expire`, `Decommission` | `create_agent_task`; time; `finalize_agent_maintenance` |
| `SendHeartbeat` ... `QueueResult`, `Restart` | `run`, `DiskQueue`, `ActionRegistry.Execute`, `NewActionRegistry` |

The handler of a heartbeat is one action: it is `async`, holds the agent row
`FOR UPDATE` and does not suspend before its commit. `Execute` is two: the
action has effects before its completion is saved. Writes that may fail are
those whose error the code ignores (`Ack`, `saveState`, `Enqueue`).

History variables: `answer` is the first answer the agent had for a task,
`runs` counts performances, and `disturbed` holds the tasks of which an answer or a completion was destroyed:
dropped by the size limit, not written, or in memory when the agent stopped.
Several promises hold for all other tasks only, and that is what the code gives.

`TaskOutcome.tla` is what the channel promises to repairs, approvals and
traffic policies. It has neither heartbeats nor files: a task is issued,
performed, concluded with its outcome or cancelled before the host heard of it.
`ImplementsOutcome` checks that every step of the channel is a step of it.

### Runs

`tasks_channel`: two repairs of one target, one failure of any kind and one
request handled late. Is every verdict the first answer, every answer kept, no
action repeated, the order kept, the abstract channel implemented; do all open
tasks come to an end, and does every answer that survives reach the controller?

Bounds. Two tasks are the fewest with an order, a shared cooldown and
starvation. The queue holds two results or four notices, so that a result is
dropped both by results and by notices; a reply holds both tasks and a heartbeat
one record, so that a task is delivered again while its answer, or two answers
of it, still wait in the queue. The properties of safety are proved for any
tasks, failures, late requests and limits (below); the run has what the liveness
property and the mutants need: one failure that destroys an answer, one late
request, one restart. `MaxFaults` and `MaxLate` bound the model, not the code.

Fairness (`FairSpec`). The agent's loop has no wait without a timeout, so it
takes a step while it can; the server answers a request that reaches it. The
clocks of the two hosts drift by a bounded amount: a task that is over for the
agent will be over for the controller. Failures are finitely many. Nothing is
assumed of creation, expiry, decommissioning, cooldowns or late requests.

### Proofs

`AgentTasks_proofs.tla` proves, for any tasks, limits and number of failures,
from `ConstantsAssumption` only: `TypeCorrect`, `VerdictCorrect`, `AnswerKept`,
`AtMostOnce`, `FinalVerdict`, `InCreationOrder` and `ImplementsTaskOutcome`.

None of the three invariants is inductive. `IInv` adds four parts:

* `Traces`: every record of a task, in the queue, in a request under way or in
  one handled late, has an answer behind it, so that a verdict has one;
* `FirstRecords`: the first record of an undisturbed task in any of these
  carries its first answer, which is why keeping the first record is right;
* `HeadSent`: while the agent waits, the events it sent are the head of its
  queue, and once the reply is there they are recorded, which is why dropping
  as many as were sent loses nothing;
* `Remembered`: an undisturbed task that was performed is in `completed`, and
  in the file unless the agent is about to write it.

Then `InitInv`, `NextInv` (one step per action, on lemmas about prefixes and
suffixes of queues) and `Invariance`; the theorems are consequences.

The order of tasks and the refinement need to know which tasks the agent may
have in hand, while requests it gave up on are still handled. `OInv` adds:

* `Unheard`: the agent has nothing of a task that is pending or cancelled, which
  is why a cancellation is final (`FinalVerdict`) and a step of `TaskOutcome`;
* `Rounds`: one request is under way, and carries the head of the queue;
* `LateHead`, `LateDone`, `OpenBatch`: what a request given up on may conclude is
  sent again with the next one, so that by the time the agent has tasks such a
  request concludes nothing, and an undisturbed task in hand is open;
* `Successes`, `Concluded`: a success is reported of a task that was performed, a
  verdict has an answer behind it, and only a revoked agent has cancelled tasks;
* `Ranks`, `InOrder`: nothing older than a task handed out was left out, except
  what is answered or expired.

`InCreationOrder` follows from the last. For `ImplementsTaskOutcome` the
refinement mapping takes `verdict`, `performed` and `outcome` from the status,
the runs and the first answer; every step of the channel is shown to be one of
`Issue`, `Perform`, `Refuse`, `Disturb`, `Cancel` and `Exchange`, or a stutter.

`TaskConcludes`, a liveness property, is only model-checked.

## The network helper

`NetHelper.tla` models the root helper for one policy: what a snapshot and a
signed task do to the kernel's objects and to the state file, step by step.

| model | code |
|---|---|
| `table`, `counter`, `qdisc` | the owned nftables table and its counter, the interface's root qdisc |
| `disk` | `policies.json`: one policy and the nonces in `CompletedNonce` |
| `pc`, `request`, `raw`, `mem`, `rebuilt` | the locals of `executeRequest` and `snapshot` |
| `ReadSnapshot`, `Restore`, `CommitSnapshot` | `snapshot`: read and verify; absorb, `applyNetwork`, read again; `writeState`, then the response |
| `BeginRequest`, `ApplyRequest`, `CommitRequest`, `CommitFails`, `Undo`, `Save` | `executeRequest`: authorize, absorb, `desiredState`; `applyNetwork`; `writeState`; its two compensations |
| `Refused`, `Built`, `RolledBack`, `StopHalfway` | the ways `applyNetwork` ends: before nft, well, after its own roll back, between nft and tc |
| `Added` | rules are built without a flush because `tableExists` failed |
| `Stop`, `StopHalfway`, `Fault` | crashes, the twenty seconds of the context, failing commands and writes |
| `DeleteTable`, `ChangeQdisc`, `Traffic` | other programs, the kernel |

Traffic and other programs interleave with every step. History variables:
`passed` counts what went through the rules, `lost` counts the bytes a step left
behind, and `doubled` remembers that one counted some twice. `lost` grows with a
deleted table, with bytes that arrive between the read and a rebuild, with a rebuild
whose absorbed bytes are not written (a crash, a failing write, and the roll back
of a failing tc, after which the helper returns without writing), and with a
rebuild before which the counter was not read because the table could not be
listed. `doubled` is set by a restore that fails, by a dry run, and by rules added
to those there are because the table could not be listed. `CountsOnce` and
`CountsAll` say that everything else is exact: `CountsAll` bounds what is missing
by `lost`, so that one loss does not excuse another.

From the outside the model takes what the code and its tests take (`fakeRunner`
in `main_test.go`): after `flush table` and `add counter` the counters are at
zero, and an interface without a qdisc of ours or another program's shows none.

| run | question |
|---|---|
| `helper_counts` | with two failures, crashes or interventions anywhere: are bytes counted once and all, does a signed task work once, do reports never go back, do rules come back |
| `helper_rollback` | does a failing tc leave the former rules with what was absorbed, as documented: it does not (see Findings) |

Bounds. Four tasks (create, reset, dry run, remove) are one of each kind; two
bytes let one be in the file and one not; two failures are the fewest for a
commit that fails and whose compensation fails. `MaxBytes`, `MaxCount` and
`MaxFaults` bound the model, not the code.

Fairness. A started helper goes on (it has a time limit), and the agent asks
for a snapshot before every heartbeat: weak fairness of the process, strong
fairness of the snapshot, which tasks may delay but not prevent.

### Proofs

`Host_proofs.tla` proves, for any requests, any traffic and any number of
failures, from `ConstantsAssumption` only: `TypeCorrect`, `RequestOnlyOnce`,
`NeverCountedTwice`, `AlwaysCounted` and `ReportsNeverBack`.

What the properties say of a helper at rest depends on what it holds in memory
while it works. `IInv` adds four parts:

* `Working`: the state it is going to write goes on from the file: the same
  generation and start of period, or the next generation, and no fewer bytes;
* `Nonces`: a request that changed the policy is in the file until it expires,
  and in whatever is going to replace the file;
* `Durable`: what was reported is in the file, or the file is a generation on;
* `Counted`: an upper bound on the bytes of the file, of the state in memory
  and of the baseline, each together with the kernel counter. `Within` carries
  the case of a counter that is behind its mark: it has started again, so all
  of it is new.

`AlwaysCounted` rests on a second invariant, `Kept`, the lower bounds: the file,
the state to be written or the baseline covers all bytes but those `lost`
(`Covers`), and between the building of rules and the write the file covers them
but for `Unwritten`, which is what a crash there adds to `lost`.
`ExitInv` and `ExitKept` serve all steps that end the process without writing.

`RulesReturn`, a liveness property, is only model-checked.

## Scheduled resets

`PortTrafficResets.tla` models the resets of one port traffic policy from the
calendar to the recorded result. Tasks go through `TaskOutcome`, which is what
`AgentTasks` is shown to implement; `performed` and `outcome` are the host's
side of it, `verdict` is the controller's.

| model | code |
|---|---|
| `Calendar` | `next_reset_at` of an approved schedule: the first boundary after a time, 0 if none is left |
| `nextReset`, `lastReset`, `generation` | `PortTrafficRuntimeState` |
| `events` | `PortTrafficResetEvent` rows |
| `boundary` | the `scheduled_for` parameter of a task |
| `delivered`, `expired` | `AgentTask.status` beyond pending; `expires_at` has passed, for both clocks |
| `hostGeneration`, `granted` | the generation in the helper's file, and in its answers |
| `Dispatch` | `dispatch_due_port_traffic_resets`, one cycle of `monitor_service_checks` |
| `RequestReset` | `decide_approval` of a requested reset |
| `Heartbeat` | `agent_heartbeat`: `_record_port_traffic_result` for one result or none, `ingest_observations`, the reply |
| `Reset`, `ResetFails` | the agent's `portTraffic` and the helper's `reset`; a failure may come after the file was written (`unheard`) |
| `Disturb` | an answer or the trace of a performance is lost, see `TaskOutcome` |

The dispatch and the heartbeat run on the event loop without an `await` between
their first query and their commit, so each is one step.

| run | question |
|---|---|
| `resets_releases` (first half) | is no boundary left behind without a reset, does the history of resets agree with the host, does `next_reset_at` go back only by a known overlap, does it move on |

`NothingSkipped` has to allow for a reset that is recorded after a later
boundary has passed: `next_reset_at` then goes on from the time of the record,
and the boundaries before it count as done. `HistoryComplete` speaks of the
moments when no answer is outstanding and none was lost. `ScheduleMoves`
excepts one case that does stop the schedule: a scheduled or requested reset
that expires before the agent fetches it (an agent that was offline for five
minutes) stays pending, and a pending task keeps `Dispatch` from queueing
another.

Bounds. Two scheduled tasks can be of one boundary or of two; with the
requested one three can overlap. Two boundaries and a time after the last are
the fewest with a boundary to skip, to go back to, and an end of the schedule.
One fault loses an answer, or makes a reset unheard.

Fairness (`FairSpec`). The monitor loop runs every ten seconds and the agent
sends a heartbeat every minute; it performs what it was given unless that has
expired; every answer is recorded in the end, which is the second half of
`TaskConcludes` of `AgentTasks`, and a strong condition here because other heartbeats come between.

### Proofs

`PortTraffic_proofs.tla` proves `TypeCorrect`, `NeverSkipped` and
`BackwardsByFailure` for any tasks, any number of faults and every calendar
that `CalendarAssumption` admits: a boundary is later than the time it is asked
for, and is the same for all times up to it. All schedule types have both,
since they look for the first matching day after the day of `after`.

`FirstAfter` draws from the assumption that no boundary lies between a time and
the first boundary after it. The invariant `Schedule` adds to the properties
that the boundaries up to that of any task are dealt with (`Covered`, needed
when a failure moves the schedule back to there), that tasks not yet created
have none (`Fresh`), and where the value of `nextReset` came from (`Origin`: the
last recorded reset, or a failure).

`NoResetForgotten` (`HistoryComplete`) needs to say by how much the controller
lags behind while answers are under way. `History` does, as long as nothing was
lost: a task has a generation if and only if the host reset the counters for it
(`Answers`), one each (`OneEach`) and without gaps (`NoneMissing`), and those
recorded are a beginning of them (`RecordedFirst`), because the channel is
recorded in order. With nothing outstanding that beginning is all of them; the
last step counts generations.

`ScheduleMoves`, a liveness property, is only model-checked.

## Policy changes

`PolicyChanges.tla` models how one port traffic policy comes to be what it is.
An administrator edits it, which sends a task at once, or requests a change of
mode, rate or schedule, which another one decides. The row follows when the
results are recorded.

| model | code |
|---|---|
| `policy`, `approvals` | the `PortTrafficPolicy` and `Approval` rows |
| `issued`, `parameters`, `verdict`, `outcome` | the tasks in their order, what they ask for, and the channel of `TaskOutcome` |
| `rules` | the policy in the helper's state file |
| `CreatePolicy`, `BeginEdit`, `CommitEdit` | `create_port_traffic_policy`, `update_port_traffic_policy`: a thread, which writes the columns that differ from what it has read |
| `RequestChange` | `request_port_traffic_change`: the whole policy is written down |
| `SelectExpired`, `CommitExpired` | `expire_pending_approvals` in the thread that lists approvals |
| `BeginDecision`, `CommitDecision`, `DecideTooLate` | `decide_approval` on the event loop |
| `Apply`, `ApplyFails`, `Refuse`, `Expire`, `Disturb` | the helper, with `verifyAuthorization`; the channel |
| `RecordSuccess`, `RecordFailure` | `_record_port_traffic_result` and the end of an approval |

`changes_agree` asks whether the row agrees with the host once no task is
outstanding, whether the host enforces only what was approved by someone else,
and whether the status of an approval is that of its task. The first and the
last hold but for cases the properties name, each remembered by a history
variable: see "What the code does".

Bounds. Two edits are the fewest that overlap, or that leave the result of one
to be recorded after the other. One request can be out of date, be decided while
it expires, and be performed in any order with the edits. Two users are a
requester and an approver; one fault makes a task unheard or loses an answer.

### Proofs

`PolicyChanges_proofs.tla` proves `TypeCorrect`, `ApprovalsTell`,
`NothingUnapproved` and `HostRunsWhatIsShown`, for any number of edits, requests,
users and faults. `ConstantsAssumption` says of the constants only that edits are
not requests and that `None` is no value of a column.

* `AInv` is about approvals: which rows exist (`Rows`); what a decision, an expiry
  or an edit under way may rely on, since each reads before it writes
  (`UnderWay`); that a task of a request was approved (`Decided`); and that the
  request which explains what the host enforces has a task, after which no
  decision can change it (`Explained`).
* `HInv` adds who had the last word. Tasks are numbered in the order of their
  creation (`Numbered`) and are answered and concluded in that order (`Order`). The
  host runs what the last performed task asked for (`HostFollows`), the ports of
  the row are those of the newest edit (`RowFollows`) and its status that of the
  last result (`ShownFollows`); once everything is quiet these are the same task,
  unless a failure or one of the races `HostAgrees` names has come between.

## Traffic samples

`TrafficSamples.tla` models what heartbeats bring of one policy and what the
controller makes of it: samples, hourly and daily rollups, the history and the
alerts on quota, rules and gaps. Meanwhile the policy is reset, disabled and
enabled, requests come late, the clock of the agent is set back and old rows are
pruned.

| model | code |
|---|---|
| `counter` | the helper's policy: bytes of its life, the mark of the period, the generation |
| `SampleRequest`, `SendSamples`, `Delay`, `HandleHeld` | `snapshot` and the request that carries it, handled at once or later |
| `Ingest`, `StoreSample`, `Rolled`, `ReportGap` | `ingest_observations`, `_update_rollup`, `missing_is_gap` |
| `Observe`, `Below` | `_observe_quota_alerts` and its neighbours, on `AlertRules` |
| `SetEnabled`, `OrderReset`, `Perform`, `RecordReset` | the tasks that change the policy on the host, and their results |
| `Prune` | `prune_port_traffic` |
| `RawBytes`, `HourBytes`, `DayBytes` | `query_history` in its three resolutions |

`samples_accounts` (first half): rollups never show more than has passed, and all of it when
nothing interrupts the policy (`CountedOnce`); the three views of the history
agree as far as rows are kept, and the quota alert with the stored samples
(`ViewsAgree`).

Bounds. A tick is one heartbeat. Four ticks are two hours of two and the start of
a third, in two days of four, so that both kinds of bucket change and the first
hour and its samples can be pruned; of two events any can follow any other, such as a late request after a
reset, or a clock set back after a pause. RX and TX are treated alike and are one
number.

### Proofs

`PortTraffic_proofs.tla` also proves `SamplesTypeCorrect`, `BytesCountedOnce`
(`CountedOnce`) and `ResolutionsAgree` (`ViewsAgree`), for any buckets,
retentions, thresholds and any number of events, from `SamplesAssumption`: a day
is a whole number of hours, and the recovery level is not above the threshold.

Both properties compare sums. `Total` is the number of the pairs of a key and a
number up to its value, so that a sum needs no fold and what is to be known of it
follows from the theorems on cardinality: `TotalGrows` (one value grows),
`TotalLess` (a part), `TotalNone` (all are 0).

`SamplesInv` adds to the properties:

* `Ordered` and `OnTime`: stamps are unique, the last sample is the one stored
  last, and what a late request brings was collected by then, unless the clock
  was set back since.
* `Counted`: the lifetime in the helper has not grown by more than what passed
  since the last sample, and the same from a late request that may still be
  stored to the helper. Only both together say that neither handling the late
  request first nor dropping it counts anything twice.
* `Whole`: while nothing interrupts the policy, what is shown is the distance
  from the first sample to the last.
* `Rooted`, `Hours`, `Days`: an hour in which something was counted has a sample
  after its beginning or lies before the retention of samples. Without this an
  hour to come could have bytes already. It holds because the clock of the agent
  is set back by less than that retention.
* `Quota`: what the last two samples made of the alert.

## Repairs

`Repairs.tla` models the incidents and repairs of one host. A heartbeat brings
results and one observation: it concludes attempts, opens or finds the incident
of the fault observed, resolves all others, and plans the next step for that
incident, all in one transaction. An operator updates incidents meanwhile.

| model | code |
|---|---|
| `Faults`, `Level2` | fault types in the order in which `_observe` looks for them; those whose runbook has risk level 2 |
| `incidents`, `attempts` | `Incident` rows (fault, status), `RepairAttempt` rows, by the order of creation |
| `verdict`, `outcome`, `performed`, `disturbed` | the tasks of the attempts, see `TaskOutcome`: the action, and its check after an actual repair |
| `Heartbeat`, `HandleLate` | `agent_heartbeat` with `record_agent_results` (`Concluded`) and `reconcile_staging_heartbeat` (`Opened`, `Reconciled`, `Planned`), of what the host shows now or of a request given up earlier |
| `Retry`, `Passed`, `Planned` | the decisions of `_maybe_dispatch` and `RepairOrchestrator.plan` |
| `warm`, `CoolDown` | an actual attempt within the runbook's cooldown |
| `BeginUpdate`, `CommitUpdate` | `update_incident`: the read and the write, a thread of its own and without a lock |
| `SwitchLevel2` | the label `guardian_level2_caddy` |
| `Break`, `Heal`, `Expire`, `Run`, `Disturb` | the host and the agent; a refused action counts as performed and failed |

| run | question |
|---|---|
| `repairs_restraint` | is nothing repaired before its dry run has passed, do conclusions agree with what the host did, does the work of an operator survive |

`WorkKept` excepts incidents that were revived: `update_incident` checks the
transition against the status it has read, so a heartbeat that resolves the
incident before the write is undone, and a second incident of the fault may
then exist beside it until the next heartbeat.

An attempt whose task expires has no result for ever, and as `Retry` and
`Passed` say it then blocks its incident; the model has this as the code does.

Bounds. Two faults are the fewest of which one hides the other. Three attempts
of an incident are a dry run, a repair and a retry (`max_attempts` 2: the shipped
runbooks have 1, the schema allows 3), or two dry runs and a repair of one of the
faults. One heartbeat handled late or one lost answer; one action of the
operator, which can be overtaken by any number of heartbeats.

Left out: plans that need an approval (of the shipped runbooks only the one of
level 2 could, and its own condition blocks it while the label is off), faults
without a runbook (they hide others, but plan nothing), and several hosts: an
incident belongs to one host.

### Proofs

`Repairs_proofs.tla` proves `TypeCorrect`, `NoRepairUntried`, `ConcludedByTasks`
and `OperatorsWorkKept` for any faults, incidents, attempts and disturbances.
`IInv` adds: the tasks of the channel are exactly those of the attempts, and an
attempt that is called successful has only succeeded ones, of tasks that were
performed or disturbed (`Rows`); of the incidents no operator has revived only
the newest is unresolved (`Newest`), which is what makes the incident that a
heartbeat finds that of the dry run; an update under way is of an incident that
exists (`Begun`). The heartbeat is proved in the order of the code: what results
conclude, what is opened and resolved, what is planned.

## Identities and the life of an agent

`AgentIdentity.tla` has the identities of an agent on the controller, what an
owner does to them and the renewal by the running agent. `AgentLifecycle.tla`
adds the installer with its one-time token and the maintenance script with its
session: one host from its first enrolment to its decommission.

| model | code |
|---|---|
| `agent`, `identity`, `pending` | the `Agent` row with `identity_version`; `AgentIdentity` rows; heartbeats of the pending one |
| `enrolled`, `Linked` | the directory `generation-1` of the installer; where `mv` puts its link |
| `missed`, `stranded` | history: identities the host was given and has not kept, sessions whose script has gone without a word |
| `crl`, `PublishCrl` | serials recorded as published, `publish-agent-crl.sh` |
| `local`, `running`, `daemon` | the link `current`, the service, a renewal in progress (`identity.go`, `main.go`) |
| `Prepare`, `Activate`, `RetirePending`, `RevokeRetiring`, `RevokeAgent` | the handlers of `api.py` 5297-5600 |
| `Renew`, `Switch` | the renewal: the commit on the controller, `atomicActivateIdentity` |
| `token`, `IssueToken`, `Bootstrap`, `Completed` | `enrollment.py` |
| `installer` | `install-agent.sh` with its roll back |
| `session`, `IssueSession`, `Accepts`, `Finalize` | `maintenance.py` and `finalize_agent_maintenance` |
| `maintainer`, `Script` | `maintain-agent.sh` with its roll back |
| `Reboot` | the host restarts: scripts are gone without a roll back |

Expiry needs no action: a token, a credential or a session that has expired is
one that is not used any more, or a report that fails.

| run | question |
|---|---|
| `lifecycle_replace` | is there one active identity (`OneActive`); is it the one the host presents or is about to, or else one the host has missed in a known way, and has every session in progress its script (`InStep`) |
| `lifecycle_rotation` | are the steps a rotation reports those the controller accepts: they are not (see Findings) |

Bounds. Two sessions are any maintenance followed by a reinstallation, the case
in which something of the first can be left to the second. Two tokens let an
agent be enrolled, revoked and enrolled again. Three versions are an enrolment,
a replacement, and one change an owner or a renewal makes in between.

### Proofs

`Host_proofs.tla` proves `LifecycleTypeCorrect`, `OneIdentity` (`OneActive`) and
`HostInStep` (`InStep`) for any number of versions, tokens and sessions.

`LifecycleInv` carries `OneActive`: versions above that of the agent are unused
(`FreshRows`), whoever holds one got it from the controller (`Holders`), at most
one row is active and at most one pending (`OneEach`), and one script works on
the host at a time, at a step of a session it knows (`Scripts`). An activation
claims the version first, so that it finds the row it retires.

`InStep` says where the active identity is, in every state: `Active` is a subset of
what the host presents or will present when a renewal that has been answered is
put in place (`Leads`), what its installer has in its hands (`InHand`), and
`missed`. Nothing else is excused, and an identity is `missed` only by a step that
is known to lose it: an answer that does not arrive, a daemon or a script that
ends before the link is replaced, a link that `mv` does not replace, a roll back
over a newer identity, and an activation while the host does not present that
identity or is about to present another (`Crossed`). A session in progress has
its script, waits for the operator, or is among the `stranded`, whose answer to
the start or whose verdict was lost, or whose script a reboot took away.

`InPlace` is the inductive invariant: `Reached`, the first half of `InStep`; an
installer has an identity in its hands until it has changed the host (`Placing`);
with the service stopped the link is where the maintenance script found it, and a
session under way has its script (`Maintaining`); and from the stop of the service
to the rotation the service stays stopped, so that no renewal comes in between
(`Quiet`).

## Alerts and messages

`AlertRules.tla` is `observe_alert` as a function of an alert. `Alerting.tla`
follows one alert, raised by a check the controller performs, by one the agent
performs, or by missing heartbeats, from observations to messages.

| model | code |
|---|---|
| `alert`, `quiet`, `deliveries` | `AlertInstance`, silences and maintenance windows, `NotificationDelivery` rows |
| `loop`, `StartProbe` ... `Commit`, `CycleFails` | `monitor_service_checks`: one transaction with an await for the probe and one for every message; a failure takes back what was written, not what was sent |
| `RecordResult` | `record_agent_check_results` |
| `host`, `Tick`, `Round`, `Outage` | `mark_stale_agents_offline` and its loop |
| `request`, `ReadAlert`, `WriteAlert` | acknowledging, silencing and closing: a read and a write of a thread |
| `RetryDelivery`, `BecomesDue` | the retry an operator asks for; the delay and the rate limit |

Probes find anything at any time. The counters of an alert stop at their
thresholds, which is all they are compared with. Messages about a host are sent
by the same loop as those about a check and are followed for checks only.

`alerting_told`: an operator knows of every failure that has reached its
threshold and is not silenced; messages arrive once and in order unless an
attempt failed, was put off or was taken back; a host that goes offline has failed
as often as its alert needs, or as the rounds between stale and offline allow
(`OfflineCounted`); every message is delivered or given up.

Bounds. Ticks are 15 s, the host is stale after 45 s and offline after 90 s, a round
takes 30 s and three failures make an alert fire, as in the code and its default
settings; then the alert of a host that is offline has at least two failures, and
for some phases of the loop no more (see "What the code does"). Two messages are the fewest that have an order; one
failing cycle is the fewest that takes something back.

Fairness. The loop catches what its cycles raise and goes on; time passes, so a
delay ends, if only between two cycles (strong fairness of `BecomesDue`).
Nothing is assumed of probes, operators or receivers. `MaxFaults` bounds the
cycles that fail: a cycle that always fails delivers nothing.

### Proofs

`Operations_proofs.tla` also proves `AlertingTypeCorrect`, `FailuresTold` (`Told`),
`MessagesInOrder` (`InOrderOnce`) and `OfflineIsCounted` (`OfflineCounted`), for any
thresholds and any number of messages, attempts and failing cycles.

A cycle that fails takes back what it wrote, so `AlertingInv` says the same of the
alert as it is and as the cycle has read it (`Tells`): who acknowledged, or has a
failure that reached its threshold, was told or raced. For the order of messages it
says of deliveries nothing has disturbed that they are delivered, or pending and
due (`Undamaged`), that what is still to be sent is newer than what was received
(`Arrived`), and that during a cycle it is in the batch or newer than all of that
(`Ahead`); the next one sent is the least of the batch. `Cycle` and `Tries` bound
what a cycle holds.

`OfflineIsCounted` needs time: `Rounds` says that until the host is offline its last
heartbeat was, at the last round, no older than `StaleAfter` and one late round
for every failure counted so far. So the alert of a host that is older than
`OfflineAfter` has either reached its threshold or as many failures as late rounds
fit in between.

## The controller's host

`LifecycleJournal.tla` is the journal as a data type: its phases, and which may
follow which. `ControllerHost.tla` has the scripts that install, upgrade and
roll back the controller and recover what did not end. A script is the sequence
of steps it still has to take. Each may be refused, fail, be killed or be cut
off by a reboot; what is on disk stays, the journal included.

| model | code |
|---|---|
| `link`, `units`, `db`, `committed` | `/opt/vps-guardian/current`, the unit files, the revision of the database, `COMMITTED` markers |
| `running`, `active`, `startup` | the controller process, the timers of backups, what systemd starts |
| `journal`, `PHASE_TRANSITIONS` | `lifecycle-journal.py` |
| `InstallPlan`, `UpgradePlan`, `RollbackPlan` | `install-`, `upgrade-`, `rollback-controller.sh` |
| `Entry`, `AbortPlan`, `RestorePlan` | `recover-controller-lifecycle.sh` |
| `GiveUp` | the EXIT traps: a script recovers, a recovery stops the runtime and keeps the journal |
| `Resume`, `Stray` | the script is called again; the script of another operation finds the journal |
| `RestoreDatabase` | the operator follows "database recovery is required" |

`resets_releases` (second half): when no transaction is open the host is one release, link,
units, schema and process (`Whole`); a controller meets only its own schema
(`Schema`, but for a reboot, see below); a transaction ends as its last phase
says, timers included (`Outcome`); every transaction ends (`Recovers`).

Bounds. Three releases are an installation, an upgrade and a roll back or a
further upgrade. Two schemas let an upgrade migrate or not. Three breakdowns are a
failure, one of its recovery and a reboot in between.

Fairness. A script goes on; an operator repeats the call until the journal is
gone, and restores the database when the recovery keeps asking for it.

Left out: releases from before the `COMMITTED` marker and the freshness units,
the hardening of legacy units, `daemon-reload`, the race between the last backup
and stopping its timer, the order of `fsync`s, operations of a staging host.

### Proofs

`ControllerHost_proofs.tla` proves `TypeCorrect`, `OneRelease` (`Whole`),
`RunsOnItsSchema` (`Schema`) and `EndsAsRecorded` (`Outcome`) for any number of
releases, schemas, failures, kills and reboots.

What a host looks like within a transaction depends on how far the script is.
The invariant does not go through the positions of the five plans: it says of
the steps a script has left (`Left`) what must have been done already.

* `Ordered`, a property of a sequence of steps: what may come after what. The
  process is not started before the link is set and the schema is right, the
  database is not migrated before the process is stopped, the last phase is
  recorded when only the journal is left to clear. The lemmas
  `InstallOrdered` ... `RestoreOrdered` show it of each plan, and
  `RecoveryOrdered` of the plan of a recovery, whichever phase it finds.
* `OnPlan`: the script that holds the lock has an ordered rest before it
  (`TailOrdered` keeps this), and the transaction is over exactly when no last
  phase is left to record.
* `Between`: the link and each unit file are of the previous release or of the
  candidate, and the references to go back to are of the previous one.
* `Effects`: unit files, the link, the database and the process are those of the
  `Target` once the steps for them are not left.
* `Promises`: the same of the timers, of what systemd starts, and of the marker.

`StepTaken` and `StepWithin` carry what all steps have in common; one lemma per
step adds what it changes. `RecoverySafe` and `ReleasedSafe` serve everything
that ends a script: a recovery has all steps left, so that it may rely on
nothing the script has done, and without a script only `Between`, `Whole` and
`Schema` have to hold. `AtTheEnd` combines `Effects` and `Promises` when the last
phase is recorded, which gives `Whole` as well as `Outcome`.

`Recovers`, a liveness property, is only model-checked.

## Recovery points

`RecoveryPoints.tla` models the backups of the controller in one repository: the
scheduled job, attestations of owners, retention and restores.

| model | code |
|---|---|
| `repository`, `uploaded` | the snapshots restic has, numbered as uploaded |
| `job`, `Stage` ... `MarkRecovery`, `Break` | `guardian-backup controller` under the lock of `run-systemd-backup.sh`, up to the freshness markers |
| `points` | `RecoveryPoint` rows: version and digest |
| `Attest`, `Verify`, `VerifyUnheard` | `verify_recovery_point`, `promote_recovery_point` |
| `approved`, `forgetting`, `PlanRetention`, `ApplyRetention`, `Forget` | `retention_plan`, `apply_retention`, `restic forget` |
| `restores`, `target`, `PlanRestore` ... `Write`, `Cut`, `Clear` | `RecoveryPlanner.plan` and `.restore` into one directory: planned again, found empty, written file by file |
| `HashManifest`, `ReadManifest`, `Finish` | `load_and_verify_manifest`: the manifest is hashed, read again, and the artifacts are compared with it |

`recovery_attested`: of all attestations of a point one is answered with success,
for good (`AttestedOnce`); a point or marker called verified names a snapshot
that was restored (`VerifiedRestored`); snapshots leave the repository, and come
back, only as the approved plan says (`ForgottenAsApproved`,
`RestoredAsApproved`). Two restores that have both found the directory empty write
into it at the same time, also between two steps of a verification: `crossed` has the
restores during whose verification one of another snapshot has written, and only
these may end well with mixed files.

The controller cannot tell whether an attested restore has taken place; the model
lets attest only who has seen one succeed. Retention is "keep the newest", in
place of restic's policy. The module has no fairness: nothing here has to happen.

Bounds. Two snapshots are a new one beside one that was approved, forgotten or
restored; two attestations compete; two restores write into one directory. The
attestations and the restores are symmetric.

### Proofs

`Operations_proofs.tla` proves `TypeCorrect`, `OneAttestation`,
`VerifiedIsRestored`, `OnlyForgottenAsApproved` and `DoneAsApproved` for any
number of snapshots, attestations and restores and any number of snapshots to
keep. The job, owners, retention and restores share no lock, so each property
rests on what the others leave alone. `IInv` says how far the job is with the
newest snapshot, which nobody else removes (`Sequence`), that what the job or an
attestation calls verified was restored, and that a row has version 1 once it is
verified (`Honest`), that what is executed is what was planned (`Plans`), and that
what a restore has verified so far is still in the directory, unless it is
`crossed` (`Kept`). The last two theorems are action properties that follow from it.

## Users and sessions

`Accounts.tla` models the users of the controller, their sessions and second
factors, by requests that overlap.

| model | code |
|---|---|
| `user`, `session`, `codes` | rows of `users` and `user_sessions`; batches of recovery codes that are left |
| `request` | threads between the authentication of a request and its commit, each with the row it has read |
| `Authenticate`, `Valid`, `forced_setup_required` | `get_current_user`, `require_role`, `_require_step_up` |
| `Merged`, `Store` | what SQLAlchemy writes: the columns the request has changed of its copy |
| `Login`, `PassFactor`, `Accept` | `login`, `browser_login`, `_authenticate_login`, `verify_totp`, `totp_counter_for_code` |
| `ChangePassword`, `SetupTotp` ... `RevokeOthers` | what users do about themselves |
| `RevokeSession` ... `DeleteUser` | what administrators and owners do, `_lock_active_owners` |

The handlers are threads at READ COMMITTED. Only the login locks the row it
decides on, `change_password` reads it again, and those who take the role of an
owner lock the active owners; all others decide on what they have read when they
were authenticated. What a handler does from its first write to the commit is
one step, since that write locks the row for the others.

`samples_accounts` (second half): however owners demote, disable and delete each
other, one is left, unless the last one became an owner after the handler that
takes him away had read his row (`OwnerRemains`; `raced` tells of the last owner
who went whether the others had been counted); a session that is accepted was opened after the last
change of what its user may do (`SessionsCurrent`); a one-time code is accepted
once, recovery codes are those of one batch, and what the user confirmed is that
batch (`FactorsSound`, for requests about the factor of a user that do not overlap;
`overlapped` has the users of whom some did).

`accounts_owner`: is the last owner never removed, as documented? He is (see
Findings).

Bounds. Two users and two requests at a time, of every pair of kinds that write
the same columns or look at what the other one writes (`MCWorkloads`), are the
fewest that race; two changes of the version of a user are the fewest that
collide. Three secrets or batches are the initial one, one that is replaced and
one that replaces it. Two intervals of the one-time codes let a code be
too old, and be entered before its time.

### Proofs

`Accounts_proofs.tla` proves `TypeCorrect`, `SomeOwnerRemains`,
`NoSessionOutdated` and `SecondFactorSound` for any number of users, sessions and
requests at a time, and any workload. `ConstantsAssumption` says of the
constants that one of the roles is `owner` and that `Absent` and `Deleted` are no
rows.

* `IInv`: the session a request was authenticated by exists and is of the user it
  is about (`Held`); a session that is not over dates from after the last change
  of its user's authorization (`NoneOutdated`). That is more than
  `SessionsCurrent`, and it is by this that the theorem holds: two changes at the
  same time may write the same version, and only because each also ends the
  sessions is none of them accepted.
* `FInv` is about the factors of a user while no two requests about them overlap
  (`Sound`): codes used are of secrets issued, the recovery codes are of one batch
  (`OnlyIssued`); a secret not enabled yet has no code used, and those used of the
  enabled one are not above the counter or too old to be accepted (`Spent`).

## Findings

* `ReportsFit`, run `lifecycle_rotation` (`controller/guardian/maintenance.py:53`):
  `docs/en/AGENT_MAINTENANCE_AND_DECOMMISSION.md` describes one sequence for
  reinstallation and rotation, and `maintain-agent.sh:254` reports
  `service_stopped` in every mode. The controller does not accept that step of a
  session of kind `rotate_identity` and answers 409, so that the script rolls
  back: no rotation of this kind can complete.
* `RollbackKeeps`, run `helper_rollback` (`agent/nethelper/main.go:378`):
  `docs/en/PORT_TRAFFIC_SECURITY_MODEL.md:44-45` says that "any TC or state-commit
  failure restores the prior owned nftables/TC state with absorbed counters". After a
  failing tc the former rules are built anew with their counters at zero, and
  `executeRequest` returns without writing the baseline that had absorbed the old
  ones: these bytes are lost.
* `LastOwnerStays`, run `accounts_owner` (`controller/guardian/api.py:1552`):
  `docs/en/SECURITY_MODEL.md:16-17` says that "the last active Owner cannot be
  disabled or demoted", and `docs/en/IDENTITY_RECOVERY.md:36-38` and `:51` that such
  mutations lock the rows of active owners. `update_user` and `delete_user` decide by
  the row they have read before whether they take an owner away, and only then lock
  and count. If the user was promoted in between, and has demoted the owner who
  promoted him, nobody is left.

## What the code does

Behaviour that the models share with the code and that a reader might not
expect. Where a property holds with an exception, this is the exception.

The task channel and the helper:

* A task whose action failed, and whose result never reached the queue file, is
  delivered again and answered "already completed" with success
  (`agent/actions.go:101`). `VerdictIsFirstAnswer` excepts it as `disturbed`.
* A snapshot that finds the rules unsound absorbs the surviving counter and, if
  the restore is refused, counts it again (`agent/nethelper/main.go:143`). As
  long as another program holds the root qdisc every heartbeat does so.
* A dry run writes absorbed counters without building the rules, and the next
  snapshot counts the kernel counter again (`main.go:367`).
* Any error of `nft list table` reads as "no table" (`network.go:40`). Before a task it
  means that no counter is absorbed and the bytes since the last snapshot are lost
  with the rebuild (`main.go:344`); while rules are built it means that they are not
  flushed but added to those there are, which then count every byte twice
  (`network.go:379`), and `verifyNetwork`, which looks for rules that are missing,
  does not see it. A failing restore, a dry run and this are the exceptions of
  `CountsOnce`, remembered by `doubled`.
* A failing tc loses what was absorbed (see Findings); so does a crash between the
  building of rules and the write of the state (`lost` in `CountsAll`).

Resets and repairs:

* A due boundary is queued again once its task is delivered, because the guard
  looks for "pending" and "running" and not for "delivered"
  (`port_traffic.py:891`). The monitor loop runs several times before the next
  heartbeat brings the result, so that a scheduled reset may be performed twice.
* A scheduled reset that expires before the agent fetches it stays pending and
  keeps others from being queued: the exception of `ScheduleMoves`.
* `_observe` reports one fault, and the incidents of all others are resolved with
  "healthy observation confirmed" while their faults persist
  (`reconciliation.py:765`). They come back as new incidents, without the
  attempts and the cooldown of the old ones.
* An attempt whose task expires is never concluded and blocks its incident
  (`reconciliation.py:478`).

Policies (the exceptions of `HostAgrees` and `ApprovalAgrees`):

* A request writes down the whole policy. If the policy is edited before the
  request is approved, what is performed is out of date (`Outdated`); an approved
  change of a policy that has been disabled installs its rules again.
* The result of an older task sets the status to "active" although a newer edit
  is pending, and that edit may expire (`superseded`).
* Two edits that overlap write their columns over each other (`raced`).
* The thread that lists approvals may write "expired" over a decision taken in
  the meantime, so that an approval is expired and executed (`overtaken`).
* An approval whose task expires stays "approved".
* Renaming an enforcing policy sends an apply without approval, which the helper
  refuses: the policy is then in "error" while its rules go on.
* A change without a rate keeps the rate the policy has: shaping cannot be
  taken away by a change.

Samples (the exceptions of `CountedOnce` in `noted`):

* Removing a policy and applying it again starts its lifetime from zero in the
  same generation: what passes up to the first sample is not shown, or looks like
  a discontinuity, or like traffic that goes on.
* A pause longer than the retention of raw samples is followed by a new baseline
  without a mark; traffic in between is not shown.
* A request collected before the clock of the agent was set back, and handled
  after samples with the new time were refused as old, is counted as usual and
  may count bytes twice.
* While the clock is behind the newest sample, samples are dropped silently and
  the gap alert sees no gap.
* The alerts of a disabled policy are not observed any more.

Identities:

* The first heartbeat of the agent completes the enrolment, and a report of the
  installer that comes later is refused, upon which the installer rolls back.
* A heartbeat completes the latest token that was redeemed, also if it belongs to
  an earlier enrolment.
* An installer that fails after its bootstrap leaves an agent with an active
  identity, which an owner has to revoke.
* A report of progress is not idempotent: one that is sent again is refused.
* Decommissioning and revoking an agent revoke one identity; others keep their
  state, and only the revocation of the agent keeps them out.
* Two heartbeats with a pending identity let an owner activate it at any later time,
  whatever the host presents by then (`api.py:5322`). If a renewal, a roll back or an
  installer has changed the link in between, the host goes on with an identity that
  is retiring (`Crossed`).
* `install-agent.sh:495` moves its link with `mv -f` and without `-T`. Where `current`
  leads to the directory of a renewal the new link ends up inside that directory: an
  agent that is revoked and enrolled again goes on with its old generation, and the
  controller knows another one (`Linked`). `docs/en/PHASE4B.md:7` promises that a
  revoked agent may re-enroll; `InStep` has the identity among the `missed`.
* If the answer to the last report of a repair is lost, the script rolls back what the
  controller has recorded as completed. If that to `confirmation_pending` is lost, its
  verdict makes the session "failed", although the new identity stays in use or the
  agent has been removed.

Alerts:

* An acknowledgement is written over whatever the alert is by then. If it has
  failed again in between, nobody is told (`raced`).
* An alert that was only pending is announced as resolved, a recovery from a
  failure nobody was told of.
* A host that is offline is skipped by further rounds (`liveness.py:86`). With the
  default settings (three failures, stale after 45 s, offline after 90 s, a round
  every 30 s) rounds that find the age at 61 s and 91 s make two failures and no
  third one: the alert of a host that stays away then never fires. No document
  says otherwise; `OfflineCounted` states how many failures there are.

The controller's host:

* The script of another operation that finds a journal, even a finished one,
  stops a healthy controller.
* The `COMMITTED` marker is written before the phase `committed`
  (`upgrade-controller.sh:826` and `:832`): a candidate that is rolled back
  in between keeps its marker and can be the target of a later roll back.
* A reboot within a transaction starts the previous release on a schema that may
  have been migrated: the exception of `Schema`.
* A rollback or a recovery never moves the schema back; it asks the operator.

Users and sessions:

* Whether a request takes the role of an owner is decided by the row it has read. If
  the user became an owner after that, the last owner may be removed (see Findings):
  the exception `raced` of `OwnerRemains`.
* Two changes of one user that overlap write the same session version
  (`api.py:1583`). A session opened between them has that version, and ends only
  because `revoke_sessions` ends it by name.
* A change of the password that was authenticated before an administrator revoked
  all sessions of the user keeps its session, or opens a new one.
* Requests about the second factor of one user that overlap may accept a code
  twice, leave two batches of recovery codes, or confirm the older one
  (`overlapped`).
* `last_totp_counter` is computed anew after the code was verified
  (`api.py:416`), and may be NULL if an interval ends in between; the code is too
  old by then.

Recovery points:

* A snapshot counts in the repository from its upload, even if the job breaks
  afterwards and no row exists. Retention counts it like any other: it may keep
  snapshots nobody has verified and forget the one the verified marker names,
  and the point stays "verified".
* There is a validator for SQLite only: backups of a PostgreSQL controller stay
  "pending" until an owner attests a restore.
* A restore that was cut off leaves files, and the next one is refused until the
  directory is emptied.
* The directory is found empty before anything is written, and nothing keeps another
  restore from writing into it later. A restore ends well with files of two snapshots
  if the other one writes while the files are verified: the exception `crossed` of
  `RestoredAsApproved`.

## Not modelled

* The other modules take requests from users who may make them. Of users and
  sessions, the login limiter, cookies and CSRF, and which paths a scope allows
  are left out: none of them changes with what others do.
* Certificates, signatures and trust material: a request is authentic or is not
  sent; an identity is its certificate.
* Pure I/O: metrics, probes, dumps, the parsing of configurations. The actions of
  tasks succeed or fail.
* Read models: dashboard, reports, diagnostics, operations views, the event
  stream, the web interface. They change no state. Audit rows are written in the
  transaction of the change they describe and read by nothing.
* `MonitorStateMachine`: only its tests use it.
* Sequential shell: `uninstall-agent.sh` makes no call to the controller;
  `atomic-directory-switch.py` serves the secrets of a compose deployment only.
* Several hosts, policies, checks or channels at once, where the code treats them
  independently. What does relate several policies, their overlap and the limit of
  64, is a check against a list within one step.
* Requests issued twice at the same time (`Enrollment`, `Maintenance`): tokens and
  sessions are issued one after the other.

What is left out within a modelled component is named at that component in
`PROJECT.json`.

## Type invariants

Every module that describes the code has a type invariant, which is a theorem
(`TypeCorrect`, `LifecycleTypeCorrect`, `AlertingTypeCorrect`,
`SamplesTypeCorrect`) and a part of its inductive invariant.
