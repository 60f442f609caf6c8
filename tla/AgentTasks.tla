----------------------------- MODULE AgentTasks -----------------------------
(***************************************************************************)
(* The task channel between the controller and one agent.                  *)
(*                                                                         *)
(* The agent polls: every heartbeat carries the oldest records of its disk *)
(* queue, the controller records the results among them, selects the open  *)
(* tasks and returns them in the reply; the agent acknowledges the records *)
(* it sent, runs the tasks one after the other and appends one result per  *)
(* task to the queue.  Requests and replies may be lost, a request that    *)
(* the agent gave up on may still be handled later, the agent may stop at  *)
(* any point, its writes may fail (the code ignores the error), and the    *)
(* queue file has a size limit that drops the oldest records.              *)
(*                                                                         *)
(*   controller   guardian/api.py agent_heartbeat, guardian/tasking.py,    *)
(*                guardian/reconciliation.py record_agent_results          *)
(*   agent        agent/main.go run, agent/queue.go, agent/actions.go      *)
(*                                                                         *)
(* The handler of a heartbeat also stores metrics, checks, traffic and     *)
(* incidents: those tables are not read by the task channel and belong to  *)
(* other modules.  Its transaction has no suspension point between reading *)
(* the agent row FOR UPDATE and the commit, so it is one step here.        *)
(***************************************************************************)
EXTENDS Naturals, Sequences, FiniteSets

CONSTANTS
  Tasks,          \* the tasks the controller may create for the agent
  NoTask,         \* stands for the task of a "heartbeat_failed" record
  Keys,           \* action ":" target, what the agent's cooldown is per
  KeyOf,          \* the key of a task
  Cooled,         \* the tasks whose success starts a cooldown (not dry runs)
  PortTasks,      \* the port_traffic_* tasks, exempt from the cooldown
  MaxQueueBytes,  \* size limit of the queue file; a notice weighs 1
  ResultBytes,    \* what an action result weighs, in notices
  SnapshotLimit,  \* records per heartbeat (100 in the code)
  BatchLimit,     \* tasks per reply (10 in the code)
  MaxFaults,      \* bound: failures of the network, the disk and the agent
  MaxLate         \* bound: abandoned requests not yet handled

ASSUME ConstantsAssumption ==
  /\ NoTask \notin Tasks
  /\ IsFiniteSet(Tasks)
  /\ KeyOf \in [Tasks -> Keys]
  /\ Cooled \subseteq Tasks
  /\ PortTasks \subseteq Tasks
  /\ MaxQueueBytes \in Nat
  /\ ResultBytes \in Nat
  /\ SnapshotLimit \in Nat
  /\ BatchLimit \in Nat
  /\ MaxFaults \in Nat
  /\ MaxLate \in Nat

VARIABLES
  status,     \* AgentTask.status; "none" before the row exists
  createdAt,  \* AgentTask.created_at, as the rank of the creation
  expired,    \* tasks whose expires_at has passed on the controller's clock
  revoked,    \* Agent.revoked_at is set
  late,       \* events of abandoned requests the controller may yet handle
  reply,      \* the response of the request the agent is waiting for
  queue,      \* the agent's queue file
  saved,      \* Completed in the agent's state file
  savedHot,   \* keys whose LastRun in the state file is within ten minutes
  completed,  \* Completed in memory
  hot,        \* keys whose LastRun in memory is within ten minutes
  stale,      \* tasks whose expiry has passed on the agent's clock
  pc,         \* where the agent's loop is
  snap,       \* the events of the request the agent is waiting for
  batch,      \* the tasks of the reply that are still to be run
  result,     \* the result of the task in hand
  answer,     \* history: what the agent first answered for the task
  runs,       \* history: how often the action of the task was performed
  disturbed,  \* history: tasks one of whose answers or completions was lost
  faults      \* failures so far

controllerVars == <<status, createdAt, expired, revoked>>
networkVars    == <<late, reply>>
diskVars       == <<queue, saved, savedHot>>
memoryVars     == <<completed, hot>>
loopVars       == <<pc, snap, batch, result>>
historyVars    == <<answer, runs, disturbed>>
vars == <<controllerVars, networkVars, diskVars, memoryVars, loopVars,
          stale, historyVars, faults>>

Terminal == {"succeeded", "failed"}
Open     == {"pending", "delivered"}
Statuses == Terminal \cup Open \cup {"none", "cancelled"}

\* What the agent queues: the result of a task, or a "heartbeat_failed" notice.
Record   == [task : Tasks \cup {NoTask}, success : BOOLEAN]
Notice   == [task |-> NoTask, success |-> FALSE]
NoReply  == [kind |-> "none", tasks |-> {}]
Replies  == [kind : {"none", "accepted", "early", "refused"}, tasks : SUBSET Tasks]

TypeOK ==
  /\ status \in [Tasks -> Statuses]
  /\ createdAt \in [Tasks -> Nat]
  /\ expired \subseteq Tasks
  /\ revoked \in BOOLEAN
  /\ late \subseteq Seq(Record)
  /\ reply \in Replies
  /\ queue \in Seq(Record)
  /\ saved \subseteq Tasks
  /\ savedHot \subseteq Keys
  /\ completed \subseteq Tasks
  /\ hot \subseteq Keys
  /\ stale \subseteq Tasks
  /\ pc \in {"tasks", "waiting", "saving", "reporting"}
  /\ snap \in Seq(Record)
  /\ batch \subseteq Tasks
  /\ result \in Record
  /\ result.task = NoTask <=> pc \in {"tasks", "waiting"}
  /\ answer \in [Tasks -> {"none", "ok", "failed"}]
  /\ runs \in [Tasks -> Nat]
  /\ disturbed \subseteq Tasks
  /\ faults \in Nat

Init ==
  /\ status = [t \in Tasks |-> "none"]
  /\ createdAt = [t \in Tasks |-> 0]
  /\ expired = {}
  /\ revoked = FALSE
  /\ late = {}
  /\ reply = NoReply
  /\ queue = <<>>
  /\ saved = {}
  /\ savedHot = {}
  /\ completed = {}
  /\ hot = {}
  /\ stale = {}
  /\ pc = "tasks"
  /\ snap = <<>>
  /\ batch = {}
  /\ result = Notice
  /\ answer = [t \in Tasks |-> "none"]
  /\ runs = [t \in Tasks |-> 0]
  /\ disturbed = {}
  /\ faults = 0

-----------------------------------------------------------------------------
(* Records, the queue and the batch. *)

Reported(events) == {events[i].task : i \in DOMAIN events} \ {NoTask}

\* The first record of task t among the events reports success.
FirstSucceeded(events, t) ==
  \E i \in DOMAIN events :
    /\ events[i].task = t
    /\ events[i].success
    /\ \A k \in 1 .. i-1 : events[k].task # t

\* The size of the file once the oldest k records are dropped.
Bytes(records, k) ==
  LET kept == k+1 .. Len(records) IN
    Cardinality({i \in kept : records[i].task = NoTask})
      + ResultBytes * Cardinality({i \in kept : records[i].task # NoTask})

Fits(records, k) ==
  \/ Bytes(records, k) <= MaxQueueBytes
  \/ k = Len(records) - 1

\* How many of the oldest records a write drops: as few as make the file fit.
Trims(records) ==
  {k \in 0 .. Len(records) - 1 :
     /\ Fits(records, k)
     /\ \A j \in 0 .. k-1 : ~Fits(records, j)}

DropFirst(records, k) == SubSeq(records, k+1, Len(records))

\* Enqueue: append and trim.  A result dropped here is gone for good.
Enqueue(record) ==
  LET records == Append(queue, record) IN
    \E k \in Trims(records) :
      /\ queue' = DropFirst(records, k)
      /\ disturbed' = disturbed \cup Reported(SubSeq(records, 1, k))

\* Variant: the newest records are sent.
SnapshotNewest(limit) ==
  SubSeq(queue, IF Len(queue) > limit THEN Len(queue) - limit + 1 ELSE 1, Len(queue))

Snapshot(limit) == SubSeq(queue, 1, IF Len(queue) > limit THEN limit ELSE Len(queue))

Ack(count) == queue' = DropFirst(queue, IF count > Len(queue) THEN Len(queue) ELSE count)

\* Among the tasks D, the BatchLimit oldest.
Oldest(D) ==
  {t \in D : Cardinality({u \in D : createdAt[u] < createdAt[t]}) < BatchLimit}

\* Variant: in any order.
AnyInBatch(t) == t \in batch

\* The agent takes the tasks of a reply in the order of the reply.
NextInBatch(t) ==
  /\ t \in batch
  /\ \A u \in batch : createdAt[t] <= createdAt[u]

-----------------------------------------------------------------------------
(* The controller. *)

\* create_agent_task: the row is inserted "pending".
CreateTask(t) ==
  /\ status[t] = "none"
  /\ status' = [status EXCEPT ![t] = "pending"]
  /\ createdAt' = [createdAt EXCEPT ![t] = Cardinality({u \in Tasks : status[u] # "none"})]
  /\ UNCHANGED <<expired, revoked, networkVars, diskVars, memoryVars, loopVars,
                 stale, historyVars, faults>>

\* expires_at passes, on the clock of the controller or on that of the agent.
Expire(t) ==
  /\ status[t] # "none"
  /\ \/ expired' = expired \cup {t} /\ UNCHANGED stale
     \/ stale' = stale \cup {t} /\ UNCHANGED expired
  /\ UNCHANGED <<status, createdAt, revoked, networkVars, diskVars, memoryVars,
                 loopVars, historyVars, faults>>

\* Variant: the tasks the agent may be working on are withdrawn as well.
DecommissionAll ==
  /\ ~revoked
  /\ revoked' = TRUE
  /\ status' = [t \in Tasks |-> IF status[t] \in Open THEN "cancelled" ELSE status[t]]
  /\ UNCHANGED <<createdAt, expired, networkVars, diskVars, memoryVars, loopVars,
                 stale, historyVars, faults>>

\* finalize_agent_maintenance of a decommission.
Decommission ==
  /\ ~revoked
  /\ revoked' = TRUE
  /\ status' = [t \in Tasks |-> IF status[t] = "pending" THEN "cancelled" ELSE status[t]]
  /\ UNCHANGED <<createdAt, expired, networkVars, diskVars, memoryVars, loopVars,
                 stale, historyVars, faults>>

\* Variant: a later record revises the verdict.
RecordedAlways(events) ==
  [t \in Tasks |->
     IF t \in Reported(events)
       THEN IF FirstSucceeded(events, t) THEN "succeeded" ELSE "failed"
       ELSE status[t]]

\* record_agent_results: a task takes the verdict of its first record.
Recorded(events) ==
  [t \in Tasks |->
     IF t \in Reported(events) /\ status[t] \notin Terminal
       THEN IF FirstSucceeded(events, t) THEN "succeeded" ELSE "failed"
       ELSE status[t]]

\* Variant: a task is handed out once.
DeliverableOnce(st) == {t \in Tasks : st[t] = "pending" /\ t \notin expired}

Deliverable(st) == {t \in Tasks : st[t] \in Open /\ t \notin expired}

Delivered(st) ==
  [t \in Tasks |-> IF t \in Oldest(Deliverable(st)) THEN "delivered" ELSE st[t]]

\* agent_heartbeat once the identity is accepted: record, then deliver.
Accept(events) == status' = Delivered(Recorded(events))

\* The request of the agent arrives in time.
HandleHeartbeat ==
  /\ pc = "waiting"
  /\ reply.kind = "none"
  /\ ~revoked
  /\ Accept(snap)
  /\ reply' = [kind |-> "accepted", tasks |-> Oldest(Deliverable(Recorded(snap)))]
  /\ UNCHANGED <<createdAt, expired, revoked, late, diskVars, memoryVars, loopVars,
                 stale, historyVars, faults>>

\* lock_active_agent refuses an agent that is revoked.
RefuseHeartbeat ==
  /\ pc = "waiting"
  /\ reply.kind = "none"
  /\ revoked
  /\ reply' = [kind |-> "refused", tasks |-> {}]
  /\ UNCHANGED <<controllerVars, late, diskVars, memoryVars, loopVars, stale,
                 historyVars, faults>>

\* 425: the identity the agent presents is still pending; nothing is recorded.
DeferHeartbeat ==
  /\ pc = "waiting"
  /\ reply.kind = "none"
  /\ ~revoked
  /\ faults < MaxFaults
  /\ faults' = faults + 1
  /\ reply' = [kind |-> "early", tasks |-> {}]
  /\ UNCHANGED <<controllerVars, late, diskVars, memoryVars, loopVars, stale, historyVars>>

\* A request the agent has given up on is handled after all; nobody reads the reply.
HandleLate(events) ==
  /\ events \in late
  /\ late' = late \ {events}
  /\ IF revoked THEN UNCHANGED status ELSE Accept(events)
  /\ UNCHANGED <<createdAt, expired, revoked, reply, diskVars, memoryVars, loopVars,
                 stale, historyVars, faults>>

-----------------------------------------------------------------------------
(* The agent's loop. *)

\* collectSnapshot and the request of Heartbeat.
SendHeartbeat ==
  /\ pc = "tasks"
  /\ batch = {}
  /\ pc' = "waiting"
  /\ snap' = Snapshot(SnapshotLimit)
  /\ reply' = NoReply
  /\ UNCHANGED <<controllerVars, late, diskVars, memoryVars, batch, result, stale,
                 historyVars, faults>>

\* Heartbeat returned an error: a notice is queued (the error of that is ignored).
QueueNotice ==
  /\ pc' = "tasks"
  /\ snap' = <<>>
  /\ reply' = NoReply
  /\ Enqueue(Notice)
  /\ UNCHANGED <<saved, savedHot, memoryVars, batch, result, stale, answer, runs>>

ReceiveRefusal ==
  /\ pc = "waiting"
  /\ reply.kind = "refused"
  /\ QueueNotice
  /\ UNCHANGED <<controllerVars, late, faults>>

\* A connection error or a timeout: the request is lost, is still on its way,
\* or has been handled and the reply is lost.
LoseHeartbeat ==
  /\ pc = "waiting"
  /\ faults < MaxFaults
  /\ faults' = faults + 1
  /\ \/ UNCHANGED late
     \/ /\ reply.kind = "none"
        /\ Cardinality(late) < MaxLate
        /\ late' = late \cup {snap}
  /\ QueueNotice
  /\ UNCHANGED controllerVars

\* The reply is accepted: acknowledge the events, take the tasks.  The error of
\* Ack is ignored, which leaves the events in the queue.
ReceiveAccepted ==
  /\ pc = "waiting"
  /\ reply.kind = "accepted"
  /\ pc' = "tasks"
  /\ batch' = reply.tasks
  /\ snap' = <<>>
  /\ reply' = NoReply
  /\ \/ Ack(Len(snap)) /\ UNCHANGED faults
     \/ /\ faults < MaxFaults
        /\ faults' = faults + 1
        /\ UNCHANGED queue
  /\ UNCHANGED <<controllerVars, late, saved, savedHot, memoryVars, result, stale, historyVars>>

\* The pending identity is not active yet: the events stay in the queue.
ReceiveEarly ==
  /\ pc = "waiting"
  /\ reply.kind = "early"
  /\ pc' = "tasks"
  /\ snap' = <<>>
  /\ reply' = NoReply
  /\ UNCHANGED <<controllerVars, late, diskVars, memoryVars, batch, result, stale,
                 historyVars, faults>>

\* verifyTask finds the task expired on the agent's clock: no result at all.
RejectTask(t) ==
  /\ pc = "tasks"
  /\ NextInBatch(t)
  /\ t \in stale
  /\ batch' = batch \ {t}
  /\ UNCHANGED <<controllerVars, networkVars, diskVars, memoryVars, pc, snap, result,
                 stale, historyVars, faults>>

\* The agent has an answer for task t in hand.
Answer(t, success) ==
  /\ result' = [task |-> t, success |-> success]
  /\ answer' = IF answer[t] = "none"
                 THEN [answer EXCEPT ![t] = IF success THEN "ok" ELSE "failed"]
                 ELSE answer

\* Execute reaches task t: the loop hands it over, the task is not expired.
Execute(t) ==
  /\ pc = "tasks"
  /\ NextInBatch(t)
  /\ t \notin stale

OnCooldown(t) == t \notin PortTasks /\ KeyOf[t] \in hot

\* "task was already completed", reported as a success.
AnswerCompleted(t) ==
  /\ Execute(t)
  /\ t \in completed
  /\ Answer(t, TRUE)
  /\ pc' = "reporting"
  /\ UNCHANGED <<controllerVars, networkVars, diskVars, memoryVars, snap, batch, stale,
                 runs, disturbed, faults>>

\* "action cooldown is active", reported as a failure and not remembered.
AnswerCooldown(t) ==
  /\ Execute(t)
  /\ t \notin completed
  /\ OnCooldown(t)
  /\ Answer(t, FALSE)
  /\ pc' = "reporting"
  /\ UNCHANGED <<controllerVars, networkVars, diskVars, memoryVars, snap, batch, stale,
                 runs, disturbed, faults>>

\* Variant: only a success completes the task.
RememberSuccess(t, success) ==
  /\ completed' = IF success THEN completed \cup {t} ELSE completed
  /\ hot' = IF success /\ t \in Cooled \ PortTasks THEN hot \cup {KeyOf[t]} ELSE hot

\* Completed and LastRun in memory, once the action of t has ended.
Remember(t, success) ==
  /\ completed' = completed \cup {t}
  /\ hot' = IF success /\ t \in Cooled \ PortTasks THEN hot \cup {KeyOf[t]} ELSE hot

\* The action runs, and Completed and LastRun are updated in memory.
Perform(t) ==
  /\ Execute(t)
  /\ t \notin completed
  /\ ~OnCooldown(t)
  /\ \E success \in BOOLEAN :
       /\ Answer(t, success)
       /\ Remember(t, success)
  /\ runs' = [runs EXCEPT ![t] = @ + 1]
  /\ pc' = "saving"
  /\ UNCHANGED <<controllerVars, networkVars, diskVars, snap, batch, stale, disturbed, faults>>

\* saveState at the end of Execute; its error is ignored.
SaveState ==
  /\ pc = "saving"
  /\ pc' = "reporting"
  /\ \/ /\ saved' = completed
        /\ savedHot' = hot
        /\ UNCHANGED faults
     \/ /\ faults < MaxFaults
        /\ faults' = faults + 1
        /\ UNCHANGED <<saved, savedHot>>
  /\ UNCHANGED <<controllerVars, networkVars, queue, memoryVars, snap, batch, result,
                 stale, historyVars>>

\* The result is queued; the error of Enqueue is ignored.
QueueResult ==
  /\ pc = "reporting"
  /\ pc' = "tasks"
  /\ batch' = batch \ {result.task}
  /\ result' = Notice
  /\ \/ Enqueue(result) /\ UNCHANGED faults
     \/ /\ faults < MaxFaults
        /\ faults' = faults + 1
        /\ disturbed' = disturbed \cup {result.task}
        /\ UNCHANGED queue
  /\ UNCHANGED <<controllerVars, networkVars, saved, savedHot, memoryVars, snap, stale,
                 answer, runs>>

\* The ten minutes of a key are over.
CooldownElapses(key) ==
  /\ key \in hot \cup savedHot
  /\ hot' = hot \ {key}
  /\ savedHot' = savedHot \ {key}
  /\ UNCHANGED <<controllerVars, networkVars, queue, saved, completed, loopVars, stale,
                 historyVars, faults>>

\* The agent stops and starts again from its two files (NewActionRegistry).
\* Forgotten are the answer in hand and the completions that are not on disk.
Restart ==
  /\ faults < MaxFaults
  /\ faults' = faults + 1
  /\ completed' = saved
  /\ hot' = savedHot
  /\ pc' = "tasks"
  /\ snap' = <<>>
  /\ batch' = {}
  /\ result' = Notice
  /\ reply' = NoReply
  /\ disturbed' = disturbed \cup (completed \ saved) \cup ({result.task} \ {NoTask})
  /\ \/ UNCHANGED late
     \/ /\ pc = "waiting"
        /\ reply.kind = "none"
        /\ Cardinality(late) < MaxLate
        /\ late' = late \cup {snap}
  /\ UNCHANGED <<controllerVars, diskVars, stale, answer, runs>>

-----------------------------------------------------------------------------

AgentStep ==
  \/ SendHeartbeat
  \/ ReceiveRefusal
  \/ ReceiveAccepted
  \/ ReceiveEarly
  \/ \E t \in Tasks : \/ RejectTask(t)
                      \/ AnswerCompleted(t)
                      \/ AnswerCooldown(t)
                      \/ Perform(t)
  \/ SaveState
  \/ QueueResult

Next ==
  \/ \E t \in Tasks : CreateTask(t) \/ Expire(t)
  \/ Decommission
  \/ HandleHeartbeat
  \/ RefuseHeartbeat
  \/ DeferHeartbeat
  \/ \E events \in late : HandleLate(events)
  \/ LoseHeartbeat
  \/ AgentStep
  \/ \E key \in Keys : CooldownElapses(key)
  \/ Restart

Spec == Init /\ [][Next]_vars

\* The agent's loop runs while the host is up, and the controller answers the
\* requests that reach it.  The two clocks drift by a bounded amount: a task that
\* is over for the agent will be over for the controller.  Nothing is assumed of
\* task creation, of expiry itself, of decommissioning, of cooldowns, or of the
\* requests the agent has given up on.
ClockCatchesUp(t) == t \in stale /\ Expire(t) /\ expired' # expired

Fairness ==
  /\ WF_vars(AgentStep)
  /\ WF_vars(HandleHeartbeat \/ RefuseHeartbeat)
  /\ \A t \in Tasks : WF_vars(ClockCatchesUp(t))

FairSpec == Spec /\ Fairness

-----------------------------------------------------------------------------
(* What the channel promises. *)

Verdict(a) == IF a = "ok" THEN "succeeded" ELSE "failed"

\* The verdict the controller stores is the first answer the agent gave, whatever
\* was lost, repeated or handled late, as long as no answer and no completion of
\* the task was destroyed (record_agent_results keeps the first record it sees,
\* the queue is first in first out, Completed suppresses a second run).
VerdictIsFirstAnswer ==
  \A t \in Tasks \ disturbed :
    status[t] \in Terminal => answer[t] # "none" /\ status[t] = Verdict(answer[t])

\* An answer the controller has not recorded is still in the agent's hand or on
\* its disk: the agent acknowledges no more than the controller has committed.
AnswerIsKept ==
  \A t \in Tasks \ disturbed :
    answer[t] # "none" =>
      \/ status[t] \in Terminal
      \/ t \in Reported(queue) \cup {result.task}

\* The action of a task is performed twice only if its completion was lost
\* between the end of the action and a successful saveState, or with its answer.
RerunOnlyIfDisturbed ==
  \A t \in Tasks : runs[t] > 1 => t \in disturbed

\* A verdict is never revised, neither by a second record of the same task nor
\* by a request handled late, and a cancelled task stays cancelled.
VerdictIsFinal ==
  [][\A t \in Tasks :
       status[t] \in Terminal \cup {"cancelled"} => status'[t] = status[t]]_status

\* Tasks are performed in the order of their creation (the check after a repair
\* runs after the repair): when t is performed, every older task has been
\* answered or has expired.
OldestFirst ==
  [][\A t, u \in Tasks :
       /\ runs'[t] > runs[t]
       /\ status[u] # "none"
       /\ createdAt[u] < createdAt[t]
       => answer[u] # "none" \/ u \in expired \cup stale]_runs

\* The channel implements its abstract specification.
Outcome == INSTANCE TaskOutcome WITH
  verdict   <- [t \in Tasks |-> IF status[t] \in Open THEN "open" ELSE status[t]],
  outcome   <- answer,
  performed <- {t \in Tasks : runs[t] > 0}

ImplementsOutcome == Outcome!Spec

\* A task is concluded unless it expires or the agent is revoked, whatever the
\* (finitely many) failures: the controller delivers it again and again.  And so
\* is every task with an answer, expired or not, if no answer of it was lost: the
\* agent sends what is in its queue (DiskQueue) until it is acknowledged.
TaskConcludes ==
  \A t \in Tasks :
    /\ status[t] \in Open ~>
         (status[t] \in Terminal \/ t \in expired \/ revoked)
    /\ answer[t] # "none" ~>
         (status[t] \in Terminal \/ t \in disturbed \/ revoked)
=============================================================================
