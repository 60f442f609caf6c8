-------------------------- MODULE AgentTasks_proofs -------------------------
(***************************************************************************)
(* Proofs about the task channel, for any set of tasks, any limits and any *)
(* number of failures; the second part shows that it implements            *)
(* TaskOutcome and performs tasks in the order of their creation.          *)
(***************************************************************************)
EXTENDS AgentTasks, FiniteSetTheorems, TLAPS

USE DEF controllerVars, networkVars, diskVars, memoryVars, loopVars, historyVars

-----------------------------------------------------------------------------
(* Type correctness. *)

LEMMA NoticeType == Notice \in Record
BY DEF Notice, Record

LEMMA ReportedType ==
  ASSUME NEW events \in Seq(Record)
  PROVE  Reported(events) \subseteq Tasks
<1>1. \A i \in DOMAIN events : events[i] \in Record
  OBVIOUS
<1> QED BY <1>1 DEF Reported, Record

\* What is left after the oldest k records are dropped.
LEMMA DropFacts ==
  ASSUME NEW S, NEW events \in Seq(S), NEW k \in Nat, k <= Len(events)
  PROVE  /\ DropFirst(events, k) \in Seq(S)
         /\ Len(DropFirst(events, k)) = Len(events) - k
         /\ \A i \in 1 .. Len(events) - k : DropFirst(events, k)[i] = events[i + k]
BY DEF DropFirst

\* A prefix.
LEMMA PrefixFacts ==
  ASSUME NEW S, NEW events \in Seq(S), NEW k \in Nat, k <= Len(events)
  PROVE  /\ SubSeq(events, 1, k) \in Seq(S)
         /\ Len(SubSeq(events, 1, k)) = k
         /\ \A i \in 1 .. k : SubSeq(events, 1, k)[i] = events[i]
OBVIOUS

\* What Enqueue leaves in the queue is a suffix of the queue and the new record.
LEMMA TrimRange ==
  ASSUME NEW records, NEW k \in Trims(records)
  PROVE  /\ k \in Nat
         /\ k <= Len(records) - 1
BY DEF Trims

LEMMA EnqueueType ==
  ASSUME TypeOK, NEW record \in Record, Enqueue(record)
  PROVE  queue' \in Seq(Record) /\ disturbed' \subseteq Tasks
<1> DEFINE records == Append(queue, record)
<1>1. records \in Seq(Record)
  BY DEF TypeOK
<1>2. PICK k \in Trims(records) :
        /\ queue' = DropFirst(records, k)
        /\ disturbed' = disturbed \cup Reported(SubSeq(records, 1, k))
  BY DEF Enqueue
<1>3. k \in Nat /\ Len(records) \in Nat /\ k <= Len(records) - 1
  <2> HIDE DEF records
  <2> QED BY <1>1, TrimRange
<1>4. SubSeq(records, 1, k) \in Seq(Record) /\ DropFirst(records, k) \in Seq(Record)
  <2> HIDE DEF records
  <2> QED BY <1>1, <1>3, DropFacts, PrefixFacts
<1> QED
  BY <1>2, <1>4, ReportedType DEF TypeOK

LEMMA Typing == TypeOK /\ [Next]_vars => TypeOK'
<1> SUFFICES ASSUME TypeOK, [Next]_vars PROVE TypeOK'
  OBVIOUS
<1> USE ConstantsAssumption, NoticeType DEF Notice
<1>1. ASSUME NEW t \in Tasks, CreateTask(t) PROVE TypeOK'
  <2>1. Cardinality({u \in Tasks : status[u] # "none"}) \in Nat
    BY FS_Subset, FS_CardinalityType
  <2> QED BY <1>1, <2>1 DEF CreateTask, TypeOK, Statuses, Open
<1>2. ASSUME NEW t \in Tasks, Expire(t) PROVE TypeOK'
  BY <1>2 DEF Expire, TypeOK
<1>3. CASE Decommission
  BY <1>3 DEF Decommission, TypeOK, Statuses
<1>4. ASSUME NEW events, Accept(events) PROVE status' \in [Tasks -> Statuses]
  BY <1>4 DEF Accept, Delivered, Recorded, TypeOK, Statuses, Terminal, Open
<1>5. CASE HandleHeartbeat
  <2>1. Oldest(Deliverable(Recorded(snap))) \subseteq Tasks
    BY DEF Oldest, Deliverable
  <2> QED BY <1>4, <1>5, <2>1 DEF HandleHeartbeat, TypeOK, Replies
<1>6. CASE RefuseHeartbeat
  BY <1>6 DEF RefuseHeartbeat, TypeOK, Replies
<1>7. CASE DeferHeartbeat
  BY <1>7 DEF DeferHeartbeat, TypeOK, Replies
<1>8. ASSUME NEW events \in late, HandleLate(events) PROVE TypeOK'
  BY <1>4, <1>8 DEF HandleLate, TypeOK
<1>9. CASE LoseHeartbeat
  <2>1. queue' \in Seq(Record) /\ disturbed' \subseteq Tasks
    BY <1>9, EnqueueType DEF LoseHeartbeat, QueueNotice
  <2> QED BY <1>9, <2>1 DEF LoseHeartbeat, QueueNotice, TypeOK, NoReply, Replies
<1>10. CASE SendHeartbeat
  <2>1. Snapshot(SnapshotLimit) \in Seq(Record)
    BY DEF Snapshot, TypeOK
  <2> QED BY <1>10, <2>1 DEF SendHeartbeat, TypeOK, NoReply, Replies
<1>11. CASE ReceiveRefusal
  <2>1. queue' \in Seq(Record) /\ disturbed' \subseteq Tasks
    BY <1>11, EnqueueType DEF ReceiveRefusal, QueueNotice
  <2> QED BY <1>11, <2>1 DEF ReceiveRefusal, QueueNotice, TypeOK, NoReply, Replies
<1>12. CASE ReceiveAccepted
  <2>1. queue' \in Seq(Record)
    <3>1. queue \in Seq(Record) /\ snap \in Seq(Record)
      BY DEF TypeOK
    <3>2. CASE Ack(Len(snap))
      BY <3>1, <3>2, DropFacts DEF Ack
    <3>3. CASE UNCHANGED queue
      BY <3>1, <3>3
    <3> QED BY <1>12, <3>2, <3>3 DEF ReceiveAccepted
  <2> QED BY <1>12, <2>1 DEF ReceiveAccepted, TypeOK, NoReply, Replies
<1>13. CASE ReceiveEarly
  BY <1>13 DEF ReceiveEarly, TypeOK, NoReply, Replies
<1>14. ASSUME NEW t \in Tasks, RejectTask(t) PROVE TypeOK'
  BY <1>14 DEF RejectTask, TypeOK
<1>15. ASSUME NEW t \in Tasks, NEW success \in BOOLEAN, Answer(t, success)
       PROVE  /\ result' \in Record
              /\ result'.task \in Tasks
              /\ answer' \in [Tasks -> {"none", "ok", "failed"}]
  BY <1>15 DEF Answer, TypeOK, Record
<1>16. ASSUME NEW t \in Tasks, AnswerCompleted(t) PROVE TypeOK'
  BY <1>15, <1>16 DEF AnswerCompleted, TypeOK
<1>17. ASSUME NEW t \in Tasks, AnswerCooldown(t) PROVE TypeOK'
  BY <1>15, <1>17 DEF AnswerCooldown, TypeOK
<1>18. ASSUME NEW t \in Tasks, Perform(t) PROVE TypeOK'
  BY <1>15, <1>18 DEF Perform, Remember, TypeOK
<1>19. CASE SaveState
  BY <1>19 DEF SaveState, TypeOK
<1>20. CASE QueueResult
  <2>1. queue' \in Seq(Record)
    BY <1>20, EnqueueType DEF QueueResult, TypeOK
  <2>2. disturbed' \subseteq Tasks
    <3>1. CASE Enqueue(result)
      BY <3>1, EnqueueType DEF TypeOK
    <3>2. CASE disturbed' = disturbed \cup {result.task}
      BY <1>20, <3>2 DEF TypeOK, Record, QueueResult
    <3> QED BY <1>20, <3>1, <3>2 DEF QueueResult
  <2> QED BY <1>20, <2>1, <2>2 DEF QueueResult, TypeOK
<1>21. ASSUME NEW key \in Keys, CooldownElapses(key) PROVE TypeOK'
  BY <1>21 DEF CooldownElapses, TypeOK
<1>22. CASE Restart
  <2>1. disturbed' \subseteq Tasks
    BY <1>22 DEF Restart, TypeOK, Record
  <2>2. late' \subseteq Seq(Record)
    BY <1>22 DEF Restart, TypeOK
  <2>3. reply' \in Replies
    BY <1>22 DEF Restart, NoReply, Replies
  <2>4. faults' \in Nat
    BY <1>22 DEF Restart, TypeOK
  <2>5. snap' \in Seq(Record) /\ result' \in Record /\ result'.task = NoTask
    BY <1>22 DEF Restart
  <2> QED BY <1>22, <2>1, <2>2, <2>3, <2>4, <2>5 DEF Restart, TypeOK
<1>23. CASE UNCHANGED vars
  BY <1>23 DEF vars, TypeOK
<1> QED
  BY <1>1, <1>2, <1>3, <1>5, <1>6, <1>7, <1>8, <1>9, <1>10, <1>11, <1>12, <1>13, <1>14,
     <1>16, <1>17, <1>18, <1>19, <1>20, <1>21, <1>22, <1>23 DEF Next, AgentStep

LEMMA InitType == Init => TypeOK
<1> SUFFICES ASSUME Init PROVE TypeOK
  OBVIOUS
<1>1. queue \in Seq(Record) /\ snap \in Seq(Record)
  BY DEF Init
<1>2. reply \in Replies
  BY DEF Init, Replies, NoReply
<1>3. result \in Record /\ result.task = NoTask
  BY NoticeType DEF Init, Notice
<1>4. status \in [Tasks -> Statuses]
  BY DEF Init, Statuses
<1> QED BY <1>1, <1>2, <1>3, <1>4 DEF Init, TypeOK

\* Every variable keeps its type.
THEOREM TypeCorrect == Spec => []TypeOK
<1>1. Init => TypeOK
  BY InitType
<1>2. TypeOK /\ [Next]_vars => TypeOK'
  BY Typing
<1> QED BY <1>1, <1>2, PTL DEF Spec

-----------------------------------------------------------------------------
(* The inductive invariant behind the safety properties.  The properties    *)
(* speak of the controller's table and of the agent's answers; between the  *)
(* two are the queue, the events of the request being waited for, those of  *)
(* abandoned requests and the result in hand.  Of a task that is neither    *)
(* concluded nor disturbed, the first record in each of these places is its *)
(* first answer.                                                            *)

Live(t) == status[t] \notin Terminal /\ t \notin disturbed

InFlight == {queue, snap} \cup late

\* The first record of t among the events, if there is one, is its first answer.
Faithful(events, t) ==
  t \in Reported(events) => (FirstSucceeded(events, t) <=> answer[t] = "ok")

\* Whatever the agent keeps of a task, it has answered it.
Traces ==
  /\ \A events \in InFlight : \A t \in Reported(events) : answer[t] # "none"
  /\ \A t \in completed \cup saved \cup ({result.task} \ {NoTask}) : answer[t] # "none"

FirstRecords ==
  \A t \in Tasks : Live(t) =>
    /\ \A events \in InFlight : Faithful(events, t)
    /\ result.task = t /\ t \notin Reported(queue) => (result.success <=> answer[t] = "ok")

\* What the agent waits to acknowledge is the head of its queue, and the
\* controller has recorded all of it once the reply is accepted.
HeadSent ==
  pc = "waiting" =>
    /\ Len(snap) <= Len(queue)
    /\ snap = SubSeq(queue, 1, Len(snap))
    /\ reply.kind = "accepted" => \A t \in Reported(snap) : status[t] \in Terminal

\* A performance the agent has forgotten is a disturbance.
Remembered == \A t \in Tasks \ disturbed : runs[t] > 0 => t \in completed

IInv ==
  /\ TypeOK
  /\ Traces
  /\ FirstRecords
  /\ HeadSent
  /\ Remembered
  /\ VerdictIsFirstAnswer
  /\ AnswerIsKept
  /\ RerunOnlyIfDisturbed

-----------------------------------------------------------------------------
(* What appending, dropping and cutting do to the records of a task. *)

LEMMA ReportedAt ==
  ASSUME NEW events \in Seq(Record), NEW t \in Tasks
  PROVE  t \in Reported(events) <=> \E i \in 1 .. Len(events) : events[i].task = t
BY ConstantsAssumption DEF Reported

LEMMA FirstSucceededAt ==
  ASSUME NEW events \in Seq(Record), NEW t
  PROVE  FirstSucceeded(events, t) <=>
           \E i \in 1 .. Len(events) : /\ events[i].task = t
                                       /\ events[i].success
                                       /\ \A k \in 1 .. i-1 : events[k].task # t
BY DEF FirstSucceeded

LEMMA AppendRecords ==
  ASSUME NEW events \in Seq(Record), NEW r \in Record, NEW t \in Tasks
  PROVE  /\ t \in Reported(Append(events, r)) <=> t \in Reported(events) \/ r.task = t
         /\ t \in Reported(events) =>
              (FirstSucceeded(Append(events, r), t) <=> FirstSucceeded(events, t))
         /\ t \notin Reported(events) /\ r.task = t =>
              (FirstSucceeded(Append(events, r), t) <=> r.success)
<1> DEFINE longer == Append(events, r)
           n == Len(events)
<1>1. /\ longer \in Seq(Record) /\ Len(longer) = n + 1 /\ n \in Nat
      /\ \A i \in 1 .. n : longer[i] = events[i]
      /\ longer[n + 1] = r
  OBVIOUS
<1>2. FirstSucceeded(events, t) <=>
        \E i \in 1 .. n : /\ events[i].task = t /\ events[i].success
                          /\ \A k \in 1 .. i-1 : events[k].task # t
  BY FirstSucceededAt
<1> HIDE DEF longer
<1>3. FirstSucceeded(longer, t) <=>
        \E i \in 1 .. n + 1 : /\ longer[i].task = t /\ longer[i].success
                              /\ \A k \in 1 .. i-1 : longer[k].task # t
  BY <1>1, FirstSucceededAt
<1>4. t \in Reported(longer) <=> \E i \in 1 .. n + 1 : longer[i].task = t
  BY <1>1, ReportedAt
<1>5. t \in Reported(events) <=> \E i \in 1 .. n : events[i].task = t
  BY ReportedAt
<1> HIDE DEF n
<1>6. t \in Reported(longer) <=> t \in Reported(events) \/ r.task = t
  BY <1>1, <1>4, <1>5
<1>7. ASSUME t \in Reported(events)
      PROVE  FirstSucceeded(longer, t) <=> FirstSucceeded(events, t)
  <2>1. PICK m \in 1 .. n : events[m].task = t
    BY <1>5, <1>7
  <2>2. ASSUME NEW i \in 1 .. n
        PROVE  /\ longer[i] = events[i]
               /\ \A k \in 1 .. i-1 : longer[k] = events[k]
    BY <1>1
  <2>3. ASSUME FirstSucceeded(events, t) PROVE FirstSucceeded(longer, t)
    <3>1. PICK i \in 1 .. n : /\ events[i].task = t /\ events[i].success
                              /\ \A k \in 1 .. i-1 : events[k].task # t
      BY <1>2, <2>3
    <3>2. i \in 1 .. n + 1
      BY <1>1
    <3> QED BY <1>3, <2>2, <3>1, <3>2
  <2>4. ASSUME FirstSucceeded(longer, t) PROVE FirstSucceeded(events, t)
    <3>1. PICK i \in 1 .. n + 1 : /\ longer[i].task = t /\ longer[i].success
                                  /\ \A k \in 1 .. i-1 : longer[k].task # t
      BY <1>3, <2>4
    <3>2. longer[m].task = t
      BY <2>1, <2>2
    <3>3. i \in 1 .. n
      BY <1>1, <2>1, <3>1, <3>2
    <3> QED BY <1>2, <2>2, <3>1, <3>3
  <2> QED BY <2>3, <2>4
<1>8. ASSUME t \notin Reported(events), r.task = t
      PROVE  FirstSucceeded(longer, t) <=> r.success
  BY <1>1, <1>3, <1>5, <1>8
<1> QED BY <1>6, <1>7, <1>8 DEF longer

LEMMA DropRecords ==
  ASSUME NEW events \in Seq(Record), NEW k \in Nat, k <= Len(events), NEW t \in Tasks
  PROVE  /\ t \in Reported(DropFirst(events, k)) => t \in Reported(events)
         /\ t \notin Reported(SubSeq(events, 1, k)) =>
              /\ t \in Reported(events) => t \in Reported(DropFirst(events, k))
              /\ FirstSucceeded(DropFirst(events, k), t) <=> FirstSucceeded(events, t)
<1> DEFINE rest == DropFirst(events, k)
           head == SubSeq(events, 1, k)
           n == Len(events)
<1>1. /\ rest \in Seq(Record) /\ Len(rest) = n - k /\ n \in Nat
      /\ \A i \in 1 .. n - k : rest[i] = events[i + k]
  <2>1. n \in Nat
    OBVIOUS
  <2>2. /\ rest \in Seq(Record) /\ Len(rest) = n - k
        /\ \A i \in 1 .. n - k : rest[i] = events[i + k]
    BY DropFacts, Zenon
  <2> QED BY <2>1, <2>2
<1>2. head \in Seq(Record) /\ Len(head) = k /\ \A i \in 1 .. k : head[i] = events[i]
  BY PrefixFacts
<1>3. t \in Reported(rest) <=> \E i \in 1 .. n - k : rest[i].task = t
  BY <1>1, ReportedAt
<1>4. t \in Reported(head) <=> \E i \in 1 .. k : head[i].task = t
  BY <1>2, ReportedAt
<1>5. t \in Reported(events) <=> \E i \in 1 .. n : events[i].task = t
  BY ReportedAt
<1>6. FirstSucceeded(events, t) <=>
        \E i \in 1 .. n : /\ events[i].task = t /\ events[i].success
                          /\ \A j \in 1 .. i-1 : events[j].task # t
  BY FirstSucceededAt
<1>8. k \in Nat /\ k <= n
  OBVIOUS
<1> HIDE DEF rest, head, n
<1>7. FirstSucceeded(rest, t) <=>
        \E i \in 1 .. n - k : /\ rest[i].task = t /\ rest[i].success
                              /\ \A j \in 1 .. i-1 : rest[j].task # t
  <2>2. FirstSucceeded(rest, t) <=>
          \E i \in 1 .. Len(rest) : /\ rest[i].task = t /\ rest[i].success
                                    /\ \A j \in 1 .. i-1 : rest[j].task # t
    <3>1. rest \in Seq(Record)
      BY <1>1
    <3> QED BY <3>1, FirstSucceededAt
  <2>3. Len(rest) = n - k
    BY <1>1
  <2> QED BY ONLY <2>2, <2>3, Zenon
<1>9. ASSUME t \in Reported(rest) PROVE t \in Reported(events)
  <2>1. PICK i \in 1 .. n - k : rest[i].task = t
    BY <1>3, <1>9
  <2>2. i + k \in 1 .. n /\ events[i + k].task = t
    BY <1>1, <1>8, <2>1
  <2> QED BY <1>5, <2>2
<1>10. ASSUME t \notin Reported(head)
       PROVE  \A i \in 1 .. n : events[i].task = t => i - k \in 1 .. n - k
  BY <1>1, <1>2, <1>4, <1>8, <1>10
<1>11. ASSUME t \notin Reported(head), t \in Reported(events)
       PROVE  t \in Reported(rest)
  <2>1. PICK i \in 1 .. n : events[i].task = t
    BY <1>5, <1>11
  <2>2. i - k \in 1 .. n - k /\ (i - k) + k = i
    BY <1>1, <1>8, <1>10, <1>11, <2>1
  <2> QED BY <1>1, <1>3, <2>1, <2>2
<1>12. ASSUME t \notin Reported(head), FirstSucceeded(rest, t)
       PROVE  FirstSucceeded(events, t)
  <2>1. PICK i \in 1 .. n - k : /\ rest[i].task = t /\ rest[i].success
                                /\ \A j \in 1 .. i-1 : rest[j].task # t
    BY <1>7, <1>12
  <2>2. i + k \in 1 .. n /\ events[i + k] = rest[i]
    BY <1>1, <1>8
  <2>3. ASSUME NEW j \in 1 .. (i + k) - 1, events[j].task = t PROVE FALSE
    <3>1. j \in 1 .. n
      BY <1>1, <1>8, <2>2
    <3>2. j - k \in 1 .. i-1 /\ j - k \in 1 .. n - k /\ (j - k) + k = j
      BY <1>1, <1>8, <1>10, <1>12, <2>3, <3>1
    <3> QED BY <1>1, <2>1, <2>3, <3>2
  <2> QED BY <1>6, <2>1, <2>2, <2>3
<1>13. ASSUME t \notin Reported(head), FirstSucceeded(events, t)
       PROVE  FirstSucceeded(rest, t)
  <2>1. PICK i \in 1 .. n : /\ events[i].task = t /\ events[i].success
                            /\ \A j \in 1 .. i-1 : events[j].task # t
    BY <1>6, <1>13
  <2>2. i - k \in 1 .. n - k /\ (i - k) + k = i
    BY <1>1, <1>8, <1>10, <1>13, <2>1
  <2>3. \A j \in 1 .. (i - k) - 1 : j \in 1 .. n - k /\ j + k \in 1 .. i-1
    BY <1>1, <1>8, <2>2
  <2>4. \A j \in 1 .. (i - k) - 1 : rest[j].task # t
    BY <1>1, <2>1, <2>3
  <2> QED BY <1>1, <1>7, <2>1, <2>2, <2>4
<1> QED BY <1>9, <1>11, <1>12, <1>13 DEF rest, head

LEMMA PrefixRecords ==
  ASSUME NEW events \in Seq(Record), NEW k \in Nat, k <= Len(events), NEW t \in Tasks,
         t \in Reported(SubSeq(events, 1, k))
  PROVE  /\ t \in Reported(events)
         /\ FirstSucceeded(SubSeq(events, 1, k), t) <=> FirstSucceeded(events, t)
<1> DEFINE head == SubSeq(events, 1, k)
           n == Len(events)
<1>1. /\ head \in Seq(Record) /\ Len(head) = k /\ n \in Nat /\ k \in Nat /\ k <= n
      /\ \A i \in 1 .. k : head[i] = events[i]
  <2>1. n \in Nat /\ k \in Nat /\ k <= n
    OBVIOUS
  <2> QED BY <2>1, PrefixFacts
<1>2. PICK i \in 1 .. k : head[i].task = t
  BY <1>1, ReportedAt
<1>3. t \in Reported(events)
  <2>1. i \in 1 .. n /\ events[i].task = t
    BY <1>1, <1>2
  <2> QED BY <2>1, ReportedAt DEF n
<1>4. FirstSucceeded(events, t) <=>
        \E j \in 1 .. n : /\ events[j].task = t /\ events[j].success
                          /\ \A m \in 1 .. j-1 : events[m].task # t
  BY FirstSucceededAt
<1> HIDE DEF head
<1>5. FirstSucceeded(head, t) <=>
        \E j \in 1 .. k : /\ head[j].task = t /\ head[j].success
                          /\ \A m \in 1 .. j-1 : head[m].task # t
  BY <1>1, FirstSucceededAt
<1> HIDE DEF n
<1>6. FirstSucceeded(head, t) => FirstSucceeded(events, t)
  BY <1>1, <1>4, <1>5
<1>7. FirstSucceeded(events, t) => FirstSucceeded(head, t)
  BY <1>1, <1>2, <1>4, <1>5
<1> QED BY <1>3, <1>6, <1>7 DEF head

-----------------------------------------------------------------------------
(* The steps of the controller. *)

\* The conjuncts of IInv that do not mention the wait for a reply.
Kernel ==
  /\ Traces
  /\ FirstRecords
  /\ Remembered
  /\ VerdictIsFirstAnswer
  /\ AnswerIsKept
  /\ RerunOnlyIfDisturbed

\* A verdict stays; a task that is concluded takes its first answer for it.
SoundVerdicts ==
  \A t \in Tasks :
    /\ status[t] \in Terminal => status'[t] = status[t]
    /\ status'[t] \in Terminal /\ Live(t) => answer[t] # "none" /\ status'[t] = Verdict(answer[t])

\* A step that concludes tasks soundly and leaves the agent alone keeps the kernel.
LEMMA ControllerStep ==
  ASSUME IInv, SoundVerdicts, late' \subseteq late,
         UNCHANGED <<queue, snap, completed, saved, result, answer, runs, disturbed>>
  PROVE  Kernel'
<1>1. InFlight' \subseteq InFlight
  BY DEF InFlight
<1>2. \A t \in Tasks : Live(t)' => Live(t)
  BY DEF Live, SoundVerdicts
<1>3. \A events, t : Faithful(events, t) => Faithful(events, t)'
  BY DEF Faithful
<1>4. Traces'
  BY <1>1 DEF Traces, IInv
<1>5. FirstRecords'
  BY <1>1, <1>2, <1>3 DEF FirstRecords, IInv
<1>6. Remembered' /\ RerunOnlyIfDisturbed'
  BY DEF Remembered, RerunOnlyIfDisturbed, IInv
<1>7. VerdictIsFirstAnswer'
  BY DEF VerdictIsFirstAnswer, SoundVerdicts, Live, IInv, Verdict
<1>8. AnswerIsKept'
  BY DEF AnswerIsKept, SoundVerdicts, IInv
<1> QED BY <1>4, <1>5, <1>6, <1>7, <1>8 DEF Kernel

\* agent_heartbeat records soundly, and records everything that is reported.
LEMMA AcceptIsSound ==
  ASSUME IInv, NEW events \in InFlight, Accept(events)
  PROVE  /\ SoundVerdicts
         /\ \A t \in Reported(events) : status'[t] \in Terminal
<1> USE DEF Terminal
<1>1. events \in Seq(Record) /\ Reported(events) \subseteq Tasks
  BY ReportedType DEF InFlight, IInv, TypeOK
<1>2. ASSUME NEW t \in Tasks
      PROVE  IF t \in Reported(events) /\ status[t] \notin Terminal
               THEN status'[t] = (IF FirstSucceeded(events, t) THEN "succeeded" ELSE "failed")
               ELSE \/ status'[t] = status[t]
                    \/ status[t] \in Open /\ status'[t] = "delivered"
  BY DEF Accept, Delivered, Recorded, Oldest, Deliverable, Open, IInv, TypeOK
<1>3. ASSUME NEW t \in Tasks, t \in Reported(events), Live(t)
      PROVE  answer[t] # "none" /\ (FirstSucceeded(events, t) <=> answer[t] = "ok")
  BY <1>3 DEF IInv, Traces, FirstRecords, Faithful
<1>4. ASSUME NEW t \in Tasks
      PROVE  /\ status[t] \in Terminal => status'[t] = status[t]
             /\ status'[t] \in Terminal /\ Live(t) =>
                  answer[t] # "none" /\ status'[t] = Verdict(answer[t])
  BY <1>2, <1>3 DEF Live, Verdict, Open
<1>5. ASSUME NEW t \in Reported(events) PROVE status'[t] \in Terminal
  BY <1>1, <1>2 DEF Open
<1> QED BY <1>4, <1>5 DEF SoundVerdicts

\* Nothing is concluded.
Inconclusive ==
  \A t \in Tasks : \/ status'[t] = status[t]
                   \/ status[t] \notin Terminal /\ status'[t] \notin Terminal

LEMMA NoVerdict == Inconclusive => SoundVerdicts
BY DEF SoundVerdicts, Live, Inconclusive

LEMMA StatusKept == UNCHANGED status => SoundVerdicts
BY DEF SoundVerdicts, Live

\* A step after which the same head of the same queue is waited for.
LEMMA HeadKept ==
  ASSUME IInv, SoundVerdicts, reply'.kind = "accepted" => reply'.kind = reply.kind,
         UNCHANGED <<pc, snap, queue>>
  PROVE  HeadSent'
<1>1. Reported(snap) \subseteq Tasks
  BY ReportedType DEF IInv, TypeOK
<1> QED BY <1>1 DEF IInv, HeadSent, SoundVerdicts

-----------------------------------------------------------------------------
(* The steps of the agent. *)

\* What Enqueue does to the records of a task it does not disturb.
LEMMA EnqueueKeeps ==
  ASSUME TypeOK, NEW record \in Record, Enqueue(record), NEW t \in Tasks
  PROVE  /\ disturbed \subseteq disturbed'
         /\ t \in Reported(queue') => t \in Reported(queue) \/ record.task = t
         /\ t \notin disturbed' =>
              /\ t \in Reported(queue) \/ record.task = t => t \in Reported(queue')
              /\ t \in Reported(queue) =>
                   (FirstSucceeded(queue', t) <=> FirstSucceeded(queue, t))
              /\ t \notin Reported(queue) /\ record.task = t =>
                   (FirstSucceeded(queue', t) <=> record.success)
<1> DEFINE records == Append(queue, record)
<1>1. queue \in Seq(Record) /\ records \in Seq(Record)
  BY DEF TypeOK
<1>2. PICK k \in Trims(records) :
        /\ queue' = DropFirst(records, k)
        /\ disturbed' = disturbed \cup Reported(SubSeq(records, 1, k))
  BY DEF Enqueue
<1>3. /\ t \in Reported(records) <=> t \in Reported(queue) \/ record.task = t
      /\ t \in Reported(queue) =>
           (FirstSucceeded(records, t) <=> FirstSucceeded(queue, t))
      /\ t \notin Reported(queue) /\ record.task = t =>
           (FirstSucceeded(records, t) <=> record.success)
  BY <1>1, AppendRecords
<1> HIDE DEF records
<1>4. k \in Nat /\ k <= Len(records)
  BY <1>1, TrimRange
<1>5. /\ t \in Reported(DropFirst(records, k)) => t \in Reported(records)
      /\ t \notin Reported(SubSeq(records, 1, k)) =>
           /\ t \in Reported(records) => t \in Reported(DropFirst(records, k))
           /\ FirstSucceeded(DropFirst(records, k), t) <=> FirstSucceeded(records, t)
  BY <1>1, <1>4, DropRecords
<1> QED BY <1>2, <1>3, <1>5

\* A record is queued: the one of the task in hand, or a notice.
LEMMA EnqueueStep ==
  ASSUME IInv, NEW record \in Record, Enqueue(record),
         record = result \/ record = Notice,
         result.task = record.task \/ result.task = NoTask,
         result'.task = NoTask, snap' \in {snap, <<>>}, late' \subseteq late \cup {snap},
         UNCHANGED <<status, completed, saved, answer, runs>>
  PROVE  Kernel'
<1> USE ConstantsAssumption
<1>1. /\ TypeOK /\ disturbed \subseteq disturbed' /\ disturbed' \subseteq Tasks
      /\ queue' \in Seq(Record)
  BY EnqueueKeeps, EnqueueType DEF IInv, TypeOK, Enqueue
<1>2. Reported(<<>>) = {}
  BY DEF Reported
<1>3. \A t \in Tasks : Live(t)' => Live(t) /\ t \notin disturbed'
  BY <1>1 DEF Live
<1>4. Traces'
  <2>1. ASSUME NEW events \in InFlight', NEW t \in Reported(events) PROVE answer'[t] # "none"
    <3>1. CASE events \in InFlight
      BY <2>1, <3>1 DEF IInv, Traces
    <3>2. CASE events = <<>>
      BY <1>2, <2>1, <3>2
    <3>3. CASE events = queue'
      <4>1. t \in Tasks
        BY <1>1, <2>1, <3>3, ReportedType
      <4>2. t \in Reported(queue) \/ record.task = t
        BY <1>1, <2>1, <3>3, <4>1, EnqueueKeeps
      <4> QED BY <4>1, <4>2 DEF IInv, Traces, InFlight, Notice
    <3> QED BY <3>1, <3>2, <3>3 DEF InFlight
  <2>2. \A t \in completed' \cup saved' \cup ({result'.task} \ {NoTask}) : answer'[t] # "none"
    BY DEF Notice, IInv, Traces
  <2> QED BY <2>1, <2>2 DEF Traces
<1>5. FirstRecords'
  <2> SUFFICES ASSUME NEW t \in Tasks, Live(t)'
               PROVE  /\ \A events \in InFlight' : Faithful(events, t)'
                      /\ result'.task # t
    BY DEF FirstRecords
  <2>1. Live(t) /\ t \notin disturbed'
    BY <1>3
  <2>2. ASSUME NEW events \in InFlight' PROVE Faithful(events, t)'
    <3>1. CASE events \in InFlight
      BY <2>1, <3>1 DEF IInv, FirstRecords, Faithful
    <3>2. CASE events = <<>>
      BY <1>2, <3>2 DEF Faithful
    <3>3. CASE events = queue'
      <4>1. CASE t \in Reported(queue)
        BY <1>1, <2>1, <3>3, <4>1, EnqueueKeeps DEF IInv, FirstRecords, Faithful, InFlight
      <4>2. CASE t \notin Reported(queue) /\ record.task = t
        <5>1. FirstSucceeded(queue', t) <=> record.success
          BY <1>1, <2>1, <4>2, EnqueueKeeps
        <5>2. record = result
          BY <4>2 DEF Notice
        <5> QED BY <2>1, <3>3, <4>2, <5>1, <5>2 DEF IInv, FirstRecords, Faithful
      <4>3. CASE t \notin Reported(queue) /\ record.task # t
        BY <1>1, <3>3, <4>3, EnqueueKeeps DEF Faithful
      <4> QED BY <4>1, <4>2, <4>3
    <3> QED BY <3>1, <3>2, <3>3 DEF InFlight
  <2> QED BY <2>2 DEF Notice
<1>6. Remembered' /\ RerunOnlyIfDisturbed' /\ VerdictIsFirstAnswer'
  BY <1>1 DEF IInv, Remembered, RerunOnlyIfDisturbed, VerdictIsFirstAnswer
<1>7. AnswerIsKept'
  <2> SUFFICES ASSUME NEW t \in Tasks \ disturbed', answer[t] # "none", status[t] \notin Terminal
               PROVE  t \in Reported(queue')
    BY DEF AnswerIsKept
  <2>1. t \in Reported(queue) \cup {result.task}
    BY <1>1 DEF IInv, AnswerIsKept
  <2> QED BY <1>1, <2>1, EnqueueKeeps
<1> QED BY <1>4, <1>5, <1>6, <1>7 DEF Kernel

\* The agent answers a task: it is the first answer, or the answer to a task
\* whose first answer is on its way, recorded or lost.
LEMMA AnswerStep ==
  ASSUME IInv, NEW t \in Tasks, NEW success \in BOOLEAN, Answer(t, success),
         pc = "tasks", completed' \subseteq completed \cup {t},
         completed \subseteq completed',
         \/ runs' = runs
         \/ t \notin completed /\ t \in completed' /\ runs' = [runs EXCEPT ![t] = @ + 1],
         t \in completed => answer[t] # "none",
         UNCHANGED <<status, queue, snap, late, saved, disturbed>>
  PROVE  Kernel'
<1> USE ConstantsAssumption
<1>1. InFlight' = InFlight
  BY DEF InFlight
<1>2. /\ result'.task = t /\ result'.success = success
      /\ answer'[t] # "none"
      /\ \A u \in Tasks : answer[u] # "none" => answer'[u] = answer[u]
      /\ answer[t] = "none" => (answer'[t] = "ok" <=> success)
      /\ \A u \in Tasks \ {t} : answer'[u] = answer[u]
  BY DEF Answer, IInv, TypeOK
<1>3. result.task = NoTask
  BY DEF IInv, TypeOK
<1>4. \A events \in InFlight : Reported(events) \subseteq Tasks
  BY ReportedType DEF InFlight, IInv, TypeOK
<1>5. Traces'
  <2>1. ASSUME NEW events \in InFlight', NEW u \in Reported(events) PROVE answer'[u] # "none"
    BY <1>1, <1>2, <1>4, <2>1 DEF IInv, Traces
  <2>2. ASSUME NEW u \in completed' \cup saved' \cup ({result'.task} \ {NoTask})
        PROVE  answer'[u] # "none"
    BY <1>2, <2>2 DEF IInv, Traces, TypeOK
  <2> QED BY <2>1, <2>2 DEF Traces
<1>6. FirstRecords'
  <2> SUFFICES ASSUME NEW u \in Tasks, Live(u)'
               PROVE  /\ \A events \in InFlight' : Faithful(events, u)'
                      /\ result'.task = u /\ u \notin Reported(queue') =>
                           (result'.success <=> answer'[u] = "ok")
    BY DEF FirstRecords
  <2>1. Live(u)
    BY DEF Live
  <2>2. ASSUME NEW events \in InFlight' PROVE Faithful(events, u)'
    <3>1. u \in Reported(events) => answer[u] # "none"
      BY <1>1 DEF IInv, Traces
    <3>2. Faithful(events, u)
      BY <1>1, <2>1 DEF IInv, FirstRecords
    <3> QED BY <1>2, <3>1, <3>2 DEF Faithful
  <2>3. ASSUME result'.task = u, u \notin Reported(queue')
        PROVE  result'.success <=> answer'[u] = "ok"
    <3>1. u = t /\ t \notin Reported(queue)
      BY <1>2, <2>3
    <3>2. answer[t] = "none"
      BY <1>3, <2>1, <3>1 DEF IInv, AnswerIsKept, Live
    <3> QED BY <1>2, <3>1, <3>2
  <2> QED BY <2>2, <2>3
<1>7. Remembered' /\ RerunOnlyIfDisturbed'
  <2> SUFFICES ASSUME NEW u \in Tasks \ disturbed
               PROVE  /\ runs'[u] > 0 => u \in completed'
                      /\ ~(runs'[u] > 1)
    BY DEF Remembered, RerunOnlyIfDisturbed
  <2>1. runs \in [Tasks -> Nat] /\ ~(runs[u] > 1) /\ (runs[u] > 0 => u \in completed)
    BY DEF IInv, TypeOK, Remembered, RerunOnlyIfDisturbed
  <2>2. CASE runs' = runs
    BY <2>1, <2>2
  <2>3. CASE /\ t \notin completed /\ t \in completed'
             /\ runs' = [runs EXCEPT ![t] = @ + 1]
    <3>1. CASE u = t
      BY <2>1, <2>3, <3>1
    <3>2. CASE u # t
      BY <2>1, <2>3, <3>2
    <3> QED BY <3>1, <3>2
  <2> QED BY <2>2, <2>3
<1>8. VerdictIsFirstAnswer'
  BY <1>2 DEF IInv, VerdictIsFirstAnswer
<1>9. AnswerIsKept'
  <2> SUFFICES ASSUME NEW u \in Tasks \ disturbed, answer'[u] # "none",
                      status[u] \notin Terminal
               PROVE  u \in Reported(queue) \cup {t}
    BY <1>2 DEF AnswerIsKept
  <2>1. CASE u # t
    BY <1>2, <1>3, <2>1 DEF IInv, AnswerIsKept
  <2> QED BY <2>1
<1> QED BY <1>5, <1>6, <1>7, <1>8, <1>9 DEF Kernel

\* The records of the snapshot are acknowledged: all of them are recorded.
LEMMA AckStep ==
  ASSUME IInv, pc = "waiting", reply.kind = "accepted", Ack(Len(snap)), snap' = <<>>,
         UNCHANGED <<status, late, saved, completed, result, answer, runs, disturbed>>
  PROVE  Kernel'
<1>1. /\ queue \in Seq(Record) /\ Len(snap) \in Nat /\ Len(snap) <= Len(queue)
      /\ snap = SubSeq(queue, 1, Len(snap))
      /\ \A t \in Reported(snap) : status[t] \in Terminal
  BY DEF IInv, TypeOK, HeadSent
<1>2. queue' = DropFirst(queue, Len(snap))
  BY <1>1 DEF Ack
<1>3. queue' \in Seq(Record)
  BY <1>1, <1>2, DropFacts
<1>4. ASSUME NEW t \in Tasks
      PROVE  /\ t \in Reported(queue') => t \in Reported(queue)
             /\ status[t] \notin Terminal =>
                  /\ t \in Reported(queue) => t \in Reported(queue')
                  /\ FirstSucceeded(queue', t) <=> FirstSucceeded(queue, t)
  BY <1>1, <1>2, DropRecords
<1>5. Reported(<<>>) = {}
  BY DEF Reported
<1>6. Traces'
  <2>1. ASSUME NEW events \in InFlight', NEW t \in Reported(events) PROVE answer[t] # "none"
    <3>1. CASE events \in InFlight
      BY <2>1, <3>1 DEF IInv, Traces
    <3>2. CASE events = queue'
      <4>1. t \in Tasks
        BY <1>3, <2>1, <3>2, ReportedType
      <4> QED BY <1>4, <2>1, <3>2, <4>1 DEF IInv, Traces, InFlight
    <3>3. CASE events = <<>>
      BY <1>5, <2>1, <3>3
    <3> QED BY <3>1, <3>2, <3>3 DEF InFlight
  <2> QED BY <2>1 DEF IInv, Traces
<1>7. FirstRecords'
  <2> SUFFICES ASSUME NEW t \in Tasks, Live(t)'
               PROVE  /\ \A events \in InFlight' : Faithful(events, t)'
                      /\ result'.task = t /\ t \notin Reported(queue') =>
                           (result'.success <=> answer'[t] = "ok")
    BY DEF FirstRecords
  <2>1. Live(t)
    BY DEF Live
  <2>2. ASSUME NEW events \in InFlight' PROVE Faithful(events, t)'
    <3>1. CASE events \in InFlight
      BY <2>1, <3>1 DEF IInv, FirstRecords, Faithful
    <3>2. CASE events = queue'
      BY <1>4, <2>1, <3>2 DEF IInv, FirstRecords, Faithful, InFlight, Live
    <3>3. CASE events = <<>>
      BY <1>5, <3>3 DEF Faithful
    <3> QED BY <3>1, <3>2, <3>3 DEF InFlight
  <2> QED BY <1>4, <2>1, <2>2 DEF IInv, FirstRecords, Live
<1>8. Remembered' /\ RerunOnlyIfDisturbed' /\ VerdictIsFirstAnswer'
  BY DEF IInv, Remembered, RerunOnlyIfDisturbed, VerdictIsFirstAnswer
<1>9. AnswerIsKept'
  BY <1>4 DEF IInv, AnswerIsKept
<1> QED BY <1>6, <1>7, <1>8, <1>9 DEF Kernel

\* The agent gives up the result in hand, if it has one, or restarts: its memory
\* is what it has saved, and what is forgotten is disturbed.
LEMMA ForgetStep ==
  ASSUME IInv,
         \/ completed' = completed
         \/ completed' = saved /\ completed \ saved \subseteq disturbed',
         disturbed \subseteq disturbed',
         result.task \in disturbed' \cup {NoTask},
         result'.task = NoTask, snap' \in {snap, <<>>}, late' \subseteq late \cup {snap},
         UNCHANGED <<status, queue, saved, answer, runs>>
  PROVE  Kernel'
<1> USE ConstantsAssumption
<1>1. Reported(<<>>) = {}
  BY DEF Reported
<1>2. InFlight' \subseteq InFlight \cup {<<>>}
  BY DEF InFlight
<1>3. Traces'
  BY <1>1, <1>2 DEF IInv, Traces, Notice
<1>4. FirstRecords'
  <2> SUFFICES ASSUME NEW t \in Tasks, Live(t)'
               PROVE  \A events \in InFlight' : Faithful(events, t)'
    BY DEF FirstRecords, Notice
  <2>1. Live(t)
    BY DEF Live
  <2> QED BY <1>1, <1>2, <2>1 DEF IInv, FirstRecords, Faithful
<1>5. Remembered' /\ RerunOnlyIfDisturbed'
  BY DEF IInv, Remembered, RerunOnlyIfDisturbed
<1>6. VerdictIsFirstAnswer'
  BY DEF IInv, VerdictIsFirstAnswer
<1>7. AnswerIsKept'
  BY DEF IInv, AnswerIsKept, Notice
<1> QED BY <1>3, <1>4, <1>5, <1>6, <1>7 DEF Kernel

-----------------------------------------------------------------------------
(* The invariant. *)

LEMMA InitInv == Init => IInv
<1> SUFFICES ASSUME Init PROVE IInv
  OBVIOUS
<1>1. TypeOK
  BY InitType
<1>2. Reported(<<>>) = {}
  BY DEF Reported
<1>3. \A events \in InFlight : events = <<>>
  BY DEF Init, InFlight
<1>4. Traces /\ FirstRecords
  BY <1>2, <1>3, ConstantsAssumption DEF Init, Traces, FirstRecords, Faithful, Notice
<1>5. HeadSent /\ Remembered /\ AnswerIsKept
  BY DEF Init, HeadSent, Remembered, AnswerIsKept
<1>6. VerdictIsFirstAnswer /\ RerunOnlyIfDisturbed
  BY DEF Init, VerdictIsFirstAnswer, RerunOnlyIfDisturbed, Terminal
<1> QED BY <1>1, <1>4, <1>5, <1>6 DEF IInv

LEMMA NextInv == IInv /\ [Next]_vars => IInv'
<1> SUFFICES ASSUME IInv, [Next]_vars PROVE Kernel' /\ HeadSent'
  BY Typing DEF IInv, Kernel
<1> USE NoticeType
<1>1. ASSUME NEW t \in Tasks, CreateTask(t) PROVE Kernel' /\ HeadSent'
  <2>1. SoundVerdicts
    <3>1. ASSUME NEW u \in Tasks
          PROVE  \/ status'[u] = status[u]
                 \/ status[u] \notin Terminal /\ status'[u] \notin Terminal
      BY <1>1 DEF CreateTask, IInv, TypeOK, Terminal
    <3>2. Inconclusive
      BY <3>1, Zenon DEF Inconclusive
    <3> QED BY <3>2, NoVerdict
  <2> QED BY <1>1, <2>1, ControllerStep, HeadKept DEF CreateTask
<1>2. ASSUME NEW t \in Tasks, Expire(t) PROVE Kernel' /\ HeadSent'
  <2>1. SoundVerdicts
    BY <1>2, StatusKept DEF Expire
  <2> QED BY <1>2, <2>1, ControllerStep, HeadKept DEF Expire
<1>3. CASE Decommission
  <2>1. SoundVerdicts
    <3>1. ASSUME NEW u \in Tasks
          PROVE  \/ status'[u] = status[u]
                 \/ status[u] \notin Terminal /\ status'[u] \notin Terminal
      BY <1>3 DEF Decommission, Terminal
    <3>2. Inconclusive
      BY <3>1, Zenon DEF Inconclusive
    <3> QED BY <3>2, NoVerdict
  <2> QED BY <1>3, <2>1, ControllerStep, HeadKept DEF Decommission
<1>4. CASE HandleHeartbeat
  <2>1. SoundVerdicts /\ \A t \in Reported(snap) : status'[t] \in Terminal
    BY <1>4, AcceptIsSound DEF HandleHeartbeat, InFlight
  <2>2. HeadSent'
    BY <1>4, <2>1 DEF HandleHeartbeat, IInv, HeadSent
  <2> QED BY <1>4, <2>1, <2>2, ControllerStep DEF HandleHeartbeat
<1>5. CASE RefuseHeartbeat
  <2>1. SoundVerdicts
    BY <1>5, StatusKept DEF RefuseHeartbeat
  <2> QED BY <1>5, <2>1, ControllerStep, HeadKept DEF RefuseHeartbeat
<1>6. CASE DeferHeartbeat
  <2>1. SoundVerdicts
    BY <1>6, StatusKept DEF DeferHeartbeat
  <2> QED BY <1>6, <2>1, ControllerStep, HeadKept DEF DeferHeartbeat
<1>7. ASSUME NEW events \in late, HandleLate(events) PROVE Kernel' /\ HeadSent'
  <2>1. SoundVerdicts
    <3>1. CASE revoked
      BY <1>7, <3>1, StatusKept DEF HandleLate
    <3>2. CASE ~revoked
      BY <1>7, <3>2, AcceptIsSound DEF HandleLate, InFlight
    <3> QED BY <3>1, <3>2
  <2>2. late' \subseteq late
    BY <1>7 DEF HandleLate
  <2> QED BY <1>7, <2>1, <2>2, ControllerStep, HeadKept DEF HandleLate
<1>8. ASSUME QueueNotice, pc = "waiting", late' \subseteq late \cup {snap}, UNCHANGED status
      PROVE  Kernel' /\ HeadSent'
  <2>1. result.task = NoTask
    BY <1>8 DEF IInv, TypeOK
  <2>2. HeadSent'
    BY <1>8 DEF QueueNotice, HeadSent
  <2> QED BY <1>8, <2>1, <2>2, EnqueueStep DEF QueueNotice
<1>9. CASE LoseHeartbeat
  BY <1>8, <1>9 DEF LoseHeartbeat
<1>10. CASE ReceiveRefusal
  BY <1>8, <1>10 DEF ReceiveRefusal
<1>11. CASE SendHeartbeat
  <2>1. /\ queue \in Seq(Record) /\ Len(snap') <= Len(queue)
        /\ snap' = SubSeq(queue, 1, Len(snap')) /\ Len(snap') \in Nat
    BY <1>11, ConstantsAssumption DEF SendHeartbeat, Snapshot, IInv, TypeOK
  <2>2. HeadSent'
    BY <1>11, <2>1 DEF SendHeartbeat, HeadSent, NoReply
  <2>3. \A t \in Tasks : t \in Reported(snap') =>
          t \in Reported(queue) /\ (FirstSucceeded(snap', t) <=> FirstSucceeded(queue, t))
    <3> SUFFICES ASSUME NEW n \in Nat, n <= Len(queue)
                 PROVE  \A t \in Tasks : t \in Reported(SubSeq(queue, 1, n)) =>
                          /\ t \in Reported(queue)
                          /\ FirstSucceeded(SubSeq(queue, 1, n), t) <=> FirstSucceeded(queue, t)
      BY <2>1
    <3> QED BY <2>1, PrefixRecords
  <2>4. Reported(snap') \subseteq Tasks
    <3>1. snap' \in Seq(Record)
      BY Typing DEF IInv, TypeOK
    <3> QED BY <3>1, ReportedType
  <2>5. InFlight' \subseteq InFlight \cup {snap'}
    BY <1>11 DEF SendHeartbeat, InFlight
  <2>6. queue \in InFlight
    BY DEF InFlight
  <2>7. Traces'
    BY <1>11, <2>3, <2>4, <2>5, <2>6 DEF SendHeartbeat, IInv, Traces
  <2>8. FirstRecords'
    BY <1>11, <2>3, <2>5, <2>6 DEF SendHeartbeat, IInv, FirstRecords, Faithful, Live
  <2>9. Remembered' /\ RerunOnlyIfDisturbed' /\ VerdictIsFirstAnswer' /\ AnswerIsKept'
    BY <1>11 DEF SendHeartbeat, IInv, Remembered, RerunOnlyIfDisturbed, VerdictIsFirstAnswer,
       AnswerIsKept
  <2> QED BY <2>2, <2>7, <2>8, <2>9 DEF Kernel
<1>12. CASE ReceiveAccepted
  <2>1. HeadSent'
    BY <1>12 DEF ReceiveAccepted, HeadSent
  <2>2. CASE Ack(Len(snap))
    BY <1>12, <2>1, <2>2, AckStep DEF ReceiveAccepted
  <2>3. CASE UNCHANGED queue
    <3>1. result.task = NoTask
      BY <1>12 DEF ReceiveAccepted, IInv, TypeOK
    <3> QED BY <1>12, <2>1, <2>3, <3>1, ForgetStep DEF ReceiveAccepted
  <2> QED BY <1>12, <2>2, <2>3 DEF ReceiveAccepted
<1>13. CASE ReceiveEarly
  <2>1. result.task = NoTask /\ HeadSent'
    BY <1>13 DEF ReceiveEarly, IInv, TypeOK, HeadSent
  <2> QED BY <1>13, <2>1, ForgetStep DEF ReceiveEarly
<1>14. ASSUME NEW t \in Tasks, RejectTask(t) PROVE Kernel' /\ HeadSent'
  <2>1. result.task = NoTask /\ HeadSent'
    BY <1>14 DEF RejectTask, IInv, TypeOK, HeadSent
  <2> QED BY <1>14, <2>1, ForgetStep DEF RejectTask
<1>15. ASSUME NEW t \in Tasks, AnswerCompleted(t) PROVE Kernel' /\ HeadSent'
  <2>1. HeadSent'
    BY <1>15 DEF AnswerCompleted, HeadSent
  <2>2. answer[t] # "none"
    BY <1>15 DEF AnswerCompleted, IInv, Traces
  <2> QED BY <1>15, <2>1, <2>2, AnswerStep DEF AnswerCompleted, Execute
<1>16. ASSUME NEW t \in Tasks, AnswerCooldown(t) PROVE Kernel' /\ HeadSent'
  <2>1. HeadSent'
    BY <1>16 DEF AnswerCooldown, HeadSent
  <2> QED BY <1>16, <2>1, AnswerStep DEF AnswerCooldown, Execute
<1>17. ASSUME NEW t \in Tasks, Perform(t) PROVE Kernel' /\ HeadSent'
  <2>1. HeadSent'
    BY <1>17 DEF Perform, HeadSent
  <2>2. PICK success \in BOOLEAN : Answer(t, success)
    BY <1>17 DEF Perform
  <2> QED BY <1>17, <2>1, <2>2, AnswerStep DEF Perform, Remember, Execute
<1>18. CASE SaveState
  <2>1. HeadSent' /\ InFlight' = InFlight
    BY <1>18 DEF SaveState, HeadSent, InFlight
  <2>2. Traces' /\ FirstRecords'
    BY <1>18, <2>1 DEF SaveState, IInv, Traces, FirstRecords, Faithful, Live
  <2>3. Remembered' /\ RerunOnlyIfDisturbed' /\ VerdictIsFirstAnswer' /\ AnswerIsKept'
    BY <1>18 DEF SaveState, IInv, Remembered, RerunOnlyIfDisturbed, VerdictIsFirstAnswer,
       AnswerIsKept
  <2> QED BY <2>1, <2>2, <2>3 DEF Kernel
<1>19. CASE QueueResult
  <2>1. HeadSent' /\ result'.task = NoTask /\ result \in Record
    BY <1>19 DEF QueueResult, HeadSent, Notice, IInv, TypeOK
  <2>2. CASE Enqueue(result)
    BY <1>19, <2>1, <2>2, EnqueueStep DEF QueueResult
  <2>3. CASE disturbed' = disturbed \cup {result.task} /\ UNCHANGED queue
    BY <1>19, <2>1, <2>3, ForgetStep DEF QueueResult
  <2> QED BY <1>19, <2>2, <2>3 DEF QueueResult
<1>20. ASSUME NEW key \in Keys, CooldownElapses(key) PROVE Kernel' /\ HeadSent'
  <2>1. SoundVerdicts
    BY <1>20, StatusKept DEF CooldownElapses
  <2> QED BY <1>20, <2>1, ControllerStep, HeadKept DEF CooldownElapses
<1>21. CASE Restart
  <2>1. HeadSent' /\ result'.task = NoTask
    BY <1>21 DEF Restart, HeadSent, Notice
  <2> QED BY <1>21, <2>1, ForgetStep DEF Restart
<1>22. CASE UNCHANGED vars
  <2>1. SoundVerdicts
    BY <1>22, StatusKept DEF vars
  <2> QED BY <1>22, <2>1, ControllerStep, HeadKept DEF vars
<1> QED
  BY <1>1, <1>2, <1>3, <1>4, <1>5, <1>6, <1>7, <1>9, <1>10, <1>11, <1>12, <1>13, <1>14,
     <1>15, <1>16, <1>17, <1>18, <1>19, <1>20, <1>21, <1>22 DEF Next, AgentStep

LEMMA Invariance == Spec => []IInv
<1>1. Init => IInv
  BY InitInv
<1>2. IInv /\ [Next]_vars => IInv'
  BY NextInv
<1> QED BY <1>1, <1>2, PTL DEF Spec

\* The verdict of a task is the agent's first answer, however many requests are
\* lost, late or repeated, however often the agent restarts, and whatever the
\* limits of queue, snapshot and batch are.
THEOREM VerdictCorrect == Spec => []VerdictIsFirstAnswer
<1>1. IInv => VerdictIsFirstAnswer
  BY DEF IInv
<1> QED BY <1>1, Invariance, PTL

\* An answer that is not destroyed is kept by the agent until it is recorded.
THEOREM AnswerKept == Spec => []AnswerIsKept
<1>1. IInv => AnswerIsKept
  BY DEF IInv
<1> QED BY <1>1, Invariance, PTL

\* A task is performed at most once unless an answer or a completion is lost.
THEOREM AtMostOnce == Spec => []RerunOnlyIfDisturbed
<1>1. IInv => RerunOnlyIfDisturbed
  BY DEF IInv
<1> QED BY <1>1, Invariance, PTL

-----------------------------------------------------------------------------
(* Verdicts are final.  For a cancelled task this needs that the agent has   *)
(* never heard of it.                                                        *)

Unheard ==
  \A t \in Tasks : status[t] \in {"none", "pending", "cancelled"} =>
    /\ answer[t] = "none"
    /\ t \notin batch
    /\ t \notin reply.tasks

\* What a heartbeat does to the status of one task.
LEMMA AcceptEffect ==
  ASSUME IInv, Unheard, NEW events \in InFlight, Accept(events), NEW t \in Tasks
  PROVE  /\ status[t] \in Terminal \cup {"cancelled"} => status'[t] = status[t]
         /\ status'[t] \in {"none", "pending", "cancelled"} =>
              /\ status[t] = status'[t]
              /\ t \notin Oldest(Deliverable(Recorded(events)))
<1>1. t \in Reported(events) => status[t] \notin {"none", "pending", "cancelled"}
  BY DEF IInv, Traces, Unheard
<1> QED
  BY <1>1 DEF Accept, Delivered, Recorded, Oldest, Deliverable, Open, Terminal, IInv, TypeOK

LEMMA UnheardStep == IInv /\ Unheard /\ [Next]_vars => Unheard'
<1> SUFFICES ASSUME IInv, Unheard, [Next]_vars, NEW t \in Tasks,
                    status'[t] \in {"none", "pending", "cancelled"}
             PROVE  answer'[t] = "none" /\ t \notin batch' /\ t \notin reply'.tasks
  BY DEF Unheard
<1>1. ASSUME status[t] \in {"none", "pending", "cancelled"}
      PROVE  answer[t] = "none" /\ t \notin batch /\ t \notin reply.tasks
  BY <1>1 DEF Unheard
<1>2. ASSUME NEW u \in Tasks, CreateTask(u)
      PROVE  answer'[t] = "none" /\ t \notin batch' /\ t \notin reply'.tasks
  BY <1>1, <1>2 DEF CreateTask, IInv, TypeOK
<1>3. CASE Decommission
  BY <1>1, <1>3 DEF Decommission
<1>4. CASE HandleHeartbeat
  <2>1. status[t] = status'[t] /\ t \notin Oldest(Deliverable(Recorded(snap)))
    BY <1>4, AcceptEffect DEF HandleHeartbeat, InFlight
  <2> QED BY <1>1, <1>4, <2>1 DEF HandleHeartbeat
<1>5. ASSUME NEW events \in late, HandleLate(events)
      PROVE  answer'[t] = "none" /\ t \notin batch' /\ t \notin reply'.tasks
  <2>1. status[t] = status'[t]
    BY <1>5, AcceptEffect DEF HandleLate, InFlight
  <2> QED BY <1>1, <1>5, <2>1 DEF HandleLate
<1>6. ASSUME UNCHANGED status, batch' \subseteq batch \cup reply.tasks,
             reply'.tasks \subseteq reply.tasks, UNCHANGED answer
      PROVE  answer'[t] = "none" /\ t \notin batch' /\ t \notin reply'.tasks
  BY <1>1, <1>6
<1>7. ASSUME NEW u \in Tasks, NEW success, u \in batch, Answer(u, success),
             UNCHANGED <<status, batch, reply>>
      PROVE  answer'[t] = "none" /\ t \notin batch' /\ t \notin reply'.tasks
  BY <1>1, <1>7 DEF Answer, IInv, TypeOK
<1>8. ASSUME NEW u \in Tasks, \/ AnswerCompleted(u)
                              \/ AnswerCooldown(u)
                              \/ Perform(u)
      PROVE  answer'[t] = "none" /\ t \notin batch' /\ t \notin reply'.tasks
  BY <1>7, <1>8 DEF AnswerCompleted, AnswerCooldown, Perform, Execute, NextInBatch
<1>9. ASSUME \/ \E u \in Tasks : Expire(u)
             \/ RefuseHeartbeat
             \/ DeferHeartbeat
             \/ \E key \in Keys : CooldownElapses(key)
             \/ SaveState
             \/ QueueResult
             \/ \E u \in Tasks : RejectTask(u)
             \/ UNCHANGED vars
      PROVE  answer'[t] = "none" /\ t \notin batch' /\ t \notin reply'.tasks
  BY <1>6, <1>9 DEF Expire, RefuseHeartbeat, DeferHeartbeat, CooldownElapses, SaveState,
     QueueResult, RejectTask, vars
<1>10. ASSUME \/ LoseHeartbeat
              \/ ReceiveRefusal
              \/ ReceiveAccepted
              \/ ReceiveEarly
              \/ SendHeartbeat
              \/ Restart
       PROVE  answer'[t] = "none" /\ t \notin batch' /\ t \notin reply'.tasks
  BY <1>6, <1>10 DEF LoseHeartbeat, ReceiveRefusal, QueueNotice, ReceiveAccepted,
     ReceiveEarly, SendHeartbeat, Restart, NoReply
<1> QED
  BY <1>2, <1>3, <1>4, <1>5, <1>8, <1>9, <1>10 DEF Next, AgentStep

LEMMA VerdictStep ==
  ASSUME IInv, Unheard, [Next]_vars, NEW t \in Tasks, status[t] \in Terminal \cup {"cancelled"}
  PROVE  status'[t] = status[t]
<1>1. ASSUME NEW u \in Tasks, CreateTask(u) PROVE status'[t] = status[t]
  BY <1>1 DEF CreateTask, IInv, TypeOK, Terminal
<1>2. CASE Decommission
  BY <1>2 DEF Decommission, Terminal
<1>3. CASE HandleHeartbeat
  BY <1>3, AcceptEffect DEF HandleHeartbeat, InFlight
<1>4. ASSUME NEW events \in late, HandleLate(events) PROVE status'[t] = status[t]
  BY <1>4, AcceptEffect DEF HandleLate, InFlight
<1>5. CASE UNCHANGED status
  BY <1>5
<1> QED
  BY <1>1, <1>2, <1>3, <1>4, <1>5 DEF Next, AgentStep, Expire, RefuseHeartbeat,
     DeferHeartbeat, LoseHeartbeat, QueueNotice, SendHeartbeat, ReceiveRefusal, ReceiveAccepted,
     ReceiveEarly, RejectTask, AnswerCompleted, AnswerCooldown, Perform, SaveState,
     QueueResult, CooldownElapses, Restart, vars

\* A verdict or a cancellation is never revised.
THEOREM FinalVerdict == Spec => VerdictIsFinal
<1>1. Init => Unheard
  BY DEF Init, Unheard, NoReply
<1>2. IInv /\ Unheard /\ [Next]_vars => Unheard'
  BY UnheardStep
<1>3. IInv /\ Unheard /\ [Next]_vars =>
        [\A t \in Tasks :
           status[t] \in Terminal \cup {"cancelled"} => status'[t] = status[t]]_status
  BY VerdictStep
<1> QED BY <1>1, <1>2, <1>3, Invariance, PTL DEF Spec, VerdictIsFinal

-----------------------------------------------------------------------------
(* What the invariant IInv leaves open.  The agent performs what was handed  *)
(* out to it, so that the question is which tasks these may be, while        *)
(* requests it gave up on are handled and conclude some of them.             *)

\* The tasks the agent has been given and is not yet through with.
HandedOut == batch \cup reply.tasks

\* One request is under way at a time, and it carries the head of the queue.
Rounds ==
  /\ reply.tasks # {} => reply.kind = "accepted"
  /\ reply.kind # "none" => pc = "waiting"
  /\ pc = "waiting" => batch = {} /\ snap = Snapshot(SnapshotLimit)

Gone(t) == status[t] \in Terminal \/ t \in disturbed

\* What a request that was given up on may conclude is sent again with the next.
LateHead ==
  \A events \in late : \A t \in Reported(events) :
    Gone(t) \/ t \in Reported(Snapshot(SnapshotLimit))

\* Therefore such a request concludes nothing while the agent has tasks.
LateDone ==
  batch # {} \/ reply.kind = "accepted" =>
    \A events \in late : \A t \in Reported(events) : Gone(t)

OpenBatch == \A t \in HandedOut \ disturbed : status[t] \notin Terminal

\* Every success that is reported is that of a task that was performed.
Contents(events) == {events[i] : i \in DOMAIN events}

Earned(record) == record.success => record.task \in Tasks /\ runs[record.task] > 0

Successes ==
  /\ \A events \in InFlight : \A record \in Contents(events) : Earned(record)
  /\ Earned(result)
  /\ \A t \in completed \cup saved : runs[t] > 0

Concluded ==
  \A t \in Tasks : /\ status[t] \in Terminal => answer[t] # "none"
                   /\ status[t] = "cancelled" => revoked

Created == {t \in Tasks : status[t] # "none"}

Ranks == \A t \in Created : createdAt[t] < Cardinality(Created)

\* Nothing older than a task that was handed out has been left out.
InOrder ==
  \A t \in HandedOut, u \in Created :
    createdAt[u] < createdAt[t] =>
      u \in HandedOut \/ answer[u] # "none" \/ u \in expired \cup stale

Outlook == Rounds /\ LateHead /\ LateDone /\ OpenBatch /\ Successes /\ Concluded /\ Ranks /\ InOrder

OInv == IInv /\ Unheard /\ Outlook

-----------------------------------------------------------------------------
(* What the operations on the queue do to its contents and to its head.      *)

LEMMA ContentsAt ==
  ASSUME NEW events \in Seq(Record)
  PROVE  \A r : r \in Contents(events) <=> \E i \in 1 .. Len(events) : r = events[i]
BY DEF Contents

LEMMA EnqueueContents ==
  ASSUME TypeOK, NEW record \in Record, Enqueue(record)
  PROVE  Contents(queue') \subseteq Contents(queue) \cup {record}
<1> DEFINE records == Append(queue, record)
<1>1. /\ queue \in Seq(Record) /\ records \in Seq(Record) /\ Len(records) = Len(queue) + 1
      /\ Len(queue) \in Nat /\ queue' \in Seq(Record)
      /\ \A i \in 1 .. Len(queue) : records[i] = queue[i]
      /\ records[Len(queue) + 1] = record
  BY EnqueueType DEF TypeOK
<1>2. PICK k \in Trims(records) : queue' = DropFirst(records, k)
  BY DEF Enqueue
<1> HIDE DEF records
<1>3. k \in Nat /\ k <= Len(records)
  BY <1>1, TrimRange
<1>4. /\ Len(queue') = Len(records) - k
      /\ \A i \in 1 .. Len(records) - k : queue'[i] = records[i + k]
  <2>1. /\ Len(DropFirst(records, k)) = Len(records) - k
        /\ \A i \in 1 .. Len(records) - k : DropFirst(records, k)[i] = records[i + k]
    BY <1>1, <1>3, DropFacts, Zenon
  <2> QED BY <1>2, <2>1
<1>5. ASSUME NEW i \in 1 .. Len(queue') PROVE queue'[i] \in Contents(queue) \cup {record}
  <2>1. i + k \in 1 .. Len(queue) + 1 /\ queue'[i] = records[i + k]
    BY <1>1, <1>3, <1>4, <1>5
  <2>2. CASE i + k = Len(queue) + 1
    BY <1>1, <2>1, <2>2
  <2>3. CASE i + k # Len(queue) + 1
    <3>1. i + k \in 1 .. Len(queue)
      BY <1>1, <1>3, <2>1, <2>3
    <3> QED BY <1>1, <2>1, <3>1, ContentsAt
  <2> QED BY <2>2, <2>3
<1> QED BY <1>1, <1>5, ContentsAt

LEMMA DropContents ==
  ASSUME NEW events \in Seq(Record), NEW k \in Nat, k <= Len(events)
  PROVE  Contents(DropFirst(events, k)) \subseteq Contents(events)
<1> DEFINE rest == DropFirst(events, k)
<1>1. Len(events) \in Nat
  OBVIOUS
<1>2. /\ rest \in Seq(Record) /\ Len(rest) = Len(events) - k
      /\ \A i \in 1 .. Len(events) - k : rest[i] = events[i + k]
  BY DropFacts, Zenon
<1> HIDE DEF rest
<1>3. ASSUME NEW i \in 1 .. Len(rest) PROVE rest[i] \in Contents(events)
  <2>1. i + k \in 1 .. Len(events) /\ rest[i] = events[i + k]
    BY <1>1, <1>2, <1>3
  <2> QED BY <2>1, ContentsAt
<1>4. Contents(rest) \subseteq Contents(events)
  BY <1>2, <1>3, ContentsAt
<1> QED BY <1>4 DEF rest

\* The snapshot is a prefix of the queue, as long as the limit allows.
LEMMA SnapshotFacts ==
  ASSUME TypeOK
  PROVE  /\ Snapshot(SnapshotLimit) \in Seq(Record)
         /\ Len(Snapshot(SnapshotLimit)) \in Nat
         /\ Len(Snapshot(SnapshotLimit)) <= Len(queue)
         /\ Len(Snapshot(SnapshotLimit)) <= SnapshotLimit
         /\ \/ Len(Snapshot(SnapshotLimit)) = Len(queue)
            \/ Len(Snapshot(SnapshotLimit)) = SnapshotLimit
         /\ \A i \in 1 .. Len(Snapshot(SnapshotLimit)) : Snapshot(SnapshotLimit)[i] = queue[i]
         /\ Contents(Snapshot(SnapshotLimit)) \subseteq Contents(queue)
<1> DEFINE n == IF Len(queue) > SnapshotLimit THEN SnapshotLimit ELSE Len(queue)
           head == SubSeq(queue, 1, n)
<1>1. queue \in Seq(Record) /\ Len(queue) \in Nat /\ n \in Nat /\ n <= Len(queue) /\ n <= SnapshotLimit
      /\ (n = Len(queue) \/ n = SnapshotLimit)
  BY ConstantsAssumption DEF TypeOK
<1>2. Snapshot(SnapshotLimit) = head
  BY DEF Snapshot
<1> HIDE DEF n
<1>3. head \in Seq(Record) /\ Len(head) = n /\ \A i \in 1 .. n : head[i] = queue[i]
  BY <1>1, PrefixFacts
<1> HIDE DEF head
<1>4. Contents(head) \subseteq Contents(queue)
  <2>1. ASSUME NEW i \in 1 .. Len(head) PROVE head[i] \in Contents(queue)
    <3>1. i \in 1 .. Len(queue) /\ head[i] = queue[i]
      BY <1>1, <1>3, <2>1
    <3> QED BY <1>1, <3>1, ContentsAt
  <2> QED BY <1>3, <2>1, ContentsAt
<1> QED BY <1>1, <1>2, <1>3, <1>4

\* A result near the front of the queue comes no later when another is queued,
\* unless it is dropped.
LEMMA EnqueueHead ==
  ASSUME TypeOK, TypeOK', NEW record \in Record, Enqueue(record), NEW t \in Tasks,
         t \in Reported(Snapshot(SnapshotLimit)), t \notin disturbed'
  PROVE  t \in Reported(Snapshot(SnapshotLimit)')
<1> DEFINE records == Append(queue, record)
           head == Snapshot(SnapshotLimit)
           next == Snapshot(SnapshotLimit)'
<1>1. /\ queue \in Seq(Record) /\ records \in Seq(Record) /\ Len(records) = Len(queue) + 1
      /\ Len(queue) \in Nat
      /\ \A i \in 1 .. Len(queue) : records[i] = queue[i]
  BY DEF TypeOK
<1>2. PICK k \in Trims(records) :
        /\ queue' = DropFirst(records, k)
        /\ disturbed' = disturbed \cup Reported(SubSeq(records, 1, k))
  BY DEF Enqueue
<1> HIDE DEF records
<1>3. k \in Nat /\ k <= Len(records)
  BY <1>1, TrimRange
<1>4. /\ Len(queue') = Len(records) - k
      /\ \A i \in 1 .. Len(records) - k : queue'[i] = records[i + k]
  BY <1>1, <1>2, <1>3, DropFacts
<1>5. /\ head \in Seq(Record) /\ Len(head) \in Nat /\ Len(head) <= Len(queue)
      /\ Len(head) <= SnapshotLimit
      /\ \A i \in 1 .. Len(head) : head[i] = queue[i]
  BY SnapshotFacts
<1>6. /\ next \in Seq(Record) /\ Len(next) \in Nat
      /\ Len(next) = Len(queue') \/ Len(next) = SnapshotLimit
      /\ \A i \in 1 .. Len(next) : next[i] = queue'[i]
  <2>1. /\ (Snapshot(SnapshotLimit) \in Seq(Record))'
        /\ (Len(Snapshot(SnapshotLimit)) \in Nat)'
        /\ (\/ Len(Snapshot(SnapshotLimit)) = Len(queue)
            \/ Len(Snapshot(SnapshotLimit)) = SnapshotLimit)'
        /\ (\A i \in 1 .. Len(Snapshot(SnapshotLimit)) : Snapshot(SnapshotLimit)[i] = queue[i])'
    BY SnapshotFacts, PTL
  <2> QED BY <2>1
<1> HIDE DEF head, next
<1>7. PICK i \in 1 .. Len(head) : head[i].task = t
  BY <1>5, ReportedAt DEF head
<1>8. records[i].task = t /\ i \in Nat /\ 1 <= i /\ i <= Len(queue)
  BY <1>1, <1>5, <1>7
<1>9. k < i
  <2> SUFFICES ASSUME i <= k PROVE FALSE
    BY <1>3, <1>8
  <2>1. /\ SubSeq(records, 1, k) \in Seq(Record) /\ Len(SubSeq(records, 1, k)) = k
        /\ \A j \in 1 .. k : SubSeq(records, 1, k)[j] = records[j]
    BY <1>1, <1>3, PrefixFacts
  <2>2. i \in 1 .. k
    BY <1>3, <1>8
  <2>3. t \in Reported(SubSeq(records, 1, k))
    BY <1>8, <2>1, <2>2, ReportedAt
  <2> QED BY <1>2, <2>3
<1>10. i - k \in 1 .. Len(next) /\ queue'[i - k] = records[i]
  <2>1. i - k \in 1 .. Len(records) - k /\ (i - k) + k = i
    BY <1>1, <1>3, <1>8, <1>9
  <2>2. i - k <= SnapshotLimit
    BY <1>3, <1>5, <1>7, <1>9, ConstantsAssumption
  <2> QED BY <1>4, <1>6, <2>1, <2>2
<1>11. t \in Reported(next)
  BY <1>6, <1>8, <1>10, ReportedAt
<1> QED BY <1>11 DEF next

-----------------------------------------------------------------------------
(* Every conjunct of Outlook is kept.                                        *)

\* The steps at which the agent neither answers nor queues nor is handed tasks.
LEMMA RoundsStep == TypeOK /\ Rounds /\ [Next]_vars => Rounds'
<1> SUFFICES ASSUME TypeOK, Rounds, [Next]_vars PROVE Rounds'
  OBVIOUS
<1> USE DEF Rounds
<1>1. ASSUME pc' # "waiting", reply' = NoReply PROVE Rounds'
  BY <1>1 DEF NoReply
<1>2. ASSUME UNCHANGED <<pc, snap, batch, queue>>, UNCHANGED reply PROVE Rounds'
  BY <1>2 DEF Snapshot
<1>3. ASSUME NEW t \in Tasks, \/ RejectTask(t) \/ AnswerCompleted(t)
                              \/ AnswerCooldown(t) \/ Perform(t)
      PROVE  Rounds'
  BY <1>3 DEF RejectTask, AnswerCompleted, AnswerCooldown, Perform, Execute
<1>4. CASE SendHeartbeat
  BY <1>4 DEF SendHeartbeat, NoReply, Snapshot
<1>5. CASE SaveState \/ QueueResult
  BY <1>5 DEF SaveState, QueueResult
<1>6. CASE HandleHeartbeat \/ RefuseHeartbeat \/ DeferHeartbeat
  BY <1>6 DEF HandleHeartbeat, RefuseHeartbeat, DeferHeartbeat, Snapshot
<1>7. CASE LoseHeartbeat \/ ReceiveRefusal \/ ReceiveAccepted \/ ReceiveEarly \/ Restart
  BY <1>1, <1>7 DEF LoseHeartbeat, ReceiveRefusal, QueueNotice, ReceiveAccepted, ReceiveEarly, Restart
<1>8. ASSUME \/ \E t \in Tasks : CreateTask(t) \/ Expire(t)
             \/ Decommission
             \/ \E events \in late : HandleLate(events)
             \/ \E key \in Keys : CooldownElapses(key)
             \/ UNCHANGED vars
      PROVE  Rounds'
  BY <1>2, <1>8 DEF CreateTask, Expire, Decommission, HandleLate, CooldownElapses, vars
<1> QED BY <1>3, <1>4, <1>5, <1>6, <1>7, <1>8 DEF Next, AgentStep

LEMMA DisturbedStays ==
  ASSUME [Next]_vars
  PROVE  disturbed \subseteq disturbed'
<1>1. ASSUME NEW record, Enqueue(record) PROVE disturbed \subseteq disturbed'
  BY <1>1 DEF Enqueue
<1> QED
  BY <1>1 DEF Next, AgentStep, CreateTask, Expire, Decommission, HandleHeartbeat,
     RefuseHeartbeat, DeferHeartbeat, HandleLate, LoseHeartbeat, QueueNotice, SendHeartbeat,
     ReceiveRefusal, ReceiveAccepted, ReceiveEarly, RejectTask, AnswerCompleted, AnswerCooldown,
     Perform, SaveState, QueueResult, CooldownElapses, Restart, vars

LEMMA GoneStays ==
  ASSUME IInv, Unheard, [Next]_vars, NEW t \in Tasks, Gone(t)
  PROVE  Gone(t)'
BY VerdictStep, DisturbedStays DEF Gone

\* The agent gives a request up while it waits for the reply.
LEMMA LateGrows ==
  ASSUME [Next]_vars
  PROVE  late' \subseteq late \/ (pc = "waiting" /\ late' \subseteq late \cup {snap})
<1>1. ASSUME NEW events \in late, HandleLate(events) PROVE late' \subseteq late
  BY <1>1 DEF HandleLate
<1>2. CASE LoseHeartbeat \/ Restart
  BY <1>2 DEF LoseHeartbeat, Restart
<1> QED
  BY <1>1, <1>2 DEF Next, AgentStep, CreateTask, Expire, Decommission, HandleHeartbeat,
     RefuseHeartbeat, DeferHeartbeat, SendHeartbeat, ReceiveRefusal, ReceiveAccepted,
     ReceiveEarly, RejectTask, AnswerCompleted, AnswerCooldown, Perform, SaveState, QueueResult,
     CooldownElapses, vars

LEMMA LateHeadStep == OInv /\ [Next]_vars => LateHead'
<1> SUFFICES ASSUME OInv, [Next]_vars, NEW events \in late', NEW t \in Reported(events)
             PROVE  Gone(t)' \/ t \in Reported(Snapshot(SnapshotLimit)')
  BY DEF LateHead
<1> USE DEF OInv, Outlook
<1>1. TypeOK /\ TypeOK'
  BY Typing DEF IInv
<1>2. t \in Tasks
  BY <1>1, ReportedType DEF TypeOK
<1>3. Gone(t) => Gone(t)'
  BY <1>2, GoneStays
<1>4. Gone(t) \/ t \in Reported(Snapshot(SnapshotLimit))
  <2>1. events \in late \/ (pc = "waiting" /\ events = snap)
    BY LateGrows
  <2> QED BY <2>1 DEF LateHead, Rounds
<1>5. ASSUME UNCHANGED queue
      PROVE  Gone(t)' \/ t \in Reported(Snapshot(SnapshotLimit)')
  <2>1. Snapshot(SnapshotLimit)' = Snapshot(SnapshotLimit)
    BY <1>5 DEF Snapshot
  <2> QED BY <1>3, <1>4, <2>1
<1>6. ASSUME NEW record \in Record, Enqueue(record)
      PROVE  Gone(t)' \/ t \in Reported(Snapshot(SnapshotLimit)')
  <2>1. CASE t \in disturbed'
    BY <2>1 DEF Gone
  <2>2. CASE t \notin disturbed' /\ t \in Reported(Snapshot(SnapshotLimit))
    BY <1>1, <1>2, <1>6, <2>2, EnqueueHead
  <2> QED BY <1>3, <1>4, <2>1, <2>2
<1>7. CASE ReceiveAccepted
  <2>1. Gone(t)
    BY <1>4, <1>7 DEF ReceiveAccepted, Rounds, IInv, HeadSent, Gone
  <2> QED BY <1>3, <2>1
<1>8. CASE LoseHeartbeat \/ ReceiveRefusal
  BY <1>6, <1>8, NoticeType DEF LoseHeartbeat, ReceiveRefusal, QueueNotice
<1>9. CASE QueueResult
  BY <1>1, <1>5, <1>6, <1>9 DEF QueueResult, TypeOK
<1> QED
  BY <1>5, <1>7, <1>8, <1>9 DEF Next, AgentStep, CreateTask, Expire, Decommission,
     HandleHeartbeat, RefuseHeartbeat, DeferHeartbeat, HandleLate, SendHeartbeat, ReceiveEarly,
     RejectTask, AnswerCompleted, AnswerCooldown, Perform, SaveState, CooldownElapses, Restart, vars

LEMMA LateDoneStep == OInv /\ [Next]_vars => LateDone'
<1> SUFFICES ASSUME OInv, [Next]_vars,
                    batch' # {} \/ reply'.kind = "accepted",
                    NEW events \in late', NEW t \in Reported(events)
             PROVE  Gone(t)'
  BY DEF LateDone
<1> USE DEF OInv, Outlook
<1>1. ASSUME batch # {} \/ reply.kind = "accepted", events \in late PROVE Gone(t)'
  <2>1. t \in Tasks
    BY <1>1, ReportedType DEF IInv, TypeOK
  <2> QED BY <1>1, <2>1, GoneStays DEF LateDone
<1>2. CASE HandleHeartbeat
  <2>1. t \in Tasks /\ events \in late
    BY <1>2, ReportedType DEF HandleHeartbeat, IInv, TypeOK
  <2>2. CASE Gone(t)
    BY <2>1, <2>2, GoneStays
  <2>3. CASE t \in Reported(snap)
    BY <1>2, <2>3, AcceptIsSound DEF HandleHeartbeat, InFlight, Gone
  <2> QED BY <1>2, <2>1, <2>2, <2>3 DEF HandleHeartbeat, LateHead, Rounds
<1>3. CASE LoseHeartbeat \/ ReceiveRefusal \/ ReceiveEarly
  BY <1>3 DEF LoseHeartbeat, ReceiveRefusal, QueueNotice, ReceiveEarly, NoReply, Rounds
<1>4. CASE Restart
  BY <1>4 DEF Restart, NoReply
<1>5. CASE SendHeartbeat
  BY <1>5 DEF SendHeartbeat, NoReply
<1>6. CASE ReceiveAccepted
  BY <1>1, <1>6 DEF ReceiveAccepted
<1>7. ASSUME batch' \subseteq batch, reply'.kind = "accepted" => reply.kind = "accepted",
             late' \subseteq late
      PROVE  Gone(t)'
  BY <1>1, <1>7
<1>8. ASSUME NEW e \in late, HandleLate(e) PROVE Gone(t)'
  BY <1>7, <1>8 DEF HandleLate
<1>9. ASSUME NEW u \in Tasks, \/ CreateTask(u) \/ Expire(u) \/ RejectTask(u)
                              \/ AnswerCompleted(u) \/ AnswerCooldown(u) \/ Perform(u)
      PROVE  Gone(t)'
  BY <1>7, <1>9 DEF CreateTask, Expire, RejectTask, AnswerCompleted, AnswerCooldown, Perform
<1>10. ASSUME \/ Decommission
              \/ RefuseHeartbeat
              \/ DeferHeartbeat
              \/ \E key \in Keys : CooldownElapses(key)
              \/ SaveState
              \/ QueueResult
              \/ UNCHANGED vars
       PROVE  Gone(t)'
  BY <1>7, <1>10 DEF Decommission, RefuseHeartbeat, DeferHeartbeat, CooldownElapses, SaveState,
     QueueResult, vars
<1> QED
  BY <1>2, <1>3, <1>4, <1>5, <1>6, <1>8, <1>9, <1>10 DEF Next, AgentStep

\* A task that is handed out is open, and what was handed out before stays so.
LEMMA OpenBatchStep == OInv /\ [Next]_vars => OpenBatch'
<1> SUFFICES ASSUME OInv, [Next]_vars, NEW t \in Tasks, t \in HandedOut', t \notin disturbed'
             PROVE  status'[t] \notin Terminal
  <2>1. OInv /\ [Next]_vars => HandedOut' \subseteq Tasks
    BY Typing DEF OInv, IInv, TypeOK, HandedOut, Replies
  <2> QED BY <2>1 DEF OpenBatch
<1> USE DEF OInv, Outlook
<1>1. t \notin disturbed
  BY DisturbedStays
<1>2. ASSUME t \in HandedOut PROVE status[t] \notin Terminal
  BY <1>1, <1>2 DEF OpenBatch
<1>3. ASSUME UNCHANGED status, HandedOut' \subseteq HandedOut PROVE status'[t] \notin Terminal
  BY <1>2, <1>3
<1>4. ASSUME NEW events \in InFlight, Accept(events),
             t \in HandedOut => t \notin Reported(events) \/ status[t] \in Terminal,
             t \in HandedOut \/ t \in Oldest(Deliverable(Recorded(events)))
      PROVE  status'[t] \notin Terminal
  BY <1>2, <1>4 DEF Accept, Delivered, Recorded, Oldest, Deliverable, Open, Terminal, IInv, TypeOK
<1>5. CASE HandleHeartbeat
  <2>1. HandedOut = {}
    BY <1>5 DEF HandleHeartbeat, Rounds, HandedOut
  <2>2. t \in Oldest(Deliverable(Recorded(snap)))
    BY <1>5, <2>1 DEF HandleHeartbeat, HandedOut
  <2> QED BY <1>4, <1>5, <2>1, <2>2 DEF HandleHeartbeat, InFlight
<1>6. ASSUME NEW events \in late, HandleLate(events) PROVE status'[t] \notin Terminal
  <2>1. HandedOut' = HandedOut
    BY <1>6 DEF HandleLate, HandedOut
  <2>2. CASE revoked
    BY <1>3, <1>6, <2>1, <2>2 DEF HandleLate
  <2>3. CASE ~revoked
    <3>1. t \in Reported(events) => status[t] \in Terminal
      BY <1>1, <2>1 DEF LateDone, Gone, HandedOut, Rounds
    <3> QED BY <1>4, <1>6, <2>1, <2>3, <3>1 DEF HandleLate, InFlight
  <2> QED BY <2>2, <2>3
<1>7. ASSUME NEW u \in Tasks, CreateTask(u) PROVE status'[t] \notin Terminal
  BY <1>2, <1>7 DEF CreateTask, HandedOut, Terminal, IInv, TypeOK
<1>8. CASE Decommission
  BY <1>2, <1>8 DEF Decommission, HandedOut, Terminal
<1>9. ASSUME NEW u \in Tasks, \/ Expire(u) \/ RejectTask(u)
                              \/ AnswerCompleted(u) \/ AnswerCooldown(u) \/ Perform(u)
      PROVE  status'[t] \notin Terminal
  BY <1>3, <1>9 DEF Expire, RejectTask, AnswerCompleted, AnswerCooldown, Perform, HandedOut
<1>10. ASSUME \/ RefuseHeartbeat
              \/ DeferHeartbeat
              \/ \E key \in Keys : CooldownElapses(key)
              \/ SaveState
              \/ QueueResult
              \/ UNCHANGED vars
       PROVE  status'[t] \notin Terminal
  BY <1>3, <1>10 DEF RefuseHeartbeat, DeferHeartbeat, CooldownElapses, SaveState, QueueResult,
     vars, HandedOut
<1>11. CASE LoseHeartbeat \/ ReceiveRefusal \/ ReceiveAccepted \/ ReceiveEarly \/ SendHeartbeat
            \/ Restart
  BY <1>3, <1>11 DEF LoseHeartbeat, ReceiveRefusal, QueueNotice, ReceiveAccepted, ReceiveEarly,
     SendHeartbeat, Restart, NoReply, HandedOut
<1> QED BY <1>5, <1>6, <1>7, <1>8, <1>9, <1>11, <1>10 DEF Next, AgentStep

LEMMA SuccessesStep == OInv /\ [Next]_vars => Successes'
<1> SUFFICES ASSUME OInv, [Next]_vars PROVE Successes'
  OBVIOUS
<1> USE DEF OInv, Outlook
<1>1. /\ TypeOK /\ TypeOK' /\ queue \in InFlight /\ snap \in InFlight /\ late \subseteq InFlight
      /\ Earned(Notice) /\ Contents(<<>>) = {}
  BY Typing DEF IInv, InFlight, Earned, Notice, Contents
<1>2. ASSUME UNCHANGED runs, NEW r, Earned(r) PROVE Earned(r)'
  BY <1>2 DEF Earned
<1>3. ASSUME UNCHANGED runs,
             Contents(queue') \subseteq Contents(queue) \cup {result, Notice},
             Contents(snap') \subseteq Contents(queue) \cup Contents(snap),
             late' \subseteq late \cup {snap},
             result' \in {result, Notice},
             completed' \subseteq completed \cup saved, saved' \subseteq completed \cup saved
      PROVE  Successes'
  <2>1. \A events \in InFlight : \A r \in Contents(events) : Earned(r)
    BY DEF Successes
  <2>2. \A r \in Contents(queue) \cup {result, Notice} : Earned(r)
    BY <1>1, <2>1 DEF Successes
  <2>3. ASSUME NEW events \in InFlight', NEW r \in Contents(events) PROVE Earned(r)
    BY <1>1, <1>3, <2>1, <2>2, <2>3 DEF InFlight
  <2> QED BY <1>2, <1>3, <2>2, <2>3 DEF Successes
<1>4. ASSUME NEW record \in {result, Notice}, Enqueue(record)
      PROVE  Contents(queue') \subseteq Contents(queue) \cup {result, Notice}
  BY <1>1, <1>4, NoticeType, EnqueueContents DEF TypeOK
<1>5. CASE LoseHeartbeat \/ ReceiveRefusal
  BY <1>1, <1>3, <1>4, <1>5 DEF LoseHeartbeat, ReceiveRefusal, QueueNotice
<1>6. CASE QueueResult
  BY <1>1, <1>3, <1>4, <1>6 DEF QueueResult
<1>7. CASE SendHeartbeat
  BY <1>1, <1>3, <1>7, SnapshotFacts DEF SendHeartbeat
<1>8. CASE ReceiveAccepted
  <2>1. CASE Ack(Len(snap))
    <3>1. Len(snap) \in Nat /\ Len(snap) <= Len(queue) /\ queue' = DropFirst(queue, Len(snap))
      BY <1>1, <1>8, <2>1 DEF ReceiveAccepted, IInv, HeadSent, Ack, TypeOK
    <3>2. Contents(queue') \subseteq Contents(queue)
      BY <1>1, <3>1, DropContents DEF TypeOK
    <3> QED BY <1>1, <1>3, <1>8, <3>2 DEF ReceiveAccepted
  <2> QED BY <1>1, <1>3, <1>8, <2>1 DEF ReceiveAccepted
<1>9. CASE Restart \/ ReceiveEarly \/ SaveState
  BY <1>1, <1>3, <1>9 DEF Restart, ReceiveEarly, SaveState
<1>10. ASSUME Earned(result)',
              \A u \in Tasks : runs[u] > 0 => runs'[u] > 0,
              \A u \in completed' : u \in completed \/ runs'[u] > 0,
              UNCHANGED <<queue, snap, late, saved>>
       PROVE  Successes'
  <2>1. InFlight' = InFlight
    BY <1>10 DEF InFlight
  <2>2. \A r : Earned(r) => Earned(r)'
    BY <1>10 DEF Earned
  <2>3. \A u \in completed \cup saved : u \in Tasks
    BY <1>1 DEF TypeOK
  <2> QED BY <1>10, <2>1, <2>2, <2>3 DEF Successes
<1>11. ASSUME NEW t \in Tasks, AnswerCompleted(t) PROVE Successes'
  <2>1. Earned(result)' /\ \A u \in Tasks : runs[u] > 0 => runs'[u] > 0
    BY <1>11 DEF AnswerCompleted, Answer, Earned, Successes
  <2> QED BY <1>10, <1>11, <2>1 DEF AnswerCompleted
<1>12. ASSUME NEW t \in Tasks, AnswerCooldown(t) PROVE Successes'
  <2>1. Earned(result)' /\ \A u \in Tasks : runs[u] > 0 => runs'[u] > 0
    BY <1>12 DEF AnswerCooldown, Answer, Earned
  <2> QED BY <1>10, <1>12, <2>1 DEF AnswerCooldown
<1>13. ASSUME NEW t \in Tasks, Perform(t) PROVE Successes'
  <2>1. runs'[t] > 0 /\ \A u \in Tasks : runs[u] > 0 => runs'[u] > 0
    BY <1>1, <1>13 DEF Perform, TypeOK
  <2>2. Earned(result)'
    BY <1>13, <2>1 DEF Perform, Answer, Earned
  <2> QED BY <1>10, <1>13, <2>1, <2>2 DEF Perform, Remember
<1>14. ASSUME NEW t \in Tasks, CreateTask(t) \/ Expire(t) \/ RejectTask(t) PROVE Successes'
  BY <1>3, <1>14 DEF CreateTask, Expire, RejectTask
<1>15. ASSUME \/ Decommission
              \/ HandleHeartbeat
              \/ RefuseHeartbeat
              \/ DeferHeartbeat
              \/ \E events \in late : HandleLate(events)
              \/ \E key \in Keys : CooldownElapses(key)
              \/ UNCHANGED vars
       PROVE  Successes'
  BY <1>3, <1>15 DEF Decommission, HandleHeartbeat, RefuseHeartbeat, DeferHeartbeat, HandleLate,
     CooldownElapses, vars
<1> QED
  BY <1>5, <1>6, <1>7, <1>8, <1>9, <1>11, <1>12, <1>14, <1>15, <1>13 DEF Next, AgentStep

\* What becomes of one task when a heartbeat is handled.
LEMMA AcceptStatus ==
  ASSUME IInv, NEW events \in InFlight, Accept(events), NEW t \in Tasks
  PROVE  IF t \in Reported(events) /\ status[t] \notin Terminal
           THEN /\ status'[t] = (IF FirstSucceeded(events, t) THEN "succeeded" ELSE "failed")
                /\ answer[t] # "none"
           ELSE \/ status'[t] = status[t]
                \/ status[t] \in Open /\ status'[t] = "delivered"
BY DEF Accept, Delivered, Recorded, Oldest, Deliverable, Open, Terminal, IInv, TypeOK, Traces

\* The first answer of a task stays.
LEMMA AnswerStays ==
  ASSUME TypeOK, [Next]_vars, NEW t \in Tasks, answer[t] # "none"
  PROVE  answer'[t] = answer[t]
<1>1. ASSUME NEW u \in Tasks, NEW success, Answer(u, success) PROVE answer'[t] = answer[t]
  BY <1>1 DEF Answer, TypeOK
<1> QED
  BY <1>1 DEF Next, AgentStep, CreateTask, Expire, Decommission, HandleHeartbeat, RefuseHeartbeat,
     DeferHeartbeat, HandleLate, LoseHeartbeat, QueueNotice, SendHeartbeat, ReceiveRefusal,
     ReceiveAccepted, ReceiveEarly, RejectTask, AnswerCompleted, AnswerCooldown, Perform,
     SaveState, QueueResult, CooldownElapses, Restart, vars

\* The four ways in which the table of the controller changes.
LEMMA ControllerSteps ==
  ASSUME [Next]_vars
  PROVE  \/ \E t \in Tasks : CreateTask(t)
         \/ Decommission
         \/ \E events \in InFlight : /\ Accept(events) /\ ~revoked
                                     /\ UNCHANGED <<createdAt, revoked, answer, expired, batch, stale>>
                                     /\ \/ UNCHANGED reply
                                        \/ HandleHeartbeat /\ events = snap
         \/ UNCHANGED <<status, createdAt, revoked>>
<1>1. CASE HandleHeartbeat
  <2>1. snap \in InFlight
    BY DEF InFlight
  <2> QED BY <1>1, <2>1 DEF HandleHeartbeat
<1>2. ASSUME NEW events \in late, HandleLate(events)
      PROVE  \/ \E e \in InFlight : /\ Accept(e) /\ ~revoked
                                    /\ UNCHANGED <<createdAt, revoked, answer, expired, batch, stale>>
                                    /\ UNCHANGED reply
             \/ UNCHANGED <<status, createdAt, revoked>>
  <2>1. events \in InFlight
    BY DEF InFlight
  <2> QED BY <1>2, <2>1 DEF HandleLate
<1> QED
  BY <1>1, <1>2 DEF Next, AgentStep, Expire, RefuseHeartbeat, DeferHeartbeat, LoseHeartbeat,
     QueueNotice, SendHeartbeat, ReceiveRefusal, ReceiveAccepted, ReceiveEarly, RejectTask,
     AnswerCompleted, AnswerCooldown, Perform, SaveState, QueueResult, CooldownElapses, Restart, vars

LEMMA ConcludedStep == OInv /\ [Next]_vars => Concluded'
<1> SUFFICES ASSUME OInv, [Next]_vars, NEW t \in Tasks
             PROVE  /\ status'[t] \in Terminal => answer'[t] # "none"
                    /\ status'[t] = "cancelled" => revoked'
  BY DEF Concluded
<1> USE DEF OInv, Outlook
<1>1. answer[t] # "none" => answer'[t] # "none"
  BY AnswerStays DEF IInv
<1>2. /\ status[t] \in Terminal => answer[t] # "none"
      /\ status[t] = "cancelled" => revoked
  BY DEF Concluded
<1>3. ASSUME NEW u \in Tasks, CreateTask(u)
      PROVE  (status'[t] = status[t] \/ status'[t] = "pending") /\ revoked' = revoked
  BY <1>3 DEF CreateTask, IInv, TypeOK
<1>4. CASE Decommission
  BY <1>1, <1>2, <1>4 DEF Decommission, Terminal
<1>5. ASSUME NEW events \in InFlight, Accept(events), UNCHANGED revoked
      PROVE  /\ status'[t] \in Terminal => answer'[t] # "none"
             /\ status'[t] = "cancelled" => revoked'
  BY <1>1, <1>2, <1>5, AcceptStatus DEF Terminal
<1>6. CASE UNCHANGED <<status, revoked>>
  BY <1>1, <1>2, <1>6
<1> QED BY <1>1, <1>2, <1>3, <1>4, <1>5, <1>6, ControllerSteps DEF Terminal

\* The rows of the table are numbered in the order of their creation.
LEMMA CreatedFacts ==
  ASSUME TypeOK, NEW t \in Tasks, CreateTask(t)
  PROVE  /\ Created' = Created \cup {t} /\ t \notin Created
         /\ createdAt'[t] = Cardinality(Created)
         /\ Cardinality(Created) \in Nat
         /\ Cardinality(Created') = Cardinality(Created) + 1
         /\ \A u \in Created : createdAt'[u] = createdAt[u]
<1>1. Created' = Created \cup {t} /\ t \notin Created
  BY DEF CreateTask, Created, TypeOK
<1>2. createdAt' = [createdAt EXCEPT ![t] = Cardinality(Created)]
  BY DEF CreateTask, Created
<1>3. IsFiniteSet(Created) /\ Cardinality(Created) \in Nat
  BY FS_Subset, FS_CardinalityType, ConstantsAssumption DEF Created
<1>4. Cardinality(Created') = Cardinality(Created) + 1
  BY <1>1, <1>3, FS_AddElement
<1>5. createdAt'[t] = Cardinality(Created) /\ \A u \in Created : createdAt'[u] = createdAt[u]
  BY <1>1, <1>2 DEF TypeOK, Created
<1> QED BY <1>1, <1>3, <1>4, <1>5

\* A heartbeat reports no task that was never created.
LEMMA AcceptCreated ==
  ASSUME IInv, Unheard, NEW events \in InFlight, Accept(events)
  PROVE  Created' = Created
<1>1. ASSUME NEW t \in Tasks PROVE status'[t] = "none" <=> status[t] = "none"
  <2>1. ASSUME status[t] = "none" PROVE status'[t] = "none"
    <3>1. answer[t] = "none" /\ status[t] \notin Terminal /\ status[t] \notin Open
      BY <2>1 DEF Unheard, Terminal, Open
    <3>2. status'[t] = status[t]
      BY <3>1, AcceptStatus
    <3> QED BY <2>1, <3>2
  <2>2. ASSUME status'[t] = "none" PROVE status[t] = "none"
    BY <2>2, AcceptEffect
  <2> QED BY <2>1, <2>2
<1> QED BY <1>1 DEF Created

LEMMA RanksStep == OInv /\ [Next]_vars => Ranks'
<1> SUFFICES ASSUME OInv, [Next]_vars PROVE Ranks'
  OBVIOUS
<1> USE DEF OInv, Outlook
<1>1. ASSUME Created' = Created, UNCHANGED createdAt PROVE Ranks'
  BY <1>1 DEF Ranks
<1>2. ASSUME NEW t \in Tasks, CreateTask(t) PROVE Ranks'
  <2>1. /\ Created' = Created \cup {t}
        /\ createdAt'[t] = Cardinality(Created)
        /\ Cardinality(Created) \in Nat
        /\ Cardinality(Created') = Cardinality(Created) + 1
        /\ \A u \in Created : createdAt'[u] = createdAt[u]
    BY <1>2, CreatedFacts DEF IInv
  <2>2. \A u \in Created : createdAt[u] \in Nat /\ createdAt[u] < Cardinality(Created)
    BY DEF Ranks, Created, IInv, TypeOK
  <2>3. ASSUME NEW u \in Created' PROVE createdAt'[u] < Cardinality(Created')
    BY <2>1, <2>2
  <2> QED BY <2>3 DEF Ranks
<1>3. CASE Decommission
  <2>1. Created' = Created
    BY <1>3 DEF Decommission, Created
  <2> QED BY <1>1, <1>3, <2>1 DEF Decommission
<1>4. ASSUME NEW events \in InFlight, Accept(events), UNCHANGED createdAt PROVE Ranks'
  BY <1>1, <1>4, AcceptCreated
<1>5. CASE UNCHANGED <<status, createdAt>>
  BY <1>1, <1>5 DEF Created
<1> QED BY <1>2, <1>3, <1>4, <1>5, ControllerSteps

\* Oldest takes with a task every older one.
LEMMA OldestIsPrefix ==
  ASSUME TypeOK, NEW D \in SUBSET Tasks, NEW t \in Oldest(D), NEW u \in D,
         createdAt[u] < createdAt[t]
  PROVE  u \in Oldest(D)
<1> DEFINE Older(v) == {w \in D : createdAt[w] < createdAt[v]}
<1>1. t \in D /\ t \in Tasks /\ u \in Tasks /\ createdAt \in [Tasks -> Nat]
  BY DEF Oldest, TypeOK
<1>2. Older(u) \subseteq Older(t)
  BY <1>1
<1>3. IsFiniteSet(Older(t)) /\ IsFiniteSet(Older(u))
  BY <1>1, FS_Subset, ConstantsAssumption
<1>4. /\ Cardinality(Older(t)) \in Nat /\ Cardinality(Older(u)) \in Nat
      /\ Cardinality(Older(u)) <= Cardinality(Older(t))
  BY <1>2, <1>3, FS_Subset, FS_CardinalityType
<1>5. Cardinality(Older(t)) < BatchLimit
  BY DEF Oldest
<1>6. Cardinality(Older(u)) < BatchLimit
  BY <1>4, <1>5, ConstantsAssumption
<1> QED BY <1>6 DEF Oldest

LEMMA TimePasses ==
  ASSUME [Next]_vars
  PROVE  expired \subseteq expired' /\ stale \subseteq stale'
<1>1. ASSUME NEW t \in Tasks, Expire(t) PROVE expired \subseteq expired' /\ stale \subseteq stale'
  BY <1>1 DEF Expire
<1> QED
  BY <1>1 DEF Next, AgentStep, CreateTask, Decommission, HandleHeartbeat, RefuseHeartbeat,
     DeferHeartbeat, HandleLate, LoseHeartbeat, QueueNotice, SendHeartbeat, ReceiveRefusal,
     ReceiveAccepted, ReceiveEarly, RejectTask, AnswerCompleted, AnswerCooldown, Perform,
     SaveState, QueueResult, CooldownElapses, Restart, vars

\* Every task that is neither withdrawn nor answered nor expired is handed out,
\* the oldest first.
LEMMA InOrderStep == OInv /\ [Next]_vars => InOrder'
<1> SUFFICES ASSUME OInv, [Next]_vars PROVE InOrder'
  OBVIOUS
<1> USE DEF OInv, Outlook
<1>1. /\ TypeOK /\ HandedOut \subseteq Created /\ Created \subseteq Tasks
      /\ \A t \in HandedOut : createdAt[t] \in Nat
  BY DEF HandedOut, Created, Unheard, IInv, TypeOK, Replies
<1>2. ASSUME UNCHANGED createdAt, Created' = Created, HandedOut' \subseteq HandedOut,
             \A v \in HandedOut \ HandedOut' : answer[v] # "none" \/ v \in expired \cup stale
      PROVE  InOrder'
  <2> SUFFICES ASSUME NEW t \in HandedOut', NEW u \in Created', createdAt'[u] < createdAt'[t]
               PROVE  u \in HandedOut' \/ answer'[u] # "none" \/ u \in expired' \cup stale'
    BY DEF InOrder
  <2>1. u \in HandedOut' \/ answer[u] # "none" \/ u \in expired \cup stale
    BY <1>2 DEF InOrder
  <2>2. answer[u] # "none" => answer'[u] # "none"
    BY <1>1, <1>2, AnswerStays
  <2> QED BY <2>1, <2>2, TimePasses
<1>3. ASSUME NEW v \in Tasks, CreateTask(v) PROVE InOrder'
  <2>1. /\ Created' = Created \cup {v} /\ v \notin Created
        /\ createdAt'[v] = Cardinality(Created) /\ Cardinality(Created) \in Nat
        /\ \A u \in Created : createdAt'[u] = createdAt[u]
    BY <1>1, <1>3, CreatedFacts
  <2>2. HandedOut' = HandedOut /\ UNCHANGED <<answer, expired, stale>>
    BY <1>3 DEF CreateTask, HandedOut
  <2>3. \A t \in HandedOut : createdAt'[t] = createdAt[t] /\ createdAt[t] < Cardinality(Created)
    BY <1>1, <2>1 DEF Ranks
  <2>4. ASSUME NEW t \in HandedOut, NEW u \in Created', createdAt'[u] < createdAt'[t]
        PROVE  u \in Created /\ createdAt[u] < createdAt[t]
    BY <1>1, <2>1, <2>3, <2>4
  <2> QED BY <2>2, <2>4 DEF InOrder
<1>4. CASE Decommission
  <2>1. Created' = Created /\ HandedOut' = HandedOut
    BY <1>4 DEF Decommission, Created, HandedOut
  <2> QED BY <1>2, <1>4, <2>1 DEF Decommission
<1>5. CASE HandleHeartbeat
  <2> DEFINE D == Deliverable(Recorded(snap))
  <2>1. HandedOut' = Oldest(D) /\ D \subseteq Tasks
    BY <1>5 DEF HandleHeartbeat, Rounds, HandedOut, Deliverable
  <2>2. snap \in InFlight /\ Accept(snap) /\ ~revoked
        /\ UNCHANGED <<createdAt, answer, expired, stale>>
    BY <1>5 DEF HandleHeartbeat, InFlight
  <2>3. Created' = Created
    BY <2>2, AcceptCreated
  <2>4. ASSUME NEW u \in Created PROVE u \in D \/ answer[u] # "none" \/ u \in expired
    <3>1. status[u] \in Terminal => answer[u] # "none"
      BY <1>1 DEF Concluded
    <3>2. status[u] # "cancelled" /\ status[u] # "none" /\ status[u] \in Statuses
      BY <1>1, <2>2 DEF Concluded, Created, TypeOK
    <3>3. u \in Reported(snap) => answer[u] # "none"
      BY <2>2 DEF IInv, Traces
    <3>4. u \notin Reported(snap) => Recorded(snap)[u] = status[u]
      BY <1>1 DEF Recorded
    <3> QED BY <1>1, <3>1, <3>2, <3>3, <3>4 DEF Deliverable, Statuses
  <2> HIDE DEF D
  <2>5. ASSUME NEW t \in Oldest(D), NEW u \in Created, createdAt[u] < createdAt[t]
        PROVE  u \in Oldest(D) \/ answer[u] # "none" \/ u \in expired
    BY <1>1, <2>1, <2>4, <2>5, OldestIsPrefix
  <2> QED BY <2>1, <2>2, <2>3, <2>5 DEF InOrder
<1>6. ASSUME NEW events \in late, HandleLate(events) PROVE InOrder'
  <2>1. events \in InFlight /\ HandedOut' = HandedOut
    BY <1>6 DEF HandleLate, HandedOut, InFlight
  <2>2. Created' = Created
    BY <1>6, <2>1, AcceptCreated DEF HandleLate, Created
  <2> QED BY <1>2, <1>6, <2>1, <2>2 DEF HandleLate
<1>7. ASSUME UNCHANGED <<status, createdAt>>, HandedOut' \subseteq HandedOut,
             \A v \in HandedOut \ HandedOut' : answer[v] # "none" \/ v \in expired \cup stale
      PROVE  InOrder'
  <2>1. Created' = Created
    BY <1>7 DEF Created
  <2> QED BY <1>2, <1>7, <2>1
<1>8. ASSUME NEW v \in Tasks, \/ Expire(v) \/ RejectTask(v)
                              \/ AnswerCompleted(v) \/ AnswerCooldown(v) \/ Perform(v)
      PROVE  InOrder'
  <2>1. HandedOut' \subseteq HandedOut /\ HandedOut \ HandedOut' \subseteq stale
    BY <1>8 DEF Expire, RejectTask, AnswerCompleted, AnswerCooldown, Perform, HandedOut
  <2> QED
    BY <1>7, <1>8, <2>1 DEF Expire, RejectTask, AnswerCompleted, AnswerCooldown, Perform
<1>9. CASE QueueResult
  <2>1. answer[result.task] # "none"
    BY <1>1, <1>9 DEF QueueResult, IInv, Traces, TypeOK
  <2>2. HandedOut' \subseteq HandedOut /\ HandedOut \ HandedOut' \subseteq {result.task}
    BY <1>9 DEF QueueResult, HandedOut
  <2> QED BY <1>7, <1>9, <2>1, <2>2 DEF QueueResult
<1>10. ASSUME HandedOut' = {} PROVE InOrder'
  BY <1>10 DEF InOrder
<1>11. CASE LoseHeartbeat \/ ReceiveRefusal \/ ReceiveEarly \/ SendHeartbeat \/ Restart
  <2>1. HandedOut' = {}
    BY <1>11 DEF LoseHeartbeat, ReceiveRefusal, QueueNotice, ReceiveEarly, SendHeartbeat, Restart,
       NoReply, HandedOut, Rounds
  <2> QED BY <1>10, <2>1
<1>12. CASE ReceiveAccepted
  <2>1. HandedOut' = HandedOut
    BY <1>12 DEF ReceiveAccepted, NoReply, HandedOut, Rounds
  <2> QED BY <1>7, <1>12, <2>1 DEF ReceiveAccepted
<1>13. ASSUME \/ RefuseHeartbeat
              \/ DeferHeartbeat
              \/ \E key \in Keys : CooldownElapses(key)
              \/ SaveState
              \/ UNCHANGED vars
       PROVE  InOrder'
  <2>1. HandedOut' \subseteq HandedOut /\ HandedOut \subseteq HandedOut' \cup reply.tasks
    BY <1>13 DEF RefuseHeartbeat, DeferHeartbeat, CooldownElapses, SaveState, vars, HandedOut
  <2>2. reply.tasks \subseteq HandedOut'
    BY <1>13 DEF RefuseHeartbeat, DeferHeartbeat, CooldownElapses, SaveState, vars, HandedOut, Rounds
  <2> QED
    BY <1>7, <1>13, <2>1, <2>2 DEF RefuseHeartbeat, DeferHeartbeat, CooldownElapses, SaveState, vars
<1> QED
  BY <1>3, <1>4, <1>5, <1>6, <1>8, <1>9, <1>11, <1>12, <1>13 DEF Next, AgentStep

LEMMA InitOutlook == Init => OInv
<1> SUFFICES ASSUME Init PROVE OInv
  OBVIOUS
<1>1. IInv /\ Unheard
  BY InitInv DEF Init, Unheard, NoReply
<1>2. Rounds /\ HandedOut = {}
  BY DEF Init, Rounds, NoReply, HandedOut
<1>3. LateHead /\ LateDone
  BY DEF Init, LateHead, LateDone
<1>4. Created = {} /\ Concluded
  BY DEF Init, Created, Concluded, Terminal
<1>5. Successes
  <2>1. \A events \in InFlight : Contents(events) = {}
    BY DEF Init, InFlight, Contents
  <2> QED BY <2>1 DEF Init, Successes, Earned, Notice
<1>6. OpenBatch /\ Ranks /\ InOrder
  BY <1>2, <1>4 DEF OpenBatch, Ranks, InOrder
<1> QED BY <1>1, <1>2, <1>3, <1>4, <1>5, <1>6 DEF OInv, Outlook

LEMMA OutlookInvariance == Spec => []OInv
<1>1. Init => OInv
  BY InitOutlook
<1>2. OInv /\ [Next]_vars => OInv'
  <2> SUFFICES ASSUME OInv, [Next]_vars PROVE OInv'
    OBVIOUS
  <2>1. IInv' /\ Unheard'
    BY NextInv, UnheardStep DEF OInv
  <2>2. Outlook'
    BY RoundsStep, LateHeadStep, LateDoneStep, OpenBatchStep, SuccessesStep, ConcludedStep,
       RanksStep, InOrderStep DEF OInv, Outlook, IInv
  <2> QED BY <2>1, <2>2 DEF OInv
<1> QED BY <1>1, <1>2, PTL DEF Spec

\* When the action of a task is performed, every older task has been answered or
\* has expired: no request handled late and no reply that was lost changes the
\* order, whatever the size of a batch.
THEOREM InCreationOrder == Spec => OldestFirst
<1>1. OInv /\ [Next]_vars =>
        [\A t, u \in Tasks :
           /\ runs'[t] > runs[t]
           /\ status[u] # "none"
           /\ createdAt[u] < createdAt[t]
           => answer[u] # "none" \/ u \in expired \cup stale]_runs
  <2> SUFFICES ASSUME OInv, [Next]_vars, NEW t \in Tasks, NEW u \in Tasks,
                      runs'[t] > runs[t], status[u] # "none", createdAt[u] < createdAt[t]
               PROVE  answer[u] # "none" \/ u \in expired \cup stale
    OBVIOUS
  <2> USE DEF OInv, Outlook
  <2>1. runs \in [Tasks -> Nat] /\ createdAt \in [Tasks -> Nat] /\ batch \subseteq Tasks
    BY DEF IInv, TypeOK
  <2>2. ASSUME NEW v \in Tasks, Perform(v)
        PROVE  answer[u] # "none" \/ u \in expired \cup stale
    <3>1. v = t
      BY <2>1, <2>2 DEF Perform
    <3>2. t \in batch /\ u \notin batch
      BY <2>1, <2>2, <3>1 DEF Perform, Execute, NextInBatch
    <3>3. reply.tasks = {}
      BY <2>2 DEF Perform, Execute, Rounds
    <3> QED BY <3>2, <3>3 DEF InOrder, HandedOut, Created
  <2>3. \/ \E v \in Tasks : Perform(v)
        \/ UNCHANGED runs
    BY DEF Next, AgentStep, CreateTask, Expire, Decommission, HandleHeartbeat, RefuseHeartbeat,
       DeferHeartbeat, HandleLate, LoseHeartbeat, QueueNotice, SendHeartbeat, ReceiveRefusal,
       ReceiveAccepted, ReceiveEarly, RejectTask, AnswerCompleted, AnswerCooldown, SaveState,
       QueueResult, CooldownElapses, Restart, vars
  <2> QED BY <2>1, <2>2, <2>3
<1> QED BY <1>1, OutlookInvariance, PTL DEF Spec, OldestFirst

-----------------------------------------------------------------------------
(* The channel implements TaskOutcome, step by step.                         *)

verdict == [t \in Tasks |-> IF status[t] \in Open THEN "open" ELSE status[t]]
performed == {t \in Tasks : runs[t] > 0}

\* Writing to the queue destroys at most the answers that are in it.
LEMMA EnqueueDisturbs ==
  ASSUME TypeOK, NEW record \in Record, Enqueue(record)
  PROVE  \E S \in SUBSET (Reported(queue) \cup ({record.task} \ {NoTask})) :
           disturbed' = disturbed \cup S
<1> DEFINE records == Append(queue, record)
<1>1. records \in Seq(Record) /\ queue \in Seq(Record) /\ Len(records) \in Nat
  BY DEF TypeOK
<1>2. PICK k \in Trims(records) : disturbed' = disturbed \cup Reported(SubSeq(records, 1, k))
  BY DEF Enqueue
<1>3. \A t \in Tasks : t \in Reported(records) <=> t \in Reported(queue) \/ record.task = t
  BY <1>1, AppendRecords
<1> HIDE DEF records
<1>4. k \in Nat /\ k <= Len(records)
  BY <1>1, TrimRange
<1>5. /\ SubSeq(records, 1, k) \in Seq(Record) /\ Len(SubSeq(records, 1, k)) = k
      /\ \A i \in 1 .. k : SubSeq(records, 1, k)[i] = records[i]
  BY <1>1, <1>4, PrefixFacts
<1>6. ASSUME NEW t \in Reported(SubSeq(records, 1, k))
      PROVE  t \in Reported(queue) \cup ({record.task} \ {NoTask})
  <2>1. t \in Tasks
    BY <1>5, ReportedType
  <2>2. PICK i \in 1 .. k : SubSeq(records, 1, k)[i].task = t
    BY <1>5, <2>1, ReportedAt
  <2>3. i \in 1 .. Len(records) /\ records[i].task = t
    BY <1>1, <1>4, <1>5, <2>2
  <2>4. t \in Reported(records)
    BY <1>1, <2>1, <2>3, ReportedAt
  <2> QED BY <1>3, <2>1, <2>4, ConstantsAssumption
<1> QED BY <1>2, <1>6

LEMMA InitOutcome == Init => Outcome!Init
BY DEF Init, Outcome!Init, Open

\* A heartbeat that is handled concludes what it reports.
LEMMA AcceptConcludes ==
  ASSUME OInv, NEW events \in InFlight, Accept(events), UNCHANGED <<answer, runs, disturbed>>
  PROVE  Outcome!Next
<1> DEFINE S == {t \in Reported(events) : status[t] \notin Terminal}
           W == {t \in S : FirstSucceeded(events, t)}
<1> USE DEF OInv, Outlook
<1>1. events \in Seq(Record) /\ Reported(events) \subseteq Tasks
  BY ReportedType DEF InFlight, IInv, TypeOK
<1>2. ASSUME NEW t \in S PROVE status[t] \in Open /\ answer[t] # "none"
  <2>1. answer[t] # "none" /\ t \in Tasks
    BY <1>1 DEF IInv, Traces
  <2> QED BY <2>1 DEF Unheard, IInv, TypeOK, Statuses, Open, Terminal
<1>3. ASSUME NEW t \in S \ disturbed PROVE t \in W <=> answer[t] = "ok"
  BY <1>1 DEF IInv, FirstRecords, Faithful, Live
<1>4. ASSUME NEW t \in W PROVE t \in performed
  <2>1. PICK i \in DOMAIN events : events[i].task = t /\ events[i].success
    BY DEF FirstSucceeded
  <2>2. Earned(events[i])
    BY DEF Successes, Contents
  <2> QED BY <1>1, <2>1, <2>2 DEF Earned, performed
<1>5. ASSUME NEW t \in Tasks
      PROVE  (IF status'[t] \in Open THEN "open" ELSE status'[t])
               = (IF t \in W THEN "succeeded" ELSE IF t \in S THEN "failed"
                  ELSE IF status[t] \in Open THEN "open" ELSE status[t])
  BY AcceptStatus DEF Open
<1> HIDE DEF S, W
<1>6. S \in SUBSET Tasks /\ W \in SUBSET Tasks /\ W \subseteq S
  BY <1>1 DEF S, W
<1>7. PICK A \in SUBSET Tasks, B \in SUBSET Tasks : A = S /\ B = W
  BY <1>6
<1>8. Outcome!Conclude(A, B)
  <2>1. \A t \in A : verdict[t] = "open" /\ answer[t] # "none"
    BY <1>2, <1>6, <1>7 DEF verdict
  <2>2. verdict' = [t \in Tasks |-> IF t \in B THEN "succeeded"
                                   ELSE IF t \in A THEN "failed" ELSE verdict[t]]
    BY <1>5, <1>7 DEF verdict
  <2> QED
    BY <1>3, <1>4, <1>6, <1>7, <2>1, <2>2, Zenon DEF Outcome!Conclude, performed, verdict
<1> QED BY <1>8 DEF Outcome!Next

\* An answer of the agent is the first or changes nothing.
LEMMA AnswerFirst ==
  ASSUME TypeOK, NEW t \in Tasks, NEW success \in BOOLEAN, Answer(t, success)
  PROVE  \E a \in {"ok", "failed"} : (success <=> a = "ok") /\ Outcome!FirstAnswer(t, a)
<1>1. CASE success
  BY <1>1 DEF Answer, Outcome!FirstAnswer
<1>2. CASE ~success
  BY <1>2 DEF Answer, Outcome!FirstAnswer
<1> QED BY <1>1, <1>2

LEMMA OutcomeStep == OInv /\ [Next]_vars => [Outcome!Next]_(Outcome!vars)
<1> DEFINE Implemented == [Outcome!Next]_(Outcome!vars)
<1> SUFFICES ASSUME OInv, [Next]_vars PROVE Implemented
  OBVIOUS
<1> USE DEF OInv, Outlook
<1>1. TypeOK /\ TypeOK'
  BY Typing DEF IInv
<1>2. ASSUME UNCHANGED <<status, answer, runs, disturbed>> PROVE UNCHANGED Outcome!vars
  BY <1>2 DEF Outcome!vars
<1>3. ASSUME NEW t \in Tasks, CreateTask(t) PROVE Outcome!Next
  <2>1. Outcome!Issue(t)
    BY <1>1, <1>3 DEF CreateTask, Outcome!Issue, TypeOK, Open
  <2> QED BY <2>1 DEF Outcome!Next
<1>4. CASE Decommission
  <2> PICK S \in SUBSET Tasks : S = {t \in Tasks : status[t] = "pending"}
    OBVIOUS
  <2>1. Outcome!Cancel(S)
    BY <1>1, <1>4 DEF Decommission, Outcome!Cancel, Unheard, TypeOK, Open
  <2> QED BY <2>1 DEF Outcome!Next
<1>5. CASE HandleHeartbeat
  BY <1>5, AcceptConcludes DEF HandleHeartbeat, InFlight
<1>6. ASSUME NEW events \in late, HandleLate(events) PROVE [Outcome!Next]_(Outcome!vars)
  <2>1. CASE revoked
    BY <1>2, <1>6, <2>1 DEF HandleLate
  <2>2. CASE ~revoked
    BY <1>6, <2>2, AcceptConcludes DEF HandleLate, InFlight
  <2> QED BY <2>1, <2>2
<1>7. ASSUME NEW t \in batch
      PROVE  Outcome!Workable(t)
  <2>1. t \in Tasks /\ status[t] \in Open \cup Terminal
    BY <1>1 DEF TypeOK, Unheard, Statuses, Open
  <2>2. t \notin disturbed => status[t] \notin Terminal
    BY DEF OpenBatch, HandedOut
  <2> QED BY <2>1, <2>2 DEF Outcome!Workable, Outcome!Terminal, Open, Terminal
<1>8. ASSUME NEW t \in Tasks, Perform(t) PROVE Outcome!Next
  <2>1. t \in batch /\ t \notin completed
    BY <1>8 DEF Perform, Execute, NextInBatch
  <2>2. runs[t] > 0 => t \in disturbed
    BY <2>1 DEF IInv, Remembered
  <2>3. \E a \in {"ok", "failed"} : Outcome!FirstAnswer(t, a)
    BY <1>1, <1>8, AnswerFirst DEF Perform
  <2>4. performed' = performed \cup {t}
    BY <1>1, <1>8 DEF Perform, TypeOK, performed
  <2>5. UNCHANGED <<status, disturbed>>
    BY <1>8 DEF Perform
  <2>6. Outcome!Perform(t)
    BY <1>7, <2>1, <2>2, <2>3, <2>4, <2>5 DEF Outcome!Perform, performed
  <2> QED BY <2>6 DEF Outcome!Next
<1>9. ASSUME NEW t \in Tasks, AnswerCooldown(t) PROVE Outcome!Next
  <2>1. t \in batch
    BY <1>9 DEF AnswerCooldown, Execute, NextInBatch
  <2>2. Outcome!FirstAnswer(t, "failed")
    BY <1>1, <1>9, AnswerFirst DEF AnswerCooldown
  <2>3. Outcome!Refuse(t)
    BY <1>7, <1>9, <2>1, <2>2 DEF AnswerCooldown, Outcome!Refuse
  <2> QED BY <2>3 DEF Outcome!Next
<1>10. ASSUME NEW t \in Tasks, AnswerCompleted(t) PROVE UNCHANGED Outcome!vars
  <2>1. answer[t] # "none"
    BY <1>10 DEF AnswerCompleted, IInv, Traces
  <2>2. UNCHANGED <<status, answer, runs, disturbed>>
    BY <1>10, <2>1 DEF AnswerCompleted, Answer
  <2> QED BY <1>2, <2>2
<1>11. ASSUME NEW S \in SUBSET Tasks, \A t \in S : answer[t] # "none",
              disturbed' = disturbed \cup S, UNCHANGED <<status, answer, runs>>
       PROVE  Outcome!Next
  <2>1. Outcome!Disturb(S)
    BY <1>11 DEF Outcome!Disturb
  <2> QED BY <2>1 DEF Outcome!Next
<1>12. ASSUME NEW record \in Record, Enqueue(record), UNCHANGED <<status, answer, runs>>,
              record.task # NoTask => answer[record.task] # "none"
       PROVE  Outcome!Next
  <2>1. PICK S \in SUBSET (Reported(queue) \cup ({record.task} \ {NoTask})) :
          disturbed' = disturbed \cup S
    BY <1>1, <1>12, EnqueueDisturbs
  <2>2. S \in SUBSET Tasks
    BY <1>1, ReportedType DEF TypeOK, Record
  <2>3. \A t \in S : answer[t] # "none"
    BY <1>12, <2>1 DEF IInv, Traces, InFlight
  <2> QED BY <1>11, <1>12, <2>1, <2>2, <2>3
<1>13. CASE LoseHeartbeat \/ ReceiveRefusal
  BY <1>12, <1>13, NoticeType DEF LoseHeartbeat, ReceiveRefusal, QueueNotice, Notice
<1>14. CASE QueueResult
  <2>1. result \in Record /\ result.task \in Tasks /\ answer[result.task] # "none"
    BY <1>1, <1>14 DEF QueueResult, IInv, Traces, TypeOK, Record
  <2>2. UNCHANGED <<status, answer, runs>>
    BY <1>14 DEF QueueResult
  <2>3. CASE Enqueue(result)
    BY <1>12, <2>1, <2>2, <2>3
  <2>4. CASE disturbed' = disturbed \cup {result.task}
    <3> PICK S \in SUBSET Tasks : S = {result.task}
      BY <2>1
    <3> QED BY <1>11, <2>1, <2>2, <2>4
  <2> QED BY <1>14, <2>3, <2>4 DEF QueueResult
<1>15. CASE Restart
  <2> DEFINE S == (completed \ saved) \cup ({result.task} \ {NoTask})
  <2>1. S \in SUBSET Tasks /\ \A t \in S : answer[t] # "none"
    BY <1>1 DEF IInv, Traces, TypeOK, Record
  <2>2. disturbed' = disturbed \cup S /\ UNCHANGED <<status, answer, runs>>
    BY <1>15 DEF Restart
  <2> QED BY <1>11, <2>1, <2>2
<1>16. ASSUME NEW t \in Tasks, Expire(t) \/ RejectTask(t) PROVE UNCHANGED Outcome!vars
  BY <1>2, <1>16 DEF Expire, RejectTask
<1>17. ASSUME \/ RefuseHeartbeat
              \/ DeferHeartbeat
              \/ SendHeartbeat
              \/ ReceiveAccepted
              \/ ReceiveEarly
              \/ SaveState
              \/ \E key \in Keys : CooldownElapses(key)
              \/ UNCHANGED vars
       PROVE  UNCHANGED Outcome!vars
  BY <1>2, <1>17 DEF RefuseHeartbeat, DeferHeartbeat, SendHeartbeat, ReceiveAccepted,
     ReceiveEarly, SaveState, CooldownElapses, vars
<1>18. ASSUME NEW t \in Tasks, \/ CreateTask(t) \/ Expire(t) \/ RejectTask(t)
                                \/ AnswerCompleted(t) \/ AnswerCooldown(t) \/ Perform(t)
       PROVE  Implemented
  BY <1>3, <1>8, <1>9, <1>10, <1>16, <1>18
<1>19. ASSUME \/ Decommission
              \/ HandleHeartbeat
              \/ \E events \in late : HandleLate(events)
              \/ LoseHeartbeat
              \/ ReceiveRefusal
              \/ QueueResult
              \/ Restart
       PROVE  Implemented
  BY <1>4, <1>5, <1>6, <1>13, <1>14, <1>15, <1>19
<1>20. UNCHANGED Outcome!vars => Implemented
  OBVIOUS
<1> HIDE DEF Implemented
<1> QED BY <1>17, <1>18, <1>19, <1>20 DEF Next, AgentStep

\* What the rest of the controller relies on: a task is concluded with its first
\* answer, is performed again only if a trace of it was destroyed, succeeds only
\* if it was performed, and is withdrawn only while the agent has not heard of it.
THEOREM ImplementsTaskOutcome == Spec => ImplementsOutcome
<1>1. Init => Outcome!Init
  BY InitOutcome
<1>2. OInv /\ [Next]_vars => [Outcome!Next]_(Outcome!vars)
  BY OutcomeStep
<1> QED
  BY <1>1, <1>2, OutlookInvariance, PTL DEF Spec, ImplementsOutcome, Outcome!Spec
=============================================================================
