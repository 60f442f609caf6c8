----------------------------- MODULE Host_proofs -----------------------------
(***************************************************************************)
(* Theorems about what runs on one host.                                   *)
(*                                                                         *)
(* NetHelper: a signed task works once, reports never go back, no byte is  *)
(* counted twice but by the two steps known to do so, and none is missed   *)
(* but by the failures known to lose some, for any requests and any number *)
(* of bytes and failures.                                                  *)
(*                                                                         *)
(* AgentLifecycle: an agent that is not revoked has one active identity,   *)
(* and the host does not stay on a retiring one nor a session without its  *)
(* script unless an answer or a process was lost, for any number of        *)
(* identities, tokens and sessions.                                        *)
(***************************************************************************)
EXTENDS NetHelper, AgentLifecycle, FiniteSetTheorems, TLAPS

USE DEF kernelVars, processVars, historyVars,
        identityVars, controllerVars, hostVars, enrollVars, maintVars

-----------------------------------------------------------------------------
(* The inductive invariant. *)

Acting == Requests \ Dry

\* What the helper is asked, and how the state it is going to write follows
\* from the file.
Working ==
  /\ pc = "restore" => request = NoRequest
  /\ pc \in {"apply", "undo", "save"} => request \in Acting
  /\ disk.present => disk.generation >= 1
  /\ pc # "idle" /\ mem.present => mem.generation >= 1
  /\ rebuilt => pc \in {"commit", "undo", "save"} /\ request \notin Dry
  /\ pc # "idle" /\ request \notin Acting => mem.present = disk.present
  /\ pc # "idle" /\ disk.present /\ mem.present =>
       /\ mem.lifetime >= disk.lifetime
       /\ \/ mem.generation = disk.generation /\ mem.start = disk.start
          \/ request \in Acting /\ mem.generation = disk.generation + 1

\* A request that changed the policy is in the file until it has expired, and
\* stays there whatever the helper writes.
Nonces ==
  /\ \A r \in Requests : commits[r] <= 1
  /\ \A r \in Requests : commits[r] = 1 => r \in disk.used \cup expired
  /\ pc # "idle" => disk.used \subseteq mem.used \cup expired
  /\ pc # "idle" /\ request \in Requests => commits[request] = 0 /\ request \in mem.used

\* What was reported is in the file.
Durable ==
  /\ reported.generation = 0 => reported = Nothing
  /\ disk.present => reported.generation <= disk.generation
  /\ disk.present /\ reported.generation = disk.generation =>
       reported.lifetime <= disk.lifetime /\ reported.start = disk.start

\* The bytes of s and of a counter are among those that passed; if the counter
\* is behind the mark it has been restarted, and all of it is new.
Within(s, bytes, total) ==
  /\ s.lifetime + Unread(s, bytes) <= total
  /\ bytes < s.last => s.lifetime + bytes <= total

\* The lifetime of the baseline.
Base == disk.lifetime + Unread(disk, raw)

Counted ==
  /\ ~doubled => table <= 1
  /\ disk.present /\ ~doubled => Within(disk, counter, passed)
  /\ pc \in {"restore", "apply"} /\ disk.present /\ ~doubled => Base <= passed
  /\ pc = "restore" /\ mem.present => mem.last = 0 /\ mem.lifetime = Base
  /\ pc = "commit" /\ request = NoRequest /\ mem.present /\ ~doubled => Within(mem, counter, passed)
  /\ pc = "commit" /\ request \in Dry /\ mem.present => mem.last = 0
  /\ pc = "commit" /\ request \in Dry /\ mem.present /\ ~doubled /\ raw = 0 /\ disk.last = 0 =>
       mem.lifetime + counter <= passed
  /\ pc \in {"apply", "commit", "undo"} /\ request \in Acting /\ mem.present =>
       mem.last = 0 /\ mem.lifetime = IF disk.present THEN Base ELSE 0
  /\ pc \in {"commit", "undo", "save"} /\ request \in Acting /\ disk.present /\ ~doubled =>
       Base + counter <= passed
  /\ pc = "commit" /\ request \in Acting /\ ~disk.present /\ mem.present /\ ~doubled =>
       counter <= passed

IInv == TypeOK /\ Working /\ Nonces /\ Durable /\ Counted

-----------------------------------------------------------------------------
(* The operators on states. *)

LEMMA SetPeriod ==
  ASSUME NEW s \in State, NEW t, t = [s EXCEPT !.start = s.lifetime, !.generation = s.generation + 1]
  PROVE  /\ t \in State
         /\ t.present = s.present
         /\ t.lifetime = s.lifetime
         /\ t.last = s.last
         /\ t.start = s.lifetime
         /\ t.generation = s.generation + 1
         /\ t.used = s.used
<1> DEFINE u == [s EXCEPT !.start = s.lifetime]
<1>1. /\ u \in State /\ u.present = s.present /\ u.lifetime = s.lifetime /\ u.start = s.lifetime
      /\ u.generation = s.generation /\ u.used = s.used /\ u.last = s.last
  BY DEF State
<1>2. t = [u EXCEPT !.generation = s.generation + 1]
  OBVIOUS
<1>3. s.generation + 1 \in Nat
  BY DEF State
<1> HIDE DEF u
<1> QED BY <1>1, <1>2, <1>3 DEF State

LEMMA EmptyUsed ==
  ASSUME NEW used \in SUBSET Requests, NEW t, t = [Empty EXCEPT !.used = used]
  PROVE /\ t \in State /\ t.present = FALSE /\ t.lifetime = 0 /\ t.last = 0 /\ t.start = 0 /\ t.generation = 0 /\ t.used = used
BY DEF State, Empty

LEMMA UnreadType ==
  ASSUME NEW s \in State, NEW bytes \in Nat
  PROVE  Unread(s, bytes) \in Nat
BY DEF Unread, State

LEMMA AbsorbFacts ==
  ASSUME NEW s \in State, s.start <= s.lifetime, NEW bytes \in Nat
  PROVE  /\ Absorb(s, bytes) \in State
         /\ Absorb(s, bytes).present = s.present
         /\ Absorb(s, bytes).generation = s.generation
         /\ Absorb(s, bytes).start = s.start
         /\ Absorb(s, bytes).used = s.used
         /\ Absorb(s, bytes).start <= Absorb(s, bytes).lifetime
         /\ Absorb(s, bytes).lifetime >= s.lifetime
         /\ s.present => /\ Absorb(s, bytes).lifetime = s.lifetime + Unread(s, bytes)
                         /\ Absorb(s, bytes).last = 0
<1> DEFINE n == Unread(s, bytes)
<1>1. n \in Nat
  BY UnreadType
<1>2. s.lifetime \in Nat /\ s.start \in Nat /\ s.present \in BOOLEAN
  BY DEF State
<1>3. CASE s.present
  <2> DEFINE t == Absorb(s, bytes)
         x == s.lifetime + n
         u == [s EXCEPT !.lifetime = x]
  <2>1. t = [u EXCEPT !.last = 0]
    BY <1>3 DEF Absorb
  <2>2. x \in Nat /\ x >= s.lifetime
    BY <1>1, <1>2
  <2>3. /\ u \in State /\ u.present = s.present /\ u.lifetime = x
        /\ u.start = s.start /\ u.generation = s.generation /\ u.used = s.used
    <3> HIDE DEF x
    <3> QED BY <2>2 DEF State
  <2> HIDE DEF t, n, x, u
  <2>4. /\ t \in State /\ t.present = s.present /\ t.lifetime = x /\ t.last = 0
        /\ t.start = s.start /\ t.generation = s.generation /\ t.used = s.used
    BY <2>1, <2>2, <2>3 DEF State
  <2> QED BY <1>1, <1>2, <2>2, <2>4 DEF t, n, x
<1>4. CASE ~s.present
  <2>1. Absorb(s, bytes) = s
    BY <1>4 DEF Absorb
  <2> QED BY <1>2, <1>4, <2>1
<1> QED BY <1>3, <1>4

LEMMA CountFacts ==
  ASSUME NEW s \in State, s.start <= s.lifetime, NEW bytes \in Nat
  PROVE  /\ Count(s, bytes) \in State
         /\ Count(s, bytes).present = s.present
         /\ Count(s, bytes).generation = s.generation
         /\ Count(s, bytes).start = s.start
         /\ Count(s, bytes).used = s.used
         /\ Count(s, bytes).start <= Count(s, bytes).lifetime
         /\ Count(s, bytes).lifetime >= s.lifetime
         /\ s.present /\ bytes >= s.last =>
              /\ Count(s, bytes).lifetime = s.lifetime + Unread(s, bytes)
              /\ Count(s, bytes).last = bytes
         /\ bytes < s.last => Count(s, bytes) = s
<1> DEFINE n == Unread(s, bytes)
<1>1. n \in Nat
  BY UnreadType
<1>2. s \in State /\ s.lifetime \in Nat /\ s.last \in Nat /\ s.start \in Nat /\ s.present \in BOOLEAN
  BY DEF State
<1>3. CASE s.present /\ bytes >= s.last
  <2> DEFINE t == Count(s, bytes)
         x == s.lifetime + n
         u == [s EXCEPT !.lifetime = x]
  <2>1. t = [u EXCEPT !.last = bytes]
    BY <1>3 DEF Count
  <2>2. x \in Nat /\ x >= s.lifetime
    BY <1>1, <1>2
  <2>3. /\ u \in State /\ u.present = s.present /\ u.lifetime = x
        /\ u.start = s.start /\ u.generation = s.generation /\ u.used = s.used
    <3> HIDE DEF x
    <3> QED BY <2>2 DEF State
  <2> HIDE DEF t, n, x, u
  <2>4. /\ t \in State /\ t.present = s.present /\ t.lifetime = x /\ t.last = bytes
        /\ t.start = s.start /\ t.generation = s.generation /\ t.used = s.used
    BY <2>1, <2>2, <2>3 DEF State
  <2> QED BY <1>1, <1>2, <1>3, <2>2, <2>4 DEF t, n, x
<1>4. CASE ~(s.present /\ bytes >= s.last)
  <2>1. Count(s, bytes) = s
    BY <1>4 DEF Count
  <2> QED BY <1>2, <1>4, <2>1
<1> QED BY <1>3, <1>4

LEMMA ConsumeFacts ==
  ASSUME NEW s \in State, NEW r \in Requests
  PROVE  /\ Consume(s, r) \in State
         /\ Consume(s, r).present = s.present
         /\ Consume(s, r).generation = s.generation
         /\ Consume(s, r).start = s.start
         /\ Consume(s, r).lifetime = s.lifetime
         /\ Consume(s, r).last = s.last
         /\ r \in Consume(s, r).used
         /\ s.used \subseteq Consume(s, r).used \cup expired
BY DEF Consume, State

LEMMA DesiredFacts ==
  ASSUME NEW s \in State, s.start <= s.lifetime, NEW r \in Requests
  PROVE  /\ Desired(s, r) \in State
         /\ Desired(s, r).start <= Desired(s, r).lifetime
         /\ Desired(s, r).used = s.used
         /\ s.present /\ Desired(s, r).present =>
              /\ Desired(s, r).lifetime = s.lifetime
              /\ Desired(s, r).last = s.last
              /\ \/ Desired(s, r).generation = s.generation /\ Desired(s, r).start = s.start
                 \/ Desired(s, r).generation = s.generation + 1
         /\ ~s.present /\ Desired(s, r).present /\ Operation[r] # "reset" =>
              /\ Desired(s, r).lifetime = 0
              /\ Desired(s, r).last = 0
              /\ Desired(s, r).generation >= 1
<1> DEFINE t == Desired(s, r)
<1>1. /\ s.used \in SUBSET Requests /\ s.lifetime \in Nat /\ s.start \in Nat
      /\ s.present \in BOOLEAN
  BY DEF State
<1>2. CASE Operation[r] = "apply" /\ s.present
  BY <1>1, <1>2 DEF Desired, Created
<1>3. CASE Operation[r] = "apply" /\ ~s.present
  <2>1. Generation[r] \in Nat /\ Generation[r] >= 1
    BY ConstantsAssumption
  <2>2. t = [present |-> TRUE, lifetime |-> 0, last |-> 0, start |-> 0,
             generation |-> Generation[r], used |-> s.used]
    BY <1>3 DEF Desired, Created
  <2> HIDE DEF t
  <2>3. /\ t \in State /\ t.lifetime = 0 /\ t.last = 0 /\ t.start = 0
        /\ t.generation >= 1 /\ t.used = s.used
    BY <1>1, <2>1, <2>2 DEF State
  <2> QED BY <1>3, <2>3 DEF t
<1>4. CASE Operation[r] = "remove"
  <2>1. t = [Empty EXCEPT !.used = s.used]
    BY <1>4 DEF Desired, Removed
  <2> HIDE DEF t
  <2>2. /\ t \in State /\ t.lifetime = 0 /\ t.last = 0 /\ t.start = 0
        /\ ~t.present /\ t.used = s.used
    BY <1>1, <2>1, EmptyUsed
  <2> QED BY <1>4, <2>2 DEF t
<1>5. CASE Operation[r] = "reset"
  <2>1. t = [s EXCEPT !.start = s.lifetime, !.generation = s.generation + 1]
    BY <1>5 DEF Desired, Restarted
  <2> HIDE DEF t
  <2>2. /\ t \in State /\ t.lifetime = s.lifetime /\ t.last = s.last /\ t.start = s.lifetime
        /\ t.generation = s.generation + 1 /\ t.used = s.used /\ t.present = s.present
    BY <2>1, SetPeriod
  <2> QED BY <1>1, <1>5, <2>2 DEF t
<1> QED BY <1>1, <1>2, <1>3, <1>4, <1>5, ConstantsAssumption

LEMMA BaselineFacts ==
  ASSUME TypeOK
  PROVE  /\ Baseline \in State
         /\ Baseline.present = disk.present
         /\ Baseline.generation = disk.generation
         /\ Baseline.start = disk.start
         /\ Baseline.used = mem.used
         /\ Baseline.start <= Baseline.lifetime
         /\ Baseline.lifetime >= disk.lifetime
         /\ disk.present => Baseline.lifetime = Base /\ Baseline.last = 0
<1>1. /\ disk \in State /\ disk.start <= disk.lifetime /\ raw \in Nat
      /\ mem.used \in SUBSET Requests
  BY DEF TypeOK, State
<1> DEFINE a == Absorb(disk, raw)
<1>2. Baseline = [a EXCEPT !.used = mem.used]
  BY DEF Baseline
<1>3. /\ a \in State /\ a.present = disk.present /\ a.generation = disk.generation
      /\ a.start = disk.start /\ a.start <= a.lifetime /\ a.lifetime >= disk.lifetime
      /\ disk.present => a.lifetime = Base /\ a.last = 0
  BY <1>1, AbsorbFacts DEF Base
<1> HIDE DEF a
<1> QED BY <1>1, <1>2, <1>3 DEF State

-----------------------------------------------------------------------------
(* Type correctness. *)

LEMMA EmptyFacts == Empty \in State /\ ~Empty.present /\ Empty.start <= Empty.lifetime
BY DEF Empty, State

LEMMA SeenType ==
  ASSUME NEW s \in State
  PROVE  Seen(s) \in Observation /\ Nothing \in Observation
BY DEF Seen, State, Observation, Nothing

LEMMA FaultType == ASSUME TypeOK, Fault PROVE faults' \in Nat
BY DEF TypeOK, Fault

LEMMA ExitType ==
  ASSUME Exit
  PROVE  /\ pc' = "idle" /\ request' = NoRequest /\ raw' \in Nat /\ rebuilt' \in BOOLEAN
         /\ mem' \in State /\ mem'.start <= mem'.lifetime
BY EmptyFacts DEF Exit

\* The types of the kernel after applyNetwork, however it ends.
LEMMA KernelType ==
  ASSUME TypeOK, NEW before \in BOOLEAN, NEW after \in BOOLEAN,
         Refused(before, after) \/ Built(before, after) \/ RolledBack(before, after)
  PROVE  /\ table' \in Nat
         /\ counter' \in {counter, 0}
         /\ counter' \in Nat
         /\ qdisc' \in {"none", "ours", "foreign"}
         /\ table' = 0 => counter' = 0
         /\ faults' \in Nat
<1>1. CASE Refused(before, after)
  BY <1>1, FaultType DEF Refused, TypeOK
<1>2. CASE Built(before, after)
  BY <1>2, FaultType DEF Built, Rules, Added, Qdisc, TypeOK
<1>3. CASE RolledBack(before, after)
  BY <1>3, FaultType DEF RolledBack, Rules, Added, Qdisc, TypeOK
<1> QED BY <1>1, <1>2, <1>3

LEMMA ReadSnapshotMem ==
  ASSUME TypeOK, ReadSnapshot
  PROVE  /\ pc = "idle" /\ request' = NoRequest /\ raw' = counter /\ raw' \in Nat
         /\ mem' \in State /\ mem'.start <= mem'.lifetime
         /\ pc' \in {"commit", "restore"}
         /\ faults' \in Nat
<1>1. disk \in State /\ disk.start <= disk.lifetime /\ counter \in Nat
  BY DEF TypeOK
<1>2. /\ Count(disk, counter) \in State
      /\ Count(disk, counter).start <= Count(disk, counter).lifetime
  BY <1>1, CountFacts
<1>3. /\ Absorb(disk, counter) \in State
      /\ Absorb(disk, counter).start <= Absorb(disk, counter).lifetime
  BY <1>1, AbsorbFacts
<1>4. faults' \in Nat
  BY FaultType DEF ReadSnapshot, TypeOK
<1> QED BY <1>1, <1>2, <1>3, <1>4 DEF ReadSnapshot

LEMMA LostType ==
  ASSUME TypeOK
  PROVE  Unwritten \in Nat /\ (counter' \in {counter, 0} => Missed \in Nat /\ counter - counter' \in Nat)
<1>1. disk \in State /\ raw \in Nat /\ counter \in Nat /\ disk.last \in Nat
  BY DEF TypeOK, State
<1>2. Unread(disk, raw) \in Nat
  BY <1>1, UnreadType
<1> QED BY <1>1, <1>2 DEF Unwritten, Missed

LEMMA BeginRequestMem ==
  ASSUME TypeOK, NEW r \in Requests, BeginRequest(r)
  PROVE  /\ raw' \in {counter, 0} /\ raw' \in Nat
         /\ mem' \in State /\ mem'.start <= mem'.lifetime
         /\ r \in mem'.used
         /\ disk.used \subseteq mem'.used \cup expired
         /\ r \in Dry => /\ mem'.present = disk.present
                         /\ mem'.generation = disk.generation /\ mem'.start = disk.start
                         /\ mem'.lifetime >= disk.lifetime
                         /\ disk.present => /\ mem'.last = 0
                                            /\ mem'.lifetime = disk.lifetime + Unread(disk, raw')
         /\ r \in Acting /\ disk.present /\ mem'.present =>
              /\ mem'.lifetime >= disk.lifetime
              /\ mem'.last = 0 /\ mem'.lifetime = disk.lifetime + Unread(disk, raw')
              /\ \/ mem'.generation = disk.generation /\ mem'.start = disk.start
                 \/ mem'.generation = disk.generation + 1
         /\ r \in Acting /\ ~disk.present /\ mem'.present =>
              mem'.last = 0 /\ mem'.lifetime = 0 /\ mem'.generation >= 1
<1> DEFINE a == Absorb(disk, raw')
           d == Desired(a, r)
<1>1. /\ disk \in State /\ disk.start <= disk.lifetime
      /\ raw' \in {counter, 0} /\ raw' \in Nat
  BY DEF TypeOK, BeginRequest
<1>2. /\ a \in State /\ a.present = disk.present /\ a.generation = disk.generation
      /\ a.start = disk.start /\ a.used = disk.used /\ a.start <= a.lifetime
      /\ a.lifetime >= disk.lifetime
      /\ disk.present => a.lifetime = disk.lifetime + Unread(disk, raw') /\ a.last = 0
  BY <1>1, AbsorbFacts
<1>3. CASE r \in Dry
  <2>1. mem' = Consume(a, r)
    BY <1>3 DEF BeginRequest
  <2> HIDE DEF a
  <2>2. /\ mem' \in State /\ mem'.present = a.present /\ mem'.generation = a.generation
        /\ mem'.start = a.start /\ mem'.lifetime = a.lifetime /\ mem'.last = a.last
        /\ r \in mem'.used /\ a.used \subseteq mem'.used \cup expired
    BY <1>2, <2>1, ConsumeFacts
  <2> QED BY <1>1, <1>2, <1>3, <2>2 DEF Acting
<1>4. CASE r \notin Dry
  <2>1. mem' = Consume(d, r) /\ (Operation[r] = "reset" => disk.present)
    BY <1>4 DEF BeginRequest
  <2> HIDE DEF a
  <2>2. /\ d \in State /\ d.start <= d.lifetime /\ d.used = a.used
        /\ a.present /\ d.present => /\ d.lifetime = a.lifetime /\ d.last = a.last
                                     /\ \/ d.generation = a.generation /\ d.start = a.start
                                        \/ d.generation = a.generation + 1
        /\ ~a.present /\ d.present /\ Operation[r] # "reset" =>
             d.lifetime = 0 /\ d.last = 0 /\ d.generation >= 1
    BY <1>2, DesiredFacts
  <2> HIDE DEF d
  <2>3. /\ mem' \in State /\ mem'.present = d.present /\ mem'.generation = d.generation
        /\ mem'.start = d.start /\ mem'.lifetime = d.lifetime /\ mem'.last = d.last
        /\ r \in mem'.used /\ d.used \subseteq mem'.used \cup expired
    BY <2>1, <2>2, ConsumeFacts
  <2> QED BY <1>1, <1>2, <1>4, <2>1, <2>2, <2>3
<1> QED BY <1>3, <1>4

LEMMA TypeNext ==
  ASSUME TypeOK, [Next]_vars
  PROVE  TypeOK'
<1> USE DEF TypeOK
<1>0. CASE UNCHANGED vars
  BY <1>0 DEF vars
<1>1. CASE Traffic
  BY <1>1 DEF Traffic
<1>2. CASE DeleteTable
  BY <1>2, FaultType DEF DeleteTable, Rules
<1>3. CASE ChangeQdisc
  BY <1>3, FaultType DEF ChangeQdisc
<1>4. ASSUME NEW r \in Requests, Expire(r)
      PROVE  TypeOK'
  BY <1>4 DEF Expire
<1>5. ASSUME NEW r \in Requests, BeginRequest(r)
      PROVE  TypeOK'
  <2>1. mem' \in State /\ mem'.start <= mem'.lifetime /\ raw' \in Nat
    BY <1>5, BeginRequestMem
  <2>2. faults' \in Nat
    BY <1>5, FaultType DEF BeginRequest
  <2> QED BY <1>5, <2>1, <2>2 DEF BeginRequest
<1>6. CASE ReadSnapshot
  BY <1>6, ReadSnapshotMem DEF ReadSnapshot
<1>7. CASE Restore
  <2>1. /\ disk.present \in BOOLEAN /\ mem \in State /\ mem.start <= mem.lifetime
    BY DEF State
  <2>2. /\ table' \in Nat /\ counter' \in Nat /\ faults' \in Nat
        /\ qdisc' \in {"none", "ours", "foreign"} /\ (table' = 0 => counter' = 0)
    BY <1>7, <2>1, KernelType DEF Restore
  <2>3. mem' \in State /\ mem'.start <= mem'.lifetime
    BY <1>7, <2>1, <2>2, CountFacts DEF Restore
  <2>4. lost' \in Nat
    BY <1>7, <2>1, KernelType, LostType DEF Restore
  <2>6. (counter' < counter) \in BOOLEAN /\ (table' > 1) \in BOOLEAN /\ (counter > 0) \in BOOLEAN
    OBVIOUS
  <2>5. doubled' \in BOOLEAN /\ rebuilt' \in BOOLEAN /\ pc' = "commit"
    BY <1>7, <2>6, Zenon DEF Restore
  <2> QED BY <1>7, <2>2, <2>3, <2>4, <2>5 DEF Restore
<1>8. CASE CommitSnapshot
  <2>1. faults' \in Nat /\ lost' \in Nat
    BY <1>8, FaultType, LostType DEF CommitSnapshot
  <2>2. disk' \in {disk, mem} /\ reported' \in Observation
    BY <1>8, SeenType DEF CommitSnapshot
  <2>3. disk' \in State /\ disk'.start <= disk'.lifetime
    BY <2>2
  <2> QED BY <1>8, <2>1, <2>2, <2>3, ExitType DEF CommitSnapshot
<1>9. CASE ApplyRequest
  <2>1. disk.present \in BOOLEAN /\ mem.present \in BOOLEAN
    BY DEF State
  <2>2. /\ table' \in Nat /\ counter' \in Nat /\ faults' \in Nat
        /\ qdisc' \in {"none", "ours", "foreign"} /\ (table' = 0 => counter' = 0)
    BY <1>9, <2>1, KernelType DEF ApplyRequest
  <2>3. /\ mem' \in State /\ mem'.start <= mem'.lifetime /\ raw' \in Nat
        /\ pc' \in {"idle", "commit"} /\ request' \in Requests \cup {NoRequest}
    BY <1>9, ExitType DEF ApplyRequest
  <2>8. (counter' < counter) \in BOOLEAN
    OBVIOUS
  <2>7. rebuilt' \in BOOLEAN
    BY <1>9, <2>8, Zenon DEF ApplyRequest, Exit
  <2>4. passed' \in Nat /\ commits' = commits
    BY <1>9 DEF ApplyRequest
  <2>5. lost' \in Nat
    BY <1>9, <2>1, KernelType, LostType DEF ApplyRequest
  <2>6. doubled' \in BOOLEAN
    BY <1>9, Zenon DEF ApplyRequest
  <2> QED BY <1>9, <2>2, <2>3, <2>4, <2>5, <2>6, <2>7 DEF ApplyRequest
<1>10. CASE CommitRequest
  <2>1. reported' \in Observation /\ commits' \in [Requests -> Nat] /\ doubled' \in BOOLEAN
    BY <1>10, SeenType DEF CommitRequest
  <2> QED BY <1>10, <2>1, ExitType DEF CommitRequest
<1>11. CASE CommitFails
  BY <1>11, FaultType, ExitType DEF CommitFails
<1>12. CASE Undo
  <2>1. disk.present \in BOOLEAN /\ mem.present \in BOOLEAN
    BY DEF State
  <2>2. /\ table' \in Nat /\ counter' \in Nat /\ faults' \in Nat
        /\ qdisc' \in {"none", "ours", "foreign"} /\ (table' = 0 => counter' = 0)
    BY <1>12, <2>1, KernelType DEF Undo
  <2>3. lost' \in Nat
    BY <1>12, <2>1, KernelType, LostType DEF Undo
  <2>4. doubled' \in BOOLEAN
    BY <1>12, Zenon DEF Undo
  <2> QED BY <1>12, <2>2, <2>3, <2>4 DEF Undo
<1>13. CASE Save
  <2>1. disk' \in State /\ disk'.start <= disk'.lifetime
    BY <1>13, BaselineFacts DEF Save
  <2> QED BY <1>13, <2>1, FaultType, ExitType, LostType DEF Save
<1>14. CASE Stop
  BY <1>14, FaultType, ExitType, LostType DEF Stop
<1>15. CASE StopHalfway
  BY <1>15, FaultType, ExitType, LostType DEF StopHalfway, Rules, State
<1> QED BY <1>0, <1>1, <1>2, <1>3, <1>4, <1>5, <1>6, <1>7, <1>8, <1>9, <1>10, <1>11,
           <1>12, <1>13, <1>14, <1>15 DEF Next, Helper

-----------------------------------------------------------------------------
(* The invariant holds after every step. *)

\* The counter goes on with the traffic, or starts again.
LEMMA WithinStep ==
  ASSUME NEW s \in State, NEW c \in Nat, NEW p \in Nat, NEW d \in Nat, NEW q \in Nat,
         Within(s, c, p),
         \/ d \in {c, 0} /\ q = p
         \/ d = c + 1 /\ q = p + 1
  PROVE  Within(s, d, q)
BY DEF Within, Unread, State

LEMMA BaseType == ASSUME TypeOK PROVE Base \in Nat
<1>1. disk \in State /\ raw \in Nat /\ disk.lifetime \in Nat
  BY DEF TypeOK, State
<1>2. Unread(disk, raw) \in Nat
  BY <1>1, UnreadType
<1> QED BY <1>1, <1>2 DEF Base

LEMMA InitInv == Init => IInv
<1> SUFFICES ASSUME Init PROVE IInv
  OBVIOUS
<1>1. TypeOK
  BY EmptyFacts, ConstantsAssumption DEF Init, TypeOK, Observation, Nothing
<1>2. /\ ~disk.present /\ pc = "idle" /\ commits = [r \in Requests |-> 0] /\ reported = Nothing
      /\ table = 0 /\ ~rebuilt
  BY EmptyFacts DEF Init
<1>3. Working /\ Durable /\ Counted
  BY <1>2 DEF Working, Durable, Counted
<1>4. Nonces
  BY <1>2 DEF Nonces
<1> QED BY <1>1, <1>3, <1>4 DEF IInv

\* Traffic, other programs and time.
LEMMA WorldInv ==
  ASSUME IInv, TypeOK',
         UNCHANGED <<disk, processVars, reported, doubled, commits>>,
         expired \subseteq expired',
         table' \in {table, 0},
         \/ counter' \in {counter, 0} /\ passed' = passed
         \/ table > 0 /\ counter' = counter + table /\ passed' = passed + 1
  PROVE  IInv'
<1>1. Working' /\ Durable'
  BY DEF IInv, Working, Durable
<1>2. Nonces'
  BY DEF IInv, Nonces
<1>3. /\ counter \in Nat /\ passed \in Nat /\ counter' \in Nat /\ passed' \in Nat
      /\ disk \in State /\ mem \in State /\ mem.lifetime \in Nat /\ raw \in Nat
      /\ table \in Nat
  BY DEF IInv, TypeOK, State
<1>4. Base' = Base /\ Base \in Nat
  BY BaseType DEF Base, IInv
<1>5. CASE doubled
  BY <1>5, <1>1, <1>2, <1>4 DEF IInv, Counted
<1>6. CASE ~doubled
  <2>1. \/ counter' \in {counter, 0} /\ passed' = passed
        \/ counter' = counter + 1 /\ passed' = passed + 1
    BY <1>3, <1>6 DEF IInv, Counted
  <2>2. table' <= 1
    BY <1>3, <1>6 DEF IInv, Counted
  <2>3. Within(disk, counter, passed) => Within(disk', counter', passed')
    BY <1>3, <2>1, WithinStep
  <2>4. Within(mem, counter, passed) => Within(mem', counter', passed')
    BY <1>3, <2>1, WithinStep
  <2>5. \A n \in Nat : n + counter <= passed => n + counter' <= passed'
    <3>1. CASE counter' = counter /\ passed' = passed
      BY <3>1
    <3>2. CASE counter' = 0 /\ passed' = passed
      <4> SUFFICES ASSUME NEW n \in Nat, n + counter <= passed
                   PROVE  n + 0 <= passed
        BY <3>2
      <4> QED BY <1>3
    <3>3. CASE counter' = counter + 1 /\ passed' = passed + 1
      <4> SUFFICES ASSUME NEW n \in Nat, n + counter <= passed
                   PROVE  n + (counter + 1) <= passed + 1
        BY <3>3
      <4> QED BY <1>3
    <3> QED BY <2>1, <3>1, <3>2, <3>3
  <2>6. \A n \in Nat : n <= passed => n <= passed'
    BY <1>3, <2>1
  <2>7. counter <= passed => counter' <= passed'
    BY <1>3, <2>1
  <2>8. Counted'
    BY <1>3, <1>4, <2>2, <2>3, <2>4, <2>5, <2>6, <2>7 DEF Counted, IInv
  <2> QED BY <1>1, <1>2, <2>8 DEF IInv
<1> QED BY <1>5, <1>6

\* The process ends without writing the file.
LEMMA ExitInv ==
  ASSUME IInv, TypeOK', Exit,
         UNCHANGED <<disk, expired, reported, passed, commits>>,
         ~doubled' => ~doubled /\ table' <= 1,
         counter' \in {counter, 0}
  PROVE  IInv'
<1>1. pc' = "idle" /\ ~rebuilt'
  BY DEF Exit
<1>2. Working' /\ Durable'
  BY <1>1 DEF IInv, Working, Durable
<1>3. Nonces'
  BY <1>1 DEF IInv, Nonces
<1>4. counter \in Nat /\ passed \in Nat /\ counter' \in Nat /\ disk \in State
  BY DEF IInv, TypeOK
<1>5. Within(disk, counter, passed) => Within(disk', counter', passed')
  BY <1>4, WithinStep
<1>6. Counted'
  BY <1>1, <1>5 DEF Counted, IInv
<1> QED BY <1>2, <1>3, <1>6 DEF IInv

\* What applyNetwork does to the counter and to the number of rules.
LEMMA KernelStep ==
  ASSUME TypeOK, NEW before \in BOOLEAN, NEW after \in BOOLEAN
  PROVE  /\ Refused(before, after) => counter' = counter /\ table' = table
         /\ Built(before, after) \/ RolledBack(before, after) =>
              \/ counter' = 0 /\ table' <= 1
              \/ counter' = counter /\ table' = table /\ ~after
              \/ counter' = counter /\ table' > 1
<1>1. table \in Nat
  BY DEF TypeOK
<1>2. ASSUME NEW present \in BOOLEAN, Rules(present)
      PROVE  counter' = 0 /\ table' <= 1
  BY <1>2 DEF Rules
<1>3. ASSUME NEW present \in BOOLEAN, Added(present)
      PROVE  counter' = counter /\ (table' > 1 \/ (table' = table /\ ~present))
  BY <1>1, <1>3 DEF Added
<1>4. Built(before, after) => Rules(after) \/ Added(after)
  BY DEF Built
<1>5. RolledBack(before, after) => Rules(before) \/ (~after /\ Added(before))
  BY DEF RolledBack
<1> QED BY <1>2, <1>3, <1>4, <1>5 DEF Refused

LEMMA BeginRequestInv ==
  ASSUME IInv, TypeOK', NEW r \in Requests, BeginRequest(r)
  PROVE  IInv'
<1>1. /\ pc = "idle" /\ r \notin expired /\ r \notin disk.used /\ request' = r /\ ~rebuilt'
      /\ UNCHANGED <<kernelVars, disk, expired, reported, historyVars>>
  BY DEF BeginRequest, IInv, Working
<1>2. \/ r \in Dry /\ pc' = "commit"
      \/ r \in Acting /\ pc' = "apply"
  BY DEF BeginRequest, Acting
<1>3. r # NoRequest
  BY ConstantsAssumption
<1>4. TypeOK
  BY DEF IInv
<1> DEFINE base == disk.lifetime + Unread(disk, raw')
<1>5. /\ raw' \in {counter, 0} /\ raw' \in Nat
      /\ mem' \in State
      /\ r \in mem'.used
      /\ disk.used \subseteq mem'.used \cup expired
      /\ r \in Dry => /\ mem'.present = disk.present
                      /\ mem'.generation = disk.generation /\ mem'.start = disk.start
                      /\ mem'.lifetime >= disk.lifetime
                      /\ disk.present => mem'.last = 0 /\ mem'.lifetime = base
      /\ r \in Acting /\ disk.present /\ mem'.present =>
           /\ mem'.lifetime >= disk.lifetime
           /\ mem'.last = 0 /\ mem'.lifetime = base
           /\ \/ mem'.generation = disk.generation /\ mem'.start = disk.start
              \/ mem'.generation = disk.generation + 1
      /\ r \in Acting /\ ~disk.present /\ mem'.present =>
           mem'.last = 0 /\ mem'.lifetime = 0 /\ mem'.generation >= 1
  BY <1>4, BeginRequestMem
<1>6. Base' = base
  BY <1>1 DEF Base
<1>7. Working'
  <2>1. disk.generation \in Nat
    BY <1>4 DEF TypeOK, State
  <2> QED BY <1>1, <1>2, <1>3, <1>5, <2>1 DEF IInv, Working, Acting
<1>8. Nonces'
  <2>1. commits[r] = 0
    <3>1. commits[r] \in Nat /\ commits[r] <= 1 /\ commits[r] # 1
      BY <1>1, <1>4 DEF IInv, Nonces, TypeOK
    <3> QED BY <3>1
  <2> QED BY <1>1, <1>5, <2>1 DEF IInv, Nonces
<1>9. Durable'
  BY <1>1 DEF IInv, Durable
<1>10. Counted'
  <2>1. /\ counter \in Nat /\ passed \in Nat /\ disk \in State
        /\ disk.lifetime \in Nat /\ disk.last \in Nat
    BY <1>4 DEF TypeOK, State
  <2>2. disk.present /\ ~doubled => Within(disk, counter, passed)
    BY DEF IInv, Counted
  <2>3. disk.present /\ ~doubled => base <= passed
    BY <1>5, <2>1, <2>2 DEF Within, Unread
  <2>4. disk.present /\ ~doubled /\ raw' = 0 /\ disk.last = 0 => base + counter <= passed
    BY <2>1, <2>2 DEF Within, Unread
  <2> HIDE DEF base
  <2>5. /\ disk' = disk /\ counter' = counter /\ passed' = passed /\ doubled' = doubled
        /\ (~doubled => table' <= 1)
    BY <1>1 DEF IInv, Counted
  <2> QED BY <1>1, <1>2, <1>3, <1>5, <1>6, <2>1, <2>2, <2>3, <2>4, <2>5 DEF Counted, Acting
<1> QED BY <1>7, <1>8, <1>9, <1>10 DEF IInv

LEMMA ReadSnapshotInv ==
  ASSUME IInv, TypeOK', ReadSnapshot
  PROVE  IInv'
<1>1. /\ TypeOK /\ ConstantsAssumption
      /\ disk \in State /\ disk.start <= disk.lifetime /\ counter \in Nat /\ passed \in Nat
      /\ disk.lifetime \in Nat /\ disk.last \in Nat
  BY ConstantsAssumption DEF IInv, TypeOK, State
<1>2. /\ request' = NoRequest /\ raw' = counter /\ ~rebuilt'
      /\ (~doubled' => table' <= 1)
      /\ UNCHANGED <<kernelVars, disk, expired, reported, historyVars>>
  BY DEF ReadSnapshot, IInv, Working, Counted
<1>3. NoRequest \notin Acting /\ NoRequest \notin Dry /\ NoRequest \notin Requests
  BY <1>1 DEF ConstantsAssumption, Acting
<1>4. \/ pc' = "commit" /\ mem' = Count(disk, counter)
      \/ pc' = "restore" /\ mem' = Absorb(disk, counter)
  BY DEF ReadSnapshot
<1>5. /\ mem'.present = disk.present /\ mem'.generation = disk.generation
      /\ mem'.start = disk.start /\ mem'.used = disk.used /\ mem'.lifetime >= disk.lifetime
  <2>1. CASE mem' = Count(disk, counter)
    BY <1>1, <2>1, CountFacts
  <2>2. CASE mem' = Absorb(disk, counter)
    BY <1>1, <2>2, AbsorbFacts
  <2> QED BY <1>4, <2>1, <2>2
<1>6. Working'
  BY <1>2, <1>3, <1>4, <1>5 DEF IInv, Working
<1>7. Nonces'
  BY <1>2, <1>3, <1>5 DEF IInv, Nonces
<1>8. Durable'
  BY <1>2 DEF IInv, Durable
<1>9. Counted'
  <2>1. Base' = disk.lifetime + Unread(disk, counter)
    BY <1>2 DEF Base
  <2>2. disk.present /\ ~doubled => Within(disk, counter, passed)
    BY DEF IInv, Counted
  <2>3. CASE pc' = "commit" /\ mem' = Count(disk, counter)
    <3>1. disk.present /\ ~doubled => Within(mem', counter, passed)
      <4> SUFFICES ASSUME disk.present, ~doubled PROVE Within(mem', counter, passed)
        OBVIOUS
      <4>1. CASE counter < disk.last
        BY <1>1, <2>2, <2>3, <4>1, CountFacts
      <4>2. CASE counter >= disk.last
        <5>1. /\ mem'.lifetime = disk.lifetime + Unread(disk, counter)
              /\ mem'.last = counter
          BY <1>1, <2>3, <4>2, CountFacts
        <5>2. Unread(mem', counter) = 0
          BY <1>1, <5>1 DEF Unread
        <5>3. Unread(disk, counter) \in Nat /\ disk.lifetime + Unread(disk, counter) <= passed
          BY <1>1, <2>2, UnreadType DEF Within
        <5> QED BY <1>1, <5>1, <5>2, <5>3 DEF Within
      <4> QED BY <1>1, <4>1, <4>2
    <3> QED BY <1>2, <1>3, <1>5, <2>2, <2>3, <3>1 DEF Counted
  <2>4. CASE pc' = "restore" /\ mem' = Absorb(disk, counter)
    <3>1. disk.present => mem'.last = 0 /\ mem'.lifetime = Base'
      BY <1>1, <2>1, <2>4, AbsorbFacts
    <3>2. disk.present /\ ~doubled => Base' <= passed
      BY <2>1, <2>2 DEF Within
    <3> QED BY <1>2, <1>3, <1>5, <2>2, <2>4, <3>1, <3>2 DEF Counted
  <2> QED BY <1>4, <2>3, <2>4
<1> QED BY <1>6, <1>7, <1>8, <1>9 DEF IInv

LEMMA RestoreInv ==
  ASSUME IInv, TypeOK', Restore
  PROVE  IInv'
<1>1. /\ TypeOK
      /\ disk \in State /\ disk.present \in BOOLEAN /\ counter \in Nat /\ passed \in Nat
      /\ mem \in State /\ mem.start <= mem.lifetime /\ mem.lifetime \in Nat
      /\ disk.lifetime \in Nat
  BY DEF IInv, TypeOK, State
<1>2. /\ pc = "restore" /\ pc' = "commit" /\ mem' = Count(mem, counter')
      /\ UNCHANGED <<disk, expired, request, raw, reported, passed, commits>>
  BY DEF Restore
<1>3. request = NoRequest /\ NoRequest \notin Requests
  BY <1>2, ConstantsAssumption DEF IInv, Working
<1>4. NoRequest \notin Acting /\ NoRequest \notin Dry
  BY <1>3, ConstantsAssumption DEF Acting
<1>5. counter' \in {counter, 0} /\ counter' \in Nat
  BY <1>1, KernelType DEF Restore
<1>6. /\ mem'.present = mem.present /\ mem'.generation = mem.generation
      /\ mem'.start = mem.start /\ mem'.used = mem.used
      /\ mem'.lifetime \in Nat /\ mem'.lifetime >= mem.lifetime
  <2>1. mem' \in State
    BY DEF TypeOK
  <2> QED BY <1>1, <1>2, <1>5, <2>1, CountFacts DEF State
<1>7. mem.present = disk.present
  BY <1>2, <1>3, <1>4 DEF IInv, Working
<1>8. Working'
  BY <1>1, <1>2, <1>3, <1>4, <1>6, <1>7 DEF IInv, Working
<1>9. Nonces'
  BY <1>2, <1>3, <1>6 DEF IInv, Nonces
<1>10. Durable'
  BY <1>2 DEF IInv, Durable
<1>11. ~doubled' => ~doubled /\ table' <= 1 /\ (disk.present => counter' = 0)
  <2>1. CASE Refused(disk.present, disk.present) /\ doubled' = (doubled \/ counter > 0)
    <3>1. counter' = counter /\ table' = table
      BY <2>1 DEF Refused
    <3>2. ~doubled' => ~doubled /\ ~(counter > 0)
      BY <2>1
    <3>3. ~(counter > 0) => counter = 0
      BY <1>1
    <3>4. ~doubled => table <= 1
      BY DEF IInv, Counted
    <3> QED BY <3>1, <3>2, <3>3, <3>4
  <2>2. CASE /\ Built(disk.present, disk.present) \/ RolledBack(disk.present, disk.present)
             /\ doubled' = (doubled \/ table' > 1)
    <3>1. \/ counter' = 0 /\ table' <= 1
          \/ counter' = counter /\ table' = table /\ ~disk.present
          \/ table' > 1
      BY <1>1, <2>2, KernelStep
    <3>2. ~doubled' => ~doubled /\ ~(table' > 1)
      BY <2>2
    <3>3. ~doubled => table <= 1
      BY DEF IInv, Counted
    <3> QED BY <3>1, <3>2, <3>3
  <2> QED BY <2>1, <2>2 DEF Restore
<1>12. Counted'
  <2>1. disk.present /\ ~doubled' => Within(disk, counter', passed)
    BY <1>1, <1>5, <1>11, WithinStep DEF IInv, Counted
  <2>2. mem.present /\ ~doubled' => Within(mem', counter', passed)
    <3> SUFFICES ASSUME mem.present, ~doubled' PROVE Within(mem', counter', passed)
      OBVIOUS
    <3>1. mem.last = 0 /\ mem.lifetime = Base /\ Base <= passed
      BY <1>2, <1>7, <1>11 DEF IInv, Counted
    <3>2. counter' = 0 /\ Unread(mem, 0) = 0
      BY <1>7, <1>11, <3>1 DEF Unread
    <3>3. /\ Count(mem, 0).lifetime = mem.lifetime + Unread(mem, 0)
          /\ Count(mem, 0).last = 0
      <4>1. 0 \in Nat /\ mem.present /\ 0 >= mem.last
        BY <3>1
      <4> QED BY <1>1, <4>1, CountFacts
    <3>4. mem'.lifetime = mem.lifetime /\ mem'.last = 0
      BY <1>1, <1>2, <3>2, <3>3
    <3>5. Unread(mem', 0) = 0
      BY <3>4 DEF Unread
    <3>6. mem'.lifetime + Unread(mem', 0) <= passed
      BY <1>1, <3>1, <3>4, <3>5
    <3> QED BY <3>2, <3>4, <3>6 DEF Within
  <2> QED BY <1>2, <1>3, <1>4, <1>6, <1>11, <2>1, <2>2 DEF Counted
<1> QED BY <1>8, <1>9, <1>10, <1>12 DEF IInv

LEMMA CommitSnapshotInv ==
  ASSUME IInv, TypeOK', CommitSnapshot
  PROVE  IInv'
<1>1. /\ pc = "commit" /\ request = NoRequest /\ Exit
      /\ UNCHANGED <<kernelVars, expired, passed, doubled, commits>>
  BY DEF CommitSnapshot
<1>0. ~doubled' => ~doubled /\ table' <= 1
  BY <1>1 DEF IInv, Counted
<1>2. CASE disk' = disk /\ reported' = reported
  BY <1>0, <1>1, <1>2, ExitInv
<1>3. CASE disk' = mem /\ (reported' = reported \/ (mem.present /\ reported' = Seen(mem)))
  <2>1. /\ mem.present = disk.present
        /\ mem.present => /\ mem.generation >= 1 /\ mem.lifetime >= disk.lifetime
                          /\ mem.generation = disk.generation /\ mem.start = disk.start
    <3>1. NoRequest \notin Acting
      BY ConstantsAssumption DEF Acting
    <3> QED BY <1>1, <3>1 DEF IInv, Working
  <2>2. /\ pc' = "idle" /\ request' = NoRequest /\ ~rebuilt'
        /\ mem.lifetime \in Nat /\ mem.generation \in Nat /\ reported.lifetime \in Nat
        /\ disk.lifetime \in Nat /\ disk.generation \in Nat
    BY <1>1 DEF Exit, IInv, TypeOK, State, Observation
  <2>3. Working'
    BY <1>3, <2>1, <2>2 DEF Working
  <2>4. Nonces'
    BY <1>1, <1>3, <2>2 DEF IInv, Nonces
  <2>5. Durable'
    BY <1>3, <2>1, <2>2 DEF IInv, Durable, Seen
  <2>6. Counted'
    BY <1>0, <1>1, <1>3, <2>2 DEF IInv, Counted
  <2> QED BY <2>3, <2>4, <2>5, <2>6 DEF IInv
<1>4. \/ disk' = disk /\ reported' = reported
      \/ disk' = mem /\ (reported' = reported \/ (mem.present /\ reported' = Seen(mem)))
  BY DEF CommitSnapshot
<1> QED BY <1>2, <1>3, <1>4

LEMMA ApplyRequestInv ==
  ASSUME IInv, TypeOK', ApplyRequest
  PROVE  IInv'
<1>1. /\ TypeOK
      /\ disk \in State /\ disk.present \in BOOLEAN /\ mem.present \in BOOLEAN
      /\ counter \in Nat /\ passed \in Nat
  BY DEF IInv, TypeOK, State
<1>2. pc = "apply" /\ UNCHANGED <<disk, expired, reported>>
  BY DEF ApplyRequest
<1>3. request \in Acting /\ request \in Requests /\ request \notin Dry /\ request # NoRequest
  BY <1>2, ConstantsAssumption DEF IInv, Working, Acting
<1>4. CASE Refused(disk.present, mem.present) /\ Exit /\ UNCHANGED historyVars
  <2>1. counter' = counter /\ table' = table
    BY <1>1, <1>4, KernelStep
  <2>2. ~doubled => table <= 1
    BY DEF IInv, Counted
  <2> QED BY <1>2, <1>4, <2>1, <2>2, ExitInv
<1>6. CASE /\ RolledBack(disk.present, mem.present)
           /\ Exit
           /\ doubled' = (doubled \/ table' > 1)
           /\ UNCHANGED <<passed, commits>>
  <2>1. counter' \in {counter, 0}
    BY <1>1, <1>6, KernelType
  <2>2. ~doubled' => ~doubled /\ ~(table' > 1)
    BY <1>6
  <2>3. table' \in Nat
    BY DEF TypeOK
  <2>4. ~doubled' => ~doubled /\ table' <= 1
    BY <2>2, <2>3
  <2> QED BY <1>2, <1>6, <2>1, <2>4, ExitInv
<1>5. CASE /\ Built(disk.present, mem.present)
           /\ pc' = "commit"
           /\ passed' = (IF disk.present THEN passed ELSE 0)
           /\ doubled' = ((disk.present /\ doubled) \/ counter' > 0 \/ table' > 1)
           /\ UNCHANGED <<request, raw, mem, commits>>
  <2>12. counter' \in Nat /\ table' \in Nat
    BY DEF TypeOK
  <2>13. ~doubled' => ~(disk.present /\ doubled) /\ ~(counter' > 0) /\ ~(table' > 1)
    BY <1>5
  <2>1. ~doubled' => counter' = 0 /\ table' <= 1
    BY <2>12, <2>13
  <2>2. Working'
    BY <1>2, <1>3, <1>5 DEF IInv, Working
  <2>3. Nonces'
    BY <1>2, <1>5 DEF IInv, Nonces
  <2>4. Durable'
    BY <1>2 DEF IInv, Durable
  <2>5. disk.present => passed' = passed /\ (~doubled' => ~doubled)
    BY <1>5, <2>13
  <2>6. Base' = Base /\ Base \in Nat
    BY <1>1, <1>2, <1>5, BaseType DEF Base
  <2>7. disk.present /\ ~doubled' => Within(disk, 0, passed)
    BY <1>1, <2>5, WithinStep DEF IInv, Counted
  <2>8. disk.present /\ ~doubled' => Base + 0 <= passed
    BY <1>1, <1>2, <2>5, <2>6 DEF IInv, Counted
  <2>9. mem.present => mem.last = 0 /\ mem.lifetime = IF disk.present THEN Base ELSE 0
    BY <1>2, <1>3 DEF IInv, Counted
  <2>10. ~disk.present /\ ~doubled' => counter' <= passed'
    BY <1>5, <2>1
  <2>11. Counted'
    BY <1>2, <1>3, <1>5, <2>1, <2>5, <2>6, <2>7, <2>8, <2>9, <2>10 DEF Counted
  <2> QED BY <2>2, <2>3, <2>4, <2>11 DEF IInv
<1> QED BY <1>4, <1>5, <1>6 DEF ApplyRequest

LEMMA CommitRequestInv ==
  ASSUME IInv, TypeOK', CommitRequest
  PROVE  IInv'
<1>1. /\ pc = "commit" /\ request \in Requests /\ disk' = mem
      /\ pc' = "idle" /\ request' = NoRequest /\ ~rebuilt'
      /\ UNCHANGED <<kernelVars, expired, passed>>
      /\ commits' = (IF request \in Dry THEN commits ELSE [commits EXCEPT ![request] = @ + 1])
      /\ reported' = (IF mem.present /\ ~disk.present THEN Nothing ELSE reported)
  BY DEF CommitRequest, Exit
<1>2. /\ counter \in Nat /\ passed \in Nat /\ raw \in Nat /\ disk.lifetime \in Nat
      /\ mem.lifetime \in Nat /\ mem.last \in Nat /\ mem.generation \in Nat
      /\ disk.generation \in Nat /\ reported.generation \in Nat /\ reported.lifetime \in Nat
      /\ Base \in Nat
  BY BaseType DEF IInv, TypeOK, State, Observation
<1>3. (request \in Dry \/ request \in Acting) /\ request # NoRequest
  BY <1>1, ConstantsAssumption DEF Acting
<1>4. mem.present => /\ mem.generation >= 1
                     /\ disk.present => /\ mem.lifetime >= disk.lifetime
                                        /\ \/ mem.generation = disk.generation /\ mem.start = disk.start
                                           \/ mem.generation = disk.generation + 1
  BY <1>1 DEF IInv, Working
<1>5. Working'
  BY <1>1, <1>4 DEF Working
<1>6. Nonces'
  <2>1. /\ commits \in [Requests -> Nat] /\ commits[request] = 0 /\ request \in mem.used
        /\ \A r \in Requests : commits[r] <= 1
        /\ \A r \in Requests : commits[r] = 1 => r \in mem.used \cup expired
    BY <1>1 DEF IInv, Nonces, TypeOK
  <2>2. \A r \in Requests : commits'[r] = commits[r] \/ (r = request /\ commits'[r] = 1)
    BY <1>1, <2>1
  <2> QED BY <1>1, <2>1, <2>2 DEF Nonces
<1>7. Durable'
  <2>1. CASE mem.present /\ ~disk.present
    BY <1>1, <1>4, <2>1, <1>2 DEF Durable, Nothing
  <2>2. CASE ~(mem.present /\ ~disk.present)
    BY <1>1, <1>2, <1>4, <2>2 DEF IInv, Durable
  <2> QED BY <2>1, <2>2
<1>8. Counted'
  <2>0. ~doubled' => ~doubled /\ table' <= 1
    <3>1. ~doubled' => ~doubled
      BY Zenon DEF CommitRequest
    <3> QED BY <1>1, <3>1 DEF IInv, Counted
  <2> SUFFICES ASSUME mem.present, ~doubled' PROVE Within(mem, counter, passed)
    BY <1>1, <2>0 DEF Counted
  <2>1. ~doubled /\ ~(request \in Dry /\ disk.present /\ (raw > 0 \/ disk.last > 0))
    BY Zenon DEF CommitRequest
  <2>2. mem.last = 0 /\ mem.lifetime + counter <= passed
    <3>1. CASE request \in Dry
      <4>1. disk.present
        BY <1>1, <3>1 DEF IInv, Working, Acting
      <4>2. raw = 0 /\ disk.last = 0
        <5>1. disk.last \in Nat
          BY DEF IInv, TypeOK, State
        <5> QED BY <1>2, <2>1, <3>1, <4>1, <5>1
      <4> QED BY <1>1, <2>1, <3>1, <4>2 DEF IInv, Counted
    <3>2. CASE request \in Acting
      BY <1>1, <1>2, <2>1, <3>2 DEF IInv, Counted
    <3> QED BY <1>3, <3>1, <3>2
  <2> QED BY <1>2, <2>2 DEF Within, Unread
<1> QED BY <1>5, <1>6, <1>7, <1>8 DEF IInv

LEMMA CommitFailsInv ==
  ASSUME IInv, TypeOK', CommitFails
  PROVE  IInv'
<1>1. /\ pc = "commit" /\ request \in Requests
      /\ UNCHANGED <<kernelVars, disk, expired, reported, historyVars>>
  BY DEF CommitFails
<1>0. ~doubled' => ~doubled /\ table' <= 1
  BY <1>1 DEF IInv, Counted
<1>2. CASE Exit
  BY <1>0, <1>1, <1>2, ExitInv
<1>3. CASE request \notin Dry /\ pc' = "undo" /\ UNCHANGED <<request, raw, mem, rebuilt>>
  <2>1. request \in Acting /\ request # NoRequest
    BY <1>1, <1>3, ConstantsAssumption DEF Acting
  <2>2. Working' /\ Durable'
    BY <1>1, <1>3, <2>1 DEF IInv, Working, Durable
  <2>3. Nonces'
    BY <1>1, <1>3 DEF IInv, Nonces
  <2>4. Base' = Base
    BY <1>1, <1>3 DEF Base
  <2>5. Counted'
    BY <1>1, <1>3, <2>1, <2>4 DEF IInv, Counted
  <2> QED BY <2>2, <2>3, <2>5 DEF IInv
<1> QED BY <1>2, <1>3 DEF CommitFails

LEMMA UndoInv ==
  ASSUME IInv, TypeOK', Undo
  PROVE  IInv'
<1>1. /\ pc = "undo" /\ pc' = "save"
      /\ UNCHANGED <<disk, expired, request, raw, mem, rebuilt, reported, passed, commits>>
  BY DEF Undo
<1>0. ~doubled' => ~doubled /\ table' <= 1
  <2>1. ~doubled' => ~doubled /\ ~(table' > 1)
    BY Zenon DEF Undo
  <2>2. table' \in Nat
    BY DEF TypeOK
  <2> QED BY <2>1, <2>2
<1>2. /\ TypeOK /\ disk \in State /\ disk.present \in BOOLEAN /\ mem.present \in BOOLEAN
      /\ counter \in Nat /\ passed \in Nat
  BY DEF IInv, TypeOK, State
<1>3. counter' \in {counter, 0} /\ counter' \in Nat
  BY <1>2, KernelType DEF Undo
<1>4. request \in Acting /\ request # NoRequest
  BY <1>1, ConstantsAssumption DEF IInv, Working, Acting
<1>5. Working' /\ Durable'
  BY <1>1 DEF IInv, Working, Durable
<1>6. Nonces'
  BY <1>1 DEF IInv, Nonces
<1>7. Base' = Base /\ Base \in Nat
  BY <1>1, <1>2, BaseType DEF Base
<1>8. disk.present /\ ~doubled => Within(disk, counter', passed)
  BY <1>2, <1>3, WithinStep DEF IInv, Counted
<1>9. disk.present /\ ~doubled => Base + counter' <= passed
  <2> SUFFICES ASSUME disk.present, ~doubled PROVE Base + counter' <= passed
    OBVIOUS
  <2>1. Base + counter <= passed
    BY <1>1, <1>4 DEF IInv, Counted
  <2>2. CASE counter' = counter
    BY <2>1, <2>2
  <2>3. CASE counter' = 0
    BY <1>2, <1>7, <2>1, <2>3
  <2> QED BY <1>3, <2>2, <2>3
<1>10. Counted'
  BY <1>0, <1>1, <1>4, <1>7, <1>8, <1>9 DEF Counted
<1> QED BY <1>5, <1>6, <1>10 DEF IInv

LEMMA SaveInv ==
  ASSUME IInv, TypeOK', Save
  PROVE  IInv'
<1>1. /\ pc = "save" /\ Exit
      /\ UNCHANGED <<kernelVars, expired, reported, passed, doubled, commits>>
  BY DEF Save
<1>0. ~doubled' => ~doubled /\ table' <= 1
  BY <1>1 DEF IInv, Counted
<1>2. CASE disk' = disk
  BY <1>0, <1>1, <1>2, ExitInv
<1>3. CASE disk' = Baseline
  <2>1. /\ disk'.present = disk.present /\ disk'.generation = disk.generation
        /\ disk'.start = disk.start /\ disk'.used = mem.used
        /\ disk'.lifetime >= disk.lifetime
        /\ disk.present => disk'.lifetime = Base /\ disk'.last = 0
    BY <1>3, BaselineFacts DEF IInv
  <2>2. /\ pc' = "idle" /\ ~rebuilt' /\ request' = NoRequest /\ request \in Acting
        /\ counter \in Nat /\ Base \in Nat /\ disk'.lifetime \in Nat
        /\ disk.lifetime \in Nat /\ reported.lifetime \in Nat
    BY <1>1, BaseType DEF Exit, IInv, Working, TypeOK, State, Observation
  <2>3. Working'
    BY <2>1, <2>2 DEF IInv, Working
  <2>4. Nonces'
    BY <1>1, <2>1, <2>2 DEF IInv, Nonces
  <2>5. Durable'
    BY <1>1, <2>1, <2>2 DEF IInv, Durable
  <2>6. Counted'
    <3> SUFFICES ASSUME disk.present, ~doubled PROVE Within(disk', counter, passed)
      BY <1>0, <1>1, <2>1, <2>2 DEF Counted
    <3>1. Base + counter <= passed
      BY <1>1, <2>2 DEF IInv, Counted
    <3> QED BY <2>1, <2>2, <3>1 DEF Within, Unread
  <2> QED BY <2>3, <2>4, <2>5, <2>6 DEF IInv
<1> QED BY <1>2, <1>3 DEF Save

LEMMA NextInv == IInv /\ [Next]_vars => IInv'
<1> SUFFICES ASSUME IInv, [Next]_vars PROVE IInv'
  OBVIOUS
<1>1. TypeOK /\ TypeOK'
  BY TypeNext DEF IInv
<1>2. CASE UNCHANGED vars
  BY <1>1, <1>2, WorldInv DEF vars
<1>3. CASE Traffic
  BY <1>1, <1>3, WorldInv DEF Traffic
<1>4. CASE DeleteTable
  BY <1>1, <1>4, WorldInv DEF DeleteTable, Rules
<1>5. CASE ChangeQdisc
  BY <1>1, <1>5, WorldInv DEF ChangeQdisc
<1>6. ASSUME NEW r \in Requests, Expire(r)
      PROVE  IInv'
  BY <1>1, <1>6, WorldInv DEF Expire
<1>7. ASSUME NEW r \in Requests, BeginRequest(r)
      PROVE  IInv'
  BY <1>1, <1>7, BeginRequestInv
<1>8. CASE ReadSnapshot
  BY <1>1, <1>8, ReadSnapshotInv
<1>9. CASE Helper
  BY <1>1, <1>9, RestoreInv, CommitSnapshotInv, ApplyRequestInv, CommitRequestInv,
     CommitFailsInv, UndoInv, SaveInv DEF Helper
<1>10. CASE Stop
  BY <1>1, <1>10, ExitInv DEF Stop, IInv, Counted
<1>11. CASE StopHalfway
  <2>1. table' <= 1 /\ counter' = 0
    BY <1>11 DEF StopHalfway, Rules
  <2> QED BY <1>1, <1>11, <2>1, ExitInv DEF StopHalfway
<1> QED BY <1>2, <1>3, <1>4, <1>5, <1>6, <1>7, <1>8, <1>9, <1>10, <1>11 DEF Next

LEMMA Invariance == Spec => []IInv
<1>1. Init => IInv
  BY InitInv
<1>2. IInv /\ [Next]_vars => IInv'
  BY NextInv
<1> QED BY <1>1, <1>2, PTL DEF Spec

-----------------------------------------------------------------------------
(* The theorems. *)

\* Every reachable state is well typed: the counters stay natural numbers, and
\* current_period_rx, lifetime less the start of the period, is never negative
\* in the file or in the state about to be written.
THEOREM TypeCorrect == Spec => []TypeOK
<1>1. IInv => TypeOK
  BY DEF IInv
<1> QED BY <1>1, Invariance, PTL

\* A signed task changes the policy at most once, however often it is sent and
\* wherever the helper stops (consumeNonce, and the order of executeRequest).
THEOREM RequestOnlyOnce == Spec => []RequestOnce
<1>1. IInv => RequestOnce
  BY DEF IInv, Nonces, RequestOnce
<1> QED BY <1>1, Invariance, PTL

\* No byte is counted twice, but by a snapshot that cannot repair the rules and
\* by a dry run (absorbCounters and the writes of executeRequest and snapshot).
THEOREM NeverCountedTwice == Spec => []CountsOnce
<1>1. IInv => CountsOnce
  BY DEF IInv, Counted, Within, CountsOnce, Tally
<1> QED BY <1>1, Invariance, PTL

\* The observations of one generation do not go back and keep the start of the
\* period, since a snapshot writes the file before it returns them.
THEOREM ReportsNeverBack == Spec => ReportsAdvance
<1> DEFINE Advance == reported'.generation = reported.generation
                        => reported'.lifetime >= reported.lifetime /\ reported'.start = reported.start
<1>1. IInv /\ [Next]_vars => [Advance]_vars
  <2> SUFFICES ASSUME IInv, Next PROVE Advance
    BY DEF vars
  <2>1. /\ reported \in Observation /\ reported.lifetime \in Nat
        /\ mem.lifetime \in Nat /\ disk.lifetime \in Nat
    BY DEF IInv, TypeOK, Observation, State
  <2>2. CASE reported' = reported
    BY <2>1, <2>2
  <2>3. CASE CommitSnapshot /\ mem.present /\ reported' = Seen(mem)
    <3>1. pc = "commit" /\ request = NoRequest /\ NoRequest \notin Acting
      BY <2>3, ConstantsAssumption DEF CommitSnapshot, Acting
    <3>2. /\ disk.present /\ mem.generation = disk.generation
          /\ mem.start = disk.start /\ mem.lifetime >= disk.lifetime
      BY <2>3, <3>1 DEF IInv, Working
    <3> QED BY <2>1, <2>3, <3>2 DEF IInv, Durable, Seen
  <2>4. CASE CommitRequest /\ reported' = Nothing
    BY <2>1, <2>4 DEF IInv, Durable, Nothing
  <2>5. CommitSnapshot => reported' = reported \/ (mem.present /\ reported' = Seen(mem))
    BY DEF CommitSnapshot
  <2>6. CommitRequest => reported' \in {reported, Nothing}
    BY DEF CommitRequest
  <2>7. ~CommitSnapshot /\ ~CommitRequest => reported' = reported
    BY DEF Next, Helper, Traffic, DeleteTable, ChangeQdisc, Expire, BeginRequest, ReadSnapshot,
       Restore, ApplyRequest, CommitFails, Undo, Save, Stop, StopHalfway
  <2> QED BY <2>2, <2>3, <2>4, <2>5, <2>6, <2>7
<1> QED BY <1>1, Invariance, PTL DEF Spec, ReportsAdvance

-----------------------------------------------------------------------------
(* Every byte is counted. *)

\* With the bytes of the counter, s accounts for all that passed, but for
\* those that failures left behind; its mark hides as many of the counter.
Covers(s, bytes, missing, total) == total + s.last <= s.lifetime + bytes + missing

\* The file covers the bytes, with what would stay uncounted if it were not
\* written; so does the state the helper is going to write, or the baseline.
Kept ==
  /\ disk.present => Covers(disk, counter, lost + Unwritten, passed)
  /\ pc = "commit" /\ mem.present => Covers(mem, counter, lost, passed)
  /\ pc \in {"commit", "undo", "save"} /\ request \in Acting /\ disk.present =>
       passed <= Base + counter + lost

LEMMA KeptTypes ==
  ASSUME TypeOK
  PROVE  /\ counter \in Nat /\ passed \in Nat /\ lost \in Nat /\ raw \in Nat
         /\ disk \in State /\ disk.lifetime \in Nat /\ disk.last \in Nat /\ disk.start <= disk.lifetime
         /\ mem \in State /\ mem.lifetime \in Nat /\ mem.last \in Nat /\ mem.start <= mem.lifetime
         /\ disk.present \in BOOLEAN /\ mem.present \in BOOLEAN
         /\ Base \in Nat /\ Unwritten \in Nat
BY BaseType, LostType DEF TypeOK, State

\* Traffic moves the counter at least as far as the bytes that passed, and what
\* a deleted table held is among the lost.
LEMMA WorldKept ==
  ASSUME TypeOK, TypeOK', Kept, UNCHANGED <<disk, processVars>>,
         passed' - passed <= (counter' + lost') - (counter + lost)
  PROVE  Kept'
<1>1. Base' = Base /\ Unwritten' = Unwritten
  BY DEF Base, Unwritten
<1>2. passed' \in Nat /\ counter' \in Nat /\ lost' \in Nat
  BY DEF TypeOK
<1>3. disk.present => Covers(disk, counter', lost' + Unwritten, passed')
  BY <1>2, KeptTypes DEF Kept, Covers
<1>4. pc = "commit" /\ mem.present => Covers(mem, counter', lost', passed')
  BY <1>2, KeptTypes DEF Kept, Covers
<1>5. passed <= Base + counter + lost => passed' <= Base + counter' + lost'
  BY <1>2, KeptTypes
<1> QED BY <1>1, <1>3, <1>4, <1>5 DEF Kept

\* The process ends without writing the file.
LEMMA ExitKept ==
  ASSUME TypeOK, TypeOK', Kept, Exit, UNCHANGED <<disk, passed>>,
         counter + lost + Unwritten <= counter' + lost'
  PROVE  Kept'
<1>1. pc' = "idle" /\ Unwritten' = 0
  BY DEF Exit, Unwritten
<1>2. passed' \in Nat /\ counter' \in Nat /\ lost' \in Nat
  BY DEF TypeOK
<1>3. disk.present => Covers(disk, counter', lost' + 0, passed)
  BY <1>2, KeptTypes DEF Kept, Covers
<1> QED BY <1>1, <1>3 DEF Kept

\* The file is written and covers the bytes.
LEMMA WrittenKept ==
  ASSUME Exit, disk'.present => Covers(disk', counter', lost', passed'), TypeOK'
  PROVE  Kept'
<1>1. pc' = "idle" /\ Unwritten' = 0
  BY DEF Exit, Unwritten
<1>2. \A n \in Nat : n + 0 = n
  OBVIOUS
<1>3. lost' \in Nat
  BY DEF TypeOK
<1>4. lost' + Unwritten' = lost'
  BY <1>1, <1>2, <1>3, Zenon
<1> QED BY <1>1, <1>4 DEF Kept

\* Building the rules: what was read moves into the file, and Missed is the rest.
LEMMA RebuildKept ==
  ASSUME TypeOK, TypeOK', Kept, disk.present, ~rebuilt,
         counter' \in {counter, 0}, lost' = lost + Missed, rebuilt' = (counter' < counter),
         UNCHANGED <<disk, raw, passed>>
  PROVE  /\ passed <= Base + counter' + lost'
         /\ Covers(disk, counter', lost' + Unwritten', passed)
<1>1. Covers(disk, counter, lost, passed)
  BY KeptTypes DEF Kept, Unwritten
<1>2. counter' \in Nat /\ lost' \in Nat
  BY DEF TypeOK
<1> DEFINE n == Unread(disk, raw)
<1>3. n \in Nat /\ n + disk.last >= raw
  BY KeptTypes DEF Unread
<1>4. Base = disk.lifetime + n
  BY DEF Base
<1> HIDE DEF n
<1>5. CASE counter' = counter
  <2>0. ~(counter' < counter)
    BY <1>5, KeptTypes
  <2>1. Missed = 0 /\ ~rebuilt'
    BY <2>0, Zenon DEF Missed
  <2>2. Unwritten' = 0 /\ lost' = lost
    BY <2>1, KeptTypes DEF Unwritten
  <2> QED BY <1>1, <1>3, <1>4, <1>5, <2>2, KeptTypes DEF Covers
<1>6. CASE counter' = 0 /\ counter > 0
  <2>1. rebuilt'
    BY <1>6
  <2>2. Unwritten' = n + disk.last
    BY <2>1 DEF Unwritten, Unread, n
  <2>3. Missed \in Nat /\ counter <= Missed + raw
    BY <1>6, KeptTypes DEF Missed
  <2> QED BY <1>1, <1>2, <1>3, <1>4, <1>6, <2>2, <2>3, KeptTypes DEF Covers
<1> QED BY <1>5, <1>6, KeptTypes

LEMMA ReadSnapshotKept ==
  ASSUME IInv, TypeOK', Kept, ReadSnapshot
  PROVE  Kept'
<1>1. TypeOK
  BY DEF IInv
<1>2. /\ pc = "idle" /\ request' = NoRequest /\ ~rebuilt
      /\ UNCHANGED <<kernelVars, disk, rebuilt, historyVars>>
  BY DEF ReadSnapshot, IInv, Working
<1>3. NoRequest \notin Acting
  BY ConstantsAssumption DEF Acting
<1>4. \/ pc' = "commit" /\ mem' = Count(disk, counter)
      \/ pc' = "restore"
  BY DEF ReadSnapshot
<1>5. Unwritten = 0 /\ Unwritten' = 0
  BY <1>2 DEF Unwritten
<1>6. disk.present => Covers(disk, counter, lost, passed)
  BY <1>1, <1>5, KeptTypes DEF Kept
<1>7. ASSUME mem' = Count(disk, counter), mem'.present
      PROVE  Covers(mem', counter, lost, passed)
  <2>1. disk.present
    BY <1>1, <1>7, CountFacts, KeptTypes
  <2>2. CASE counter < disk.last
    <3>1. mem' = disk
      BY <1>1, <1>7, <2>2, CountFacts, KeptTypes
    <3> QED BY <1>6, <2>1, <3>1
  <2>3. CASE counter >= disk.last
    <3>1. mem'.lifetime = disk.lifetime + Unread(disk, counter) /\ mem'.last = counter
      BY <1>1, <1>7, <2>1, <2>3, CountFacts, KeptTypes
    <3>2. Unread(disk, counter) = counter - disk.last
      BY <2>3 DEF Unread
    <3> QED BY <1>1, <1>6, <2>1, <3>1, <3>2, KeptTypes DEF Covers
  <2> QED BY <1>1, <2>2, <2>3, KeptTypes
<1>8. disk'.present => Covers(disk', counter', lost' + Unwritten', passed')
  BY <1>1, <1>2, <1>5, <1>6, KeptTypes
<1>9. pc' = "commit" /\ mem'.present => Covers(mem', counter', lost', passed')
  BY <1>2, <1>4, <1>7
<1> QED BY <1>2, <1>3, <1>8, <1>9 DEF Kept

LEMMA BeginRequestKept ==
  ASSUME IInv, TypeOK', Kept, NEW r \in Requests, BeginRequest(r)
  PROVE  Kept'
<1>1. TypeOK
  BY DEF IInv
<1>2. /\ pc = "idle" /\ request' = r /\ ~rebuilt
      /\ UNCHANGED <<kernelVars, disk, rebuilt, historyVars>>
  BY DEF BeginRequest, IInv, Working
<1>3. \/ r \in Dry /\ pc' = "commit"
      \/ pc' = "apply"
  BY DEF BeginRequest
<1>4. Unwritten = 0 /\ Unwritten' = 0
  BY <1>2 DEF Unwritten
<1>5. disk.present => Covers(disk, counter, lost, passed)
  BY <1>1, <1>4, KeptTypes DEF Kept
<1>6. ASSUME r \in Dry, mem'.present
      PROVE  Covers(mem', counter, lost, passed)
  <2>1. /\ disk.present /\ raw' \in Nat
        /\ mem'.lifetime = disk.lifetime + Unread(disk, raw') /\ mem'.last = 0
    BY <1>1, <1>6, BeginRequestMem
  <2>2. Unread(disk, raw') \in Nat
    BY <1>1, <2>1, UnreadType, KeptTypes
  <2> QED BY <1>1, <1>5, <2>1, <2>2, KeptTypes DEF Covers
<1>7. r \in Dry => r \notin Acting
  BY DEF Acting
<1>8. disk'.present => Covers(disk', counter', lost' + Unwritten', passed')
  BY <1>1, <1>2, <1>4, <1>5, KeptTypes
<1> QED BY <1>2, <1>3, <1>6, <1>7, <1>8 DEF Kept

LEMMA CountUnmarked ==
  ASSUME NEW s \in State, s.start <= s.lifetime, s.present, s.last = 0, NEW bytes \in Nat
  PROVE  Count(s, bytes).lifetime = s.lifetime + bytes /\ Count(s, bytes).last = bytes
<1>1. bytes >= s.last /\ Unread(s, bytes) = bytes
  BY DEF Unread
<1> QED BY <1>1, CountFacts

LEMMA RestoreKept ==
  ASSUME IInv, TypeOK', Kept, Restore
  PROVE  Kept'
<1>1. TypeOK
  BY DEF IInv
<1>2. /\ pc = "restore" /\ pc' = "commit" /\ mem' = Count(mem, counter')
      /\ UNCHANGED <<disk, request, raw, passed>>
  BY DEF Restore
<1>3. request = NoRequest /\ NoRequest \notin Acting /\ ~rebuilt
  BY <1>2, ConstantsAssumption DEF IInv, Working, Acting
<1>4. mem.present = disk.present
  BY <1>2, <1>3 DEF IInv, Working
<1>5. counter' \in {counter, 0} /\ counter' \in Nat /\ lost' \in Nat
  BY <1>1, KernelType, KeptTypes DEF Restore, TypeOK
<1>6. lost' = lost + Missed /\ rebuilt' = (counter' < counter)
  <2>1. CASE Refused(disk.present, disk.present) /\ UNCHANGED <<lost, rebuilt>>
    <3>1. counter' = counter
      BY <2>1 DEF Refused
    <3>2. Missed = 0 /\ ~(counter' < counter)
      BY <1>1, <3>1, KeptTypes DEF Missed
    <3>3. ~rebuilt' /\ rebuilt' \in BOOLEAN
      BY <1>3, <2>1 DEF TypeOK
    <3> QED BY <1>1, <2>1, <3>2, <3>3, KeptTypes
  <2>2. CASE lost' = lost + Missed /\ rebuilt' = (counter' < counter)
    BY <2>2
  <2> QED BY <2>1, <2>2 DEF Restore
<1>7. ASSUME disk.present
      PROVE  /\ passed <= Base + counter' + lost'
             /\ Covers(disk, counter', lost' + Unwritten', passed)
  BY <1>1, <1>2, <1>3, <1>5, <1>6, <1>7, RebuildKept
<1>8. ASSUME mem'.present
      PROVE  Covers(mem', counter', lost', passed)
  <2>1. mem.present
    BY <1>1, <1>2, <1>5, <1>8, CountFacts, KeptTypes
  <2>2. mem.last = 0 /\ mem.lifetime = Base
    BY <1>2, <2>1 DEF IInv, Counted
  <2>3. mem'.lifetime = Base + counter' /\ mem'.last = counter'
    BY <1>1, <1>2, <1>5, <2>1, <2>2, CountUnmarked, KeptTypes
  <2>4. passed <= Base + counter' + lost'
    BY <1>4, <1>7, <2>1
  <2> QED BY <1>1, <1>5, <2>3, <2>4, KeptTypes DEF Covers
<1> QED BY <1>2, <1>3, <1>7, <1>8 DEF Kept

LEMMA CommitSnapshotKept ==
  ASSUME IInv, TypeOK', Kept, CommitSnapshot
  PROVE  Kept'
<1>1. /\ pc = "commit" /\ request = NoRequest /\ Exit /\ TypeOK
      /\ UNCHANGED <<kernelVars, passed>>
  BY DEF CommitSnapshot, IInv
<1>2. CASE disk' = mem /\ lost' = lost
  BY <1>1, <1>2, WrittenKept DEF Kept
<1>3. CASE disk' = disk /\ lost' = lost + Unwritten
  BY <1>1, <1>3, ExitKept, KeptTypes
<1> QED BY <1>2, <1>3 DEF CommitSnapshot

LEMMA ApplyRequestKept ==
  ASSUME IInv, TypeOK', Kept, ApplyRequest
  PROVE  Kept'
<1>1. TypeOK
  BY DEF IInv
<1>2. /\ pc = "apply" /\ request \in Acting /\ ~rebuilt /\ disk' = disk
  BY DEF ApplyRequest, IInv, Working
<1>3. Unwritten = 0 /\ counter' \in Nat
  BY <1>2 DEF Unwritten, TypeOK
<1>4. CASE Refused(disk.present, mem.present) /\ Exit /\ UNCHANGED historyVars
  <2>1. counter' = counter
    BY <1>4 DEF Refused
  <2> QED BY <1>1, <1>2, <1>3, <1>4, <2>1, ExitKept, KeptTypes
<1>5. CASE Exit /\ lost' = lost + (counter - counter') /\ passed' = passed
  BY <1>1, <1>2, <1>3, <1>5, ExitKept, KeptTypes
<1>6. CASE /\ Built(disk.present, mem.present)
           /\ pc' = "commit"
           /\ rebuilt' = (counter' < counter)
           /\ passed' = (IF disk.present THEN passed ELSE 0)
           /\ lost' = (IF disk.present THEN lost + Missed ELSE 0)
           /\ UNCHANGED <<request, raw, mem>>
  <2>1. counter' \in {counter, 0}
    BY <1>1, <1>6, KernelType, KeptTypes
  <2>2. Base' = Base
    BY <1>2, <1>6 DEF Base
  <2>3. mem.present => mem.last = 0 /\ mem.lifetime = IF disk.present THEN Base ELSE 0
    BY <1>2 DEF IInv, Counted
  <2>4. CASE disk.present
    <3>1. /\ passed <= Base + counter' + lost'
          /\ Covers(disk, counter', lost' + Unwritten', passed)
      BY <1>1, <1>2, <1>6, <2>1, <2>4, RebuildKept
    <3>2. mem.present => Covers(mem, counter', lost', passed)
      <4>1. lost' \in Nat
        BY DEF TypeOK
      <4> QED BY <1>1, <1>3, <2>3, <2>4, <3>1, <4>1, KeptTypes DEF Covers
    <3> QED BY <1>2, <1>6, <2>2, <2>4, <3>1, <3>2 DEF Kept
  <2>5. CASE ~disk.present
    <3>1. passed' = 0 /\ lost' = 0
      BY <1>6, <2>5
    <3>2. mem.present => Covers(mem, counter', 0, 0)
      BY <1>3, <2>3, <2>5 DEF Covers
    <3> QED BY <1>2, <1>6, <2>5, <3>1, <3>2 DEF Kept
  <2> QED BY <2>4, <2>5
<1> QED BY <1>4, <1>5, <1>6 DEF ApplyRequest

LEMMA CommitRequestKept ==
  ASSUME IInv, TypeOK', Kept, CommitRequest
  PROVE  Kept'
<1>1. pc = "commit" /\ disk' = mem /\ Exit /\ UNCHANGED <<kernelVars, passed, lost>>
  BY DEF CommitRequest
<1> QED BY <1>1, WrittenKept DEF Kept

LEMMA CommitFailsKept ==
  ASSUME IInv, TypeOK', Kept, CommitFails
  PROVE  Kept'
<1>1. /\ pc = "commit" /\ request \in Requests /\ TypeOK
      /\ UNCHANGED <<kernelVars, disk, historyVars>>
  BY DEF CommitFails, IInv
<1>2. CASE request \in Dry /\ Exit
  <2>1. Unwritten = 0
    BY <1>1, <1>2 DEF IInv, Working, Unwritten
  <2> QED BY <1>1, <1>2, <2>1, ExitKept, KeptTypes
<1>3. CASE pc' = "undo" /\ UNCHANGED <<request, raw, mem, rebuilt>>
  <2>1. Base' = Base /\ Unwritten' = Unwritten
    BY <1>1, <1>3 DEF Base, Unwritten
  <2> QED BY <1>1, <1>3, <2>1 DEF Kept
<1> QED BY <1>2, <1>3 DEF CommitFails

LEMMA UndoKept ==
  ASSUME IInv, TypeOK', Kept, Undo
  PROVE  Kept'
<1>1. /\ pc = "undo" /\ pc' = "save" /\ TypeOK /\ lost' = lost + (counter - counter')
      /\ UNCHANGED <<disk, request, raw, mem, rebuilt, passed>>
  BY DEF Undo, IInv
<1>2. Base' = Base /\ Unwritten' = Unwritten
  BY <1>1 DEF Base, Unwritten
<1>3. counter' \in Nat /\ lost' \in Nat
  BY DEF TypeOK
<1>4. disk.present => Covers(disk, counter', lost' + Unwritten, passed)
  BY <1>1, <1>3, KeptTypes DEF Kept, Covers
<1>5. passed <= Base + counter + lost => passed <= Base + counter' + lost'
  BY <1>1, <1>3, KeptTypes
<1> QED BY <1>1, <1>2, <1>4, <1>5 DEF Kept

LEMMA SaveKept ==
  ASSUME IInv, TypeOK', Kept, Save
  PROVE  Kept'
<1>1. /\ pc = "save" /\ Exit /\ request \in Acting /\ TypeOK
      /\ UNCHANGED <<kernelVars, passed>>
  BY DEF Save, IInv, Working
<1>2. CASE disk' = disk /\ lost' = lost + Unwritten
  BY <1>1, <1>2, ExitKept, KeptTypes
<1>3. CASE disk' = Baseline /\ lost' = lost
  <2>1. /\ disk'.present = disk.present
        /\ disk.present => disk'.lifetime = Base /\ disk'.last = 0
    BY <1>1, <1>3, BaselineFacts
  <2>2. disk.present => passed <= Base + counter + lost
    BY <1>1 DEF Kept
  <2>3. disk.present => Covers(disk', counter, lost, passed)
    BY <1>1, <2>1, <2>2, KeptTypes DEF Covers
  <2> QED BY <1>1, <1>3, <2>1, <2>3, WrittenKept
<1> QED BY <1>2, <1>3 DEF Save

LEMMA NextKept == IInv /\ Kept /\ [Next]_vars => Kept'
<1> SUFFICES ASSUME IInv, Kept, [Next]_vars PROVE Kept'
  OBVIOUS
<1>1. TypeOK /\ TypeOK'
  BY TypeNext DEF IInv
<1>2. CASE UNCHANGED vars
  BY <1>1, <1>2, WorldKept, KeptTypes DEF vars
<1>3. CASE Traffic
  <2>1. table \in Nat /\ table >= 1
    BY <1>1, <1>3 DEF Traffic, TypeOK
  <2>2. passed' - passed <= (counter' + lost') - (counter + lost)
    BY <1>1, <1>3, <2>1, KeptTypes DEF Traffic
  <2> QED BY <1>1, <1>3, <2>2, WorldKept DEF Traffic
<1>4. CASE DeleteTable
  <2>1. passed' - passed <= (counter' + lost') - (counter + lost)
    BY <1>1, <1>4, KeptTypes DEF DeleteTable, Rules
  <2> QED BY <1>1, <1>4, <2>1, WorldKept DEF DeleteTable
<1>5. CASE ChangeQdisc
  BY <1>1, <1>5, WorldKept, KeptTypes DEF ChangeQdisc
<1>6. ASSUME NEW r \in Requests, Expire(r)
      PROVE  Kept'
  BY <1>1, <1>6, WorldKept, KeptTypes DEF Expire
<1>7. ASSUME NEW r \in Requests, BeginRequest(r)
      PROVE  Kept'
  BY <1>1, <1>7, BeginRequestKept
<1>8. CASE ReadSnapshot
  BY <1>1, <1>8, ReadSnapshotKept
<1>9. CASE Helper
  BY <1>1, <1>9, RestoreKept, CommitSnapshotKept, ApplyRequestKept, CommitRequestKept,
     CommitFailsKept, UndoKept, SaveKept DEF Helper
<1>10. CASE Stop
  BY <1>1, <1>10, ExitKept, KeptTypes DEF Stop
<1>11. CASE StopHalfway
  <2>1. counter + lost + Unwritten <= counter' + lost'
    BY <1>1, <1>11, KeptTypes DEF StopHalfway, Rules
  <2> QED BY <1>1, <1>11, <2>1, ExitKept DEF StopHalfway
<1> QED BY <1>2, <1>3, <1>4, <1>5, <1>6, <1>7, <1>8, <1>9, <1>10, <1>11 DEF Next

\* Every byte is counted, but for as many as the named failures left behind:
\* absorbCounters before every rebuild, and the writes of executeRequest and
\* snapshot after it.
THEOREM AlwaysCounted == Spec => []CountsAll
<1>1. Init => Kept
  BY EmptyFacts DEF Init, Kept
<1>2. IInv /\ Kept => CountsAll
  <2> SUFFICES ASSUME IInv, Kept, pc = "idle", disk.present
               PROVE  Tally + lost >= passed
    BY DEF CountsAll
  <2>1. TypeOK /\ Unwritten = 0
    BY DEF IInv, Working, Unwritten
  <2>2. Covers(disk, counter, lost, passed)
    BY <2>1, KeptTypes DEF Kept
  <2> QED BY <2>1, <2>2, KeptTypes DEF Covers, Tally, Unread
<1> QED BY <1>1, <1>2, NextKept, Invariance, PTL DEF Spec

-----------------------------------------------------------------------------
(* Identities: one row is active at a time, and what the host or a script    *)
(* holds was issued by the controller.                                       *)

\* A generation is used once ...
FreshRows == \A g \in Gens : g > agent.version => identity[g] = "none"

\* ... and whoever holds one got it from the controller.
Holders ==
  /\ local <= agent.version /\ daemon.version <= agent.version
  /\ installer.gen <= agent.version /\ installer.was <= agent.version
  /\ maintainer.was <= agent.version
  /\ \A g \in crl : g <= agent.version

\* A decommission may revoke the agent and leave a later identity active.
OneEach ==
  /\ \A g, h \in Active : g = h
  /\ Enrolled => Active # {}
  /\ \A g, h \in Has("pending") : g = h

\* The statuses of a session whose script is at work.
Underway == InProgress \ {"confirmation_pending"}

\* What is left of a session once its last report has been handled.
Ended == {"confirmation_pending", "completed"}

\* One script at a time, at a step of a session that it knows.  Only a script
\* that has lost an answer may find its session at the end.
Scripts ==
  /\ InstallerOff \/ MaintainerOff
  /\ daemon.pc # "idle" => running
  /\ \A i \in Sessions : session[i].status # "none" => session[i].kind \in AllKinds
  /\ ~MaintainerOff =>
       /\ maintainer.session \in Sessions
       /\ session[maintainer.session].status \in Underway \cup Ended
       /\ maintainer.pc # "fail" => session[maintainer.session].status \in Underway
       /\ maintainer.at \in DOMAIN Script(Kind)

\* The rows of the agent and of its identities.
Rows ==
  /\ agent \in [version : 0 .. MaxVersion, revoked : BOOLEAN]
  /\ identity \in [Gens -> States]
  /\ FreshRows
  /\ OneEach

\* The types of the tokens, the sessions and the two scripts.
TokenRows  == [Tokens -> [status : TokenState, used : BOOLEAN]]
Installers == [pc : {"off", "verify", "bootstrap", "install", "start", "fail"},
               token : 0 .. MaxTokens, gen : 0 .. MaxVersion,
               changed : BOOLEAN, was : 0 .. MaxVersion, ran : BOOLEAN]
SessionRow == [kind : AllKinds \cup {"none"},
               status : ToSet(Progress) \cup Terminal \cup {"none"},
               version : 0 .. MaxVersion, old : 0 .. MaxVersion, beat : BOOLEAN]
Maintainers == [pc : {"off", "do", "report", "fail"}, session : 0 .. MaxSessions,
                at : 0 .. 6, was : 0 .. MaxVersion, ran : BOOLEAN,
                changed : BOOLEAN, activated : BOOLEAN]

\* The types without those of the history.
CoreTypeOK ==
  /\ IdentityTypeOK /\ token \in TokenRows /\ installer \in Installers
  /\ session \in [Sessions -> SessionRow] /\ maintainer \in Maintainers

LifecycleInv == CoreTypeOK /\ Rows /\ Holders /\ Scripts

LEMMA StatusSets ==
  /\ ToSet(Progress) = {"waiting", "started", "artifact_verified", "service_stopped",
       "identity_rotated", "service_started", "heartbeat_verified", "confirmation_pending"}
  /\ InProgress = ToSet(Progress) \ {"waiting"}
  /\ ToSet(Steps) = {"waiting", "agent_verified", "certificate_issued",
       "service_installed", "service_started", "completed"}
<1>1. DOMAIN Progress = 1 .. 8 /\ DOMAIN Steps = 1 .. 6
  BY DEF Progress, Steps
<1>2. ToSet(Progress) = {Progress[1], Progress[2], Progress[3], Progress[4],
                         Progress[5], Progress[6], Progress[7], Progress[8]}
  BY <1>1 DEF ToSet
<1>3. ToSet(Steps) = {Steps[1], Steps[2], Steps[3], Steps[4], Steps[5], Steps[6]}
  BY <1>1 DEF ToSet
<1>4. DOMAIN Tail(Progress) = 1 .. 7
  BY DEF Progress
<1>5. ToSet(Tail(Progress)) = {Tail(Progress)[1], Tail(Progress)[2], Tail(Progress)[3],
        Tail(Progress)[4], Tail(Progress)[5], Tail(Progress)[6], Tail(Progress)[7]}
  <2> DEFINE t == Tail(Progress)
  <2>1. ToSet(t) = {t[i] : i \in 1 .. 7}
    BY <1>4 DEF ToSet
  <2> HIDE DEF t
  <2>2. {t[i] : i \in 1 .. 7} = {t[1], t[2], t[3], t[4], t[5], t[6], t[7]}
    OBVIOUS
  <2> QED BY <2>1, <2>2 DEF t
<1>6. /\ Tail(Progress)[1] = "started" /\ Tail(Progress)[2] = "artifact_verified"
      /\ Tail(Progress)[3] = "service_stopped" /\ Tail(Progress)[4] = "identity_rotated"
      /\ Tail(Progress)[5] = "service_started" /\ Tail(Progress)[6] = "heartbeat_verified"
      /\ Tail(Progress)[7] = "confirmation_pending"
  BY DEF Progress
<1>7. /\ Progress[1] = "waiting" /\ Progress[2] = "started"
      /\ Progress[3] = "artifact_verified" /\ Progress[4] = "service_stopped"
      /\ Progress[5] = "identity_rotated" /\ Progress[6] = "service_started"
      /\ Progress[7] = "heartbeat_verified" /\ Progress[8] = "confirmation_pending"
  BY DEF Progress
<1>8. /\ Steps[1] = "waiting" /\ Steps[2] = "agent_verified"
      /\ Steps[3] = "certificate_issued" /\ Steps[4] = "service_installed"
      /\ Steps[5] = "service_started" /\ Steps[6] = "completed"
  BY DEF Steps
<1>9. ToSet(Progress) = {"waiting", "started", "artifact_verified", "service_stopped",
        "identity_rotated", "service_started", "heartbeat_verified", "confirmation_pending"}
  BY <1>2, <1>7
<1>10. InProgress = {"started", "artifact_verified", "service_stopped",
         "identity_rotated", "service_started", "heartbeat_verified", "confirmation_pending"}
  BY <1>5, <1>6 DEF InProgress
<1>11. ToSet(Steps) = {"waiting", "agent_verified", "certificate_issued",
         "service_installed", "service_started", "completed"}
  BY <1>3, <1>8
<1> QED BY <1>9, <1>10, <1>11

\* A script ends with the status that ends its part of the session.
LEMMA ScriptFacts ==
  ASSUME NEW kind \in AllKinds
  PROVE  /\ DOMAIN Script(kind) = 1 .. Len(Script(kind)) /\ Len(Script(kind)) \in 1 .. 6
         /\ \A n \in DOMAIN Script(kind) :
              /\ n < Len(Script(kind)) => Script(kind)[n] \in Underway
              /\ n = Len(Script(kind)) => Script(kind)[n] \in {"completed", "confirmation_pending"}
<1>1. CASE kind = "repair"
  <2>1. Script(kind) = <<"artifact_verified", "service_stopped", "service_started",
                         "heartbeat_verified", "completed">>
    BY <1>1 DEF Script
  <2> QED BY <2>1, StatusSets DEF Underway
<1>2. CASE kind \in {"reinstall", "rotate_identity"}
  <2>1. Script(kind) = <<"artifact_verified", "service_stopped", "identity_rotated",
                         "service_started", "heartbeat_verified", "confirmation_pending">>
    BY <1>2 DEF Script
  <2> QED BY <2>1, StatusSets DEF Underway
<1>3. CASE kind = "decommission"
  <2>1. Script(kind) = <<"artifact_verified", "service_stopped", "confirmation_pending">>
    BY <1>3 DEF Script
  <2> QED BY <2>1, StatusSets DEF Underway
<1> QED BY <1>1, <1>2, <1>3 DEF AllKinds

\* What is known of every variable.
LEMMA LifecycleTypes ==
  ASSUME LifecycleInv
  PROVE  /\ MaxVersion \in Nat /\ MaxVersion > 0 /\ MaxTokens \in Nat /\ MaxSessions \in Nat
         /\ agent \in [version : 0 .. MaxVersion, revoked : BOOLEAN]
         /\ agent.version \in 0 .. MaxVersion /\ agent.revoked \in BOOLEAN
         /\ identity \in [Gens -> States]
         /\ Gens = 1 .. MaxVersion
         /\ local \in 0 .. MaxVersion /\ daemon.version \in 0 .. MaxVersion
         /\ {enabled, running} \subseteq BOOLEAN
BY VersionAssumption, LifecycleAssumption DEF LifecycleInv, CoreTypeOK, IdentityTypeOK, Gens

\* The generations that somebody holds are numbers.
LEMMA HolderNats ==
  ASSUME LifecycleInv
  PROVE  /\ installer.gen \in Nat /\ installer.was \in Nat /\ maintainer.was \in Nat
         /\ \A g \in crl : g \in Nat
<1>1. MaxVersion \in Nat /\ Gens = 1 .. MaxVersion
  BY LifecycleTypes
<1>2. installer.gen \in 0 .. MaxVersion /\ installer.was \in 0 .. MaxVersion
  BY DEF LifecycleInv, CoreTypeOK, Installers
<1>3. maintainer.was \in 0 .. MaxVersion
  BY DEF LifecycleInv, CoreTypeOK, Maintainers
<1>4. crl \subseteq Gens
  BY DEF LifecycleInv, CoreTypeOK, IdentityTypeOK
<1> QED BY <1>1, <1>2, <1>3, <1>4

LEMMA LifecycleInit_ == LifecycleInit => LifecycleInv
<1> SUFFICES ASSUME LifecycleInit PROVE LifecycleInv
  OBVIOUS
<1> USE DEF LifecycleInit, IdentityInit, NoInstall, NoScript, NoSession, Idle, NoPending
<1>1. MaxVersion \in Nat /\ MaxTokens \in Nat /\ MaxSessions \in Nat
  BY VersionAssumption, LifecycleAssumption
<1>2. IdentityTypeOK
  <2>1. 0 \in 0 .. MaxVersion /\ 0 \in 0 .. 2 /\ "none" \in States
    BY <1>1 DEF States
  <2> QED BY <2>1 DEF IdentityTypeOK
<1>3. CoreTypeOK
  BY <1>1, <1>2 DEF CoreTypeOK, TokenState, TokenRows, Installers, SessionRow, Maintainers
<1>4. Rows /\ Holders
  BY <1>1, <1>2 DEF Rows, IdentityTypeOK, FreshRows, Holders, OneEach, Active, Has, Enrolled
<1>5. Scripts
  BY DEF Scripts, InstallerOff, MaintainerOff
<1> QED BY <1>3, <1>4, <1>5 DEF LifecycleInv

\* What claim_agent_identity_version and the handlers make of the rows.
LEMMA Claims ==
  ASSUME LifecycleInv, agent.version < MaxVersion
  PROVE  /\ Next1 \in Gens /\ identity[Next1] = "none"
         /\ Next1 = agent.version + 1 /\ Next1 \in 0 .. MaxVersion
         /\ ClaimVersion => agent' = [version |-> Next1, revoked |-> agent.revoked]
BY LifecycleTypes DEF LifecycleInv, Rows, FreshRows, Next1, ClaimVersion

LEMMA RowsKept == LifecycleInv /\ UNCHANGED <<agent, identity>> => Rows' /\ agent.version <= agent'.version
<1> SUFFICES ASSUME LifecycleInv, UNCHANGED <<agent, identity>>
             PROVE  Rows' /\ agent.version <= agent'.version
  OBVIOUS
<1>1. Rows'
  BY DEF LifecycleInv, Rows, FreshRows, OneEach, Active, Has, Enrolled
<1> QED BY <1>1, LifecycleTypes

\* The identities that were there are no more active or pending than before,
\* and the next one has a state of its own.
LEMMA RowsClaimed ==
  ASSUME LifecycleInv, agent.version < MaxVersion, NEW revoked \in BOOLEAN,
         agent' = [version |-> Next1, revoked |-> revoked],
         identity' \in [Gens -> States],
         \A g \in Gens : g # Next1 /\ identity[g] = "none" => identity'[g] = "none",
         OneEach'
  PROVE  Rows' /\ agent.version <= agent'.version
<1>1. /\ Next1 = agent.version + 1 /\ Next1 \in 0 .. MaxVersion
      /\ agent'.version = Next1
  BY Claims
<1>2. FreshRows'
  <2> SUFFICES ASSUME NEW g \in Gens, g > agent'.version PROVE identity'[g] = "none"
    BY DEF FreshRows, Gens
  <2>1. g # Next1 /\ g > agent.version
    BY <1>1, LifecycleTypes
  <2> QED BY <2>1 DEF LifecycleInv, Rows, FreshRows
<1>3. agent' \in [version : 0 .. MaxVersion, revoked : BOOLEAN]
  BY <1>1
<1>4. agent.version <= agent'.version
  BY <1>1, LifecycleTypes
<1> QED BY <1>2, <1>3, <1>4 DEF Rows, Gens

LEMMA PrepareRows == LifecycleInv /\ Prepare => Rows' /\ agent.version <= agent'.version
<1> SUFFICES ASSUME LifecycleInv, Prepare PROVE Rows' /\ agent.version <= agent'.version
  OBVIOUS
<1>1. /\ Enrolled /\ agent.version < MaxVersion /\ ClaimVersion
      /\ identity' = [g \in Gens |-> IF g = Next1 THEN "pending"
                                     ELSE IF identity[g] = "pending" THEN "retired"
                                     ELSE identity[g]]
  BY DEF Prepare, CanClaim
<1>2. identity' \in [Gens -> States]
  BY <1>1, LifecycleTypes DEF States
<1>3. agent' = [version |-> Next1, revoked |-> agent.revoked]
  BY <1>1, Claims
<1>4. Active' = Active
  BY <1>1, Claims, LifecycleTypes DEF Active, Has, Gens
<1>5. Has("pending")' = {Next1}
  BY <1>1, Claims, LifecycleTypes DEF Has, Gens
<1>6. OneEach'
  BY <1>1, <1>4, <1>5 DEF LifecycleInv, Rows, OneEach
<1>7. \A g \in Gens : g # Next1 /\ identity[g] = "none" => identity'[g] = "none"
  BY <1>1
<1> QED BY <1>1, <1>2, <1>3, <1>6, <1>7, RowsClaimed, LifecycleTypes

\* The presented identity retires and the next one takes its place.
LEMMA RenewedRows ==
  ASSUME LifecycleInv, NEW g \in Active, CanClaim, Renewed(g)
  PROVE  /\ Rows' /\ agent.version <= agent'.version /\ agent'.version = Next1
         /\ Active' = {Next1} /\ Has("pending")' = Has("pending")
         /\ Has("retiring")' = Has("retiring") \cup {g}
<1>1. /\ Enrolled /\ agent.version < MaxVersion /\ ClaimVersion
      /\ identity' = [identity EXCEPT ![g] = "retiring", ![Next1] = "active"]
  BY DEF Renewed, CanClaim
<1>2. g \in Gens /\ identity[g] = "active" /\ g # Next1 /\ Active = {g}
  BY <1>1, Claims DEF Active, Has, LifecycleInv, Rows, OneEach
<1>3. /\ identity' \in [Gens -> States] /\ identity'[g] = "retiring" /\ identity'[Next1] = "active"
      /\ \A h \in Gens \ {g, Next1} : identity'[h] = identity[h]
  BY <1>1, <1>2, Claims, LifecycleTypes DEF States
<1>4. agent' = [version |-> Next1, revoked |-> agent.revoked]
  BY <1>1, Claims
<1>5. Active' = {Next1}
  BY <1>1, <1>2, <1>3, Claims DEF Active, Has, Gens
<1>6. Has("pending")' = Has("pending")
  BY <1>1, <1>2, <1>3, Claims DEF Has, Gens
<1>7. Has("retiring")' = Has("retiring") \cup {g}
  BY <1>1, <1>2, <1>3, Claims DEF Has, Gens
<1>8. OneEach'
  BY <1>5, <1>6 DEF LifecycleInv, Rows, OneEach
<1>9. Rows' /\ agent.version <= agent'.version
  BY <1>1, <1>2, <1>3, <1>4, <1>8, RowsClaimed, LifecycleTypes
<1> QED BY <1>4, <1>5, <1>6, <1>7, <1>9

LEMMA ActivateRows ==
  ASSUME LifecycleInv, NEW g \in Has("pending"), NEW old \in Active, CanClaim, ClaimVersion,
         identity' = [identity EXCEPT ![old] = "retiring", ![g] = "active"]
  PROVE  /\ Rows' /\ agent.version <= agent'.version
         /\ Active' = {g} /\ Has("pending")' = {}
         /\ Has("retiring")' = Has("retiring") \cup {old}
<1>1. agent.version < MaxVersion
  BY DEF CanClaim
<1>2. /\ g \in Gens /\ old \in Gens /\ g # old /\ identity[g] = "pending"
      /\ identity[old] = "active" /\ Active = {old} /\ Has("pending") = {g}
  BY DEF Active, Has, LifecycleInv, Rows, OneEach
<1>3. /\ identity' \in [Gens -> States] /\ identity'[g] = "active" /\ identity'[old] = "retiring"
      /\ \A h \in Gens \ {g, old} : identity'[h] = identity[h]
  BY <1>2, LifecycleTypes DEF States
<1>4. agent' = [version |-> Next1, revoked |-> agent.revoked]
  BY <1>1, Claims
<1>5. Active' = {g}
  BY <1>2, <1>3 DEF Active, Has, Gens
<1>6. Has("pending")' = {}
  BY <1>2, <1>3 DEF Has, Gens
<1>7. Has("retiring")' = Has("retiring") \cup {old}
  BY <1>2, <1>3 DEF Has, Gens
<1>8. OneEach'
  BY <1>5, <1>6 DEF OneEach
<1>9. Rows' /\ agent.version <= agent'.version
  BY <1>1, <1>2, <1>3, <1>4, <1>8, RowsClaimed, LifecycleTypes
<1> QED BY <1>5, <1>6, <1>7, <1>9

\* A row that ends: the others stay as they are.
LEMMA EndedRow ==
  ASSUME LifecycleInv, NEW g \in Gens, NEW end \in {"retired", "revoked"},
         identity' = [identity EXCEPT ![g] = end], g <= agent.version
  PROVE  /\ identity' \in [Gens -> States]
         /\ \A h \in Gens : h > agent.version => identity'[h] = "none"
         /\ Active' = Active \ {g} /\ Has("pending")' = Has("pending") \ {g}
         /\ Has("retiring")' = Has("retiring") \ {g}
<1>1. /\ identity' \in [Gens -> States] /\ identity'[g] = end
      /\ \A h \in Gens \ {g} : identity'[h] = identity[h]
  BY LifecycleTypes DEF States
<1>2. \A h \in Gens : h > agent.version => identity'[h] = "none"
  BY <1>1, LifecycleTypes DEF LifecycleInv, Rows, FreshRows
<1> QED BY <1>1, <1>2 DEF Active, Has, Gens

LEMMA EndedRows ==
  ASSUME LifecycleInv, NEW g \in Gens, NEW end \in {"retired", "revoked"},
         identity' = [identity EXCEPT ![g] = end], g <= agent.version,
         NEW revoked \in BOOLEAN, NEW version \in 0 .. MaxVersion,
         agent' = [version |-> version, revoked |-> revoked], agent.version <= version,
         (g \notin Active /\ revoked = agent.revoked) \/ revoked
  PROVE  Rows' /\ agent.version <= agent'.version
<1>1. agent'.version = version /\ agent'.revoked = revoked
  OBVIOUS
<1>2. OneEach'
  <2>1. Active' = Active \ {g} /\ Has("pending")' = Has("pending") \ {g}
    BY EndedRow
  <2>2. Enrolled' => Active' # {}
    <3> SUFFICES ASSUME Enrolled' PROVE Active' # {}
      OBVIOUS
    <3>1. ~revoked /\ g \notin Active /\ ~agent.revoked
      BY <1>1 DEF Enrolled
    <3>2. agent.version > 0
      <4>1. g > 0
        BY LifecycleTypes
      <4> QED BY <4>1, LifecycleTypes
    <3> QED BY <2>1, <3>1, <3>2 DEF Enrolled, LifecycleInv, Rows, OneEach
  <2> QED BY <2>1, <2>2 DEF LifecycleInv, Rows, OneEach
<1>3. FreshRows'
  <2> SUFFICES ASSUME NEW h \in Gens, h > version PROVE identity'[h] = "none"
    BY <1>1 DEF FreshRows, Gens
  <2>1. h > agent.version
    BY LifecycleTypes
  <2> QED BY <2>1, EndedRow
<1> QED BY <1>1, <1>2, <1>3, EndedRow DEF Rows, Gens

\* An identity that is not "none" was issued.
LEMMA IssuedRow ==
  ASSUME LifecycleInv, NEW g \in Gens, identity[g] # "none"
  PROVE  g <= agent.version
BY LifecycleTypes DEF LifecycleInv, Rows, FreshRows

LEMMA RetirePendingRows ==
  ASSUME LifecycleInv, CanClaim, ClaimVersion, NEW g \in Has("pending") \cup Has("retiring"),
         NEW end \in {"retired", "revoked"}, identity' = [identity EXCEPT ![g] = end]
  PROVE  Rows' /\ agent.version <= agent'.version
<1>1. g \in Gens /\ g <= agent.version /\ g \notin Active
  BY IssuedRow DEF Has, Active
<1>2. agent' = [version |-> Next1, revoked |-> agent.revoked] /\ Next1 \in 0 .. MaxVersion
      /\ agent.version <= Next1
  BY Claims, LifecycleTypes DEF CanClaim
<1> QED BY <1>1, <1>2, EndedRows, LifecycleTypes

LEMMA RevokeAgentRows == LifecycleInv /\ RevokeAgent => Rows' /\ agent.version <= agent'.version
<1> SUFFICES ASSUME LifecycleInv, RevokeAgent PROVE Rows' /\ agent.version <= agent'.version
  OBVIOUS
<1>1. PICK g \in Active \cap crl : identity' = [identity EXCEPT ![g] = "revoked"]
  BY DEF RevokeAgent
<1>2. g \in Gens /\ g <= agent.version
  BY IssuedRow DEF Has, Active
<1>3. agent' = [version |-> Next1, revoked |-> TRUE] /\ Next1 \in 0 .. MaxVersion
      /\ agent.version <= Next1
  BY Claims, LifecycleTypes DEF RevokeAgent, CanClaim
<1> QED BY <1>1, <1>2, <1>3, EndedRows

LEMMA FinalizeRows ==
  ASSUME LifecycleInv, NEW old \in crl, identity' = [identity EXCEPT ![old] = "revoked"],
         agent' = [agent EXCEPT !.revoked = TRUE]
  PROVE  Rows' /\ agent.version <= agent'.version
<1>1. old \in Gens /\ old <= agent.version
  BY DEF LifecycleInv, CoreTypeOK, IdentityTypeOK, Holders
<1>2. agent' = [version |-> agent.version, revoked |-> TRUE]
  BY LifecycleTypes
<1>3. agent.version \in 0 .. MaxVersion /\ agent.version <= agent.version
  BY LifecycleTypes
<1> QED BY <1>1, <1>2, <1>3, EndedRows

LEMMA BootstrapRows ==
  ASSUME LifecycleInv, CanBootstrap, agent' = [version |-> Next1, revoked |-> FALSE],
         identity' = [identity EXCEPT ![Next1] = "active"]
  PROVE  /\ Rows' /\ agent.version <= agent'.version
         /\ Active' = {Next1} /\ Has("pending")' = Has("pending")
         /\ Has("retiring")' = Has("retiring")
<1>1. agent.version < MaxVersion /\ Active = {}
  BY DEF CanBootstrap
<1>2. /\ identity' \in [Gens -> States] /\ identity'[Next1] = "active"
      /\ \A h \in Gens \ {Next1} : identity'[h] = identity[h]
  BY <1>1, Claims, LifecycleTypes DEF States
<1>3. Active' = {Next1} /\ Has("pending")' = Has("pending") /\ Has("retiring")' = Has("retiring")
  BY <1>1, <1>2, Claims DEF Active, Has, Gens
<1>4. OneEach'
  BY <1>3 DEF LifecycleInv, Rows, OneEach
<1> QED BY <1>1, <1>2, <1>3, <1>4, RowsClaimed, Claims
-----------------------------------------------------------------------------
(* The steps, one by one.                                                    *)

\* Whatever the rows have become, the holders hold what they held.
LEMMA HoldersKept ==
  ASSUME LifecycleInv, agent'.version \in 0 .. MaxVersion, agent.version <= agent'.version,
         UNCHANGED <<local, daemon, installer, maintainer, crl>>
  PROVE  Holders'
<1>1. /\ installer.gen \in Nat /\ installer.was \in Nat /\ maintainer.was \in Nat
      /\ \A g \in crl : g \in Nat
  BY HolderNats
<1> QED BY <1>1, LifecycleTypes DEF LifecycleInv, Holders

LEMMA VersionTyped == Rows' => agent'.version \in 0 .. MaxVersion /\ agent' \in [version : 0 .. MaxVersion, revoked : BOOLEAN]
BY DEF Rows

LEMMA OwnerInv ==
  ASSUME LifecycleInv, OwnerStep, UNCHANGED <<enrollVars, maintVars>>
  PROVE  LifecycleInv'
<1>1. /\ pending \in [beats : 0 .. 2, live : BOOLEAN] /\ crl \subseteq Gens
      /\ enabled \in BOOLEAN
  BY DEF LifecycleInv, CoreTypeOK, IdentityTypeOK
<1>2. UNCHANGED hostVars
  BY DEF OwnerStep, Prepare, PendingExpires, Activate, RetirePending, PublishCrl, RevokeRetiring,
         RevokeAgent, EnableHost
<1>3. Rows' /\ agent.version <= agent'.version
  <2>1. CASE Prepare
    BY <2>1, PrepareRows
  <2>2. CASE PendingExpires \/ PublishCrl \/ EnableHost
    BY <2>2, RowsKept DEF PendingExpires, PublishCrl, EnableHost
  <2>3. CASE Activate
    BY <2>3, ActivateRows DEF Activate
  <2>4. CASE RetirePending
    BY <2>4, RetirePendingRows DEF RetirePending
  <2>5. CASE RevokeRetiring
    <3>1. PICK g \in Has("retiring") : identity' = [identity EXCEPT ![g] = "revoked"]
      BY <2>5 DEF RevokeRetiring
    <3>2. CanClaim /\ ClaimVersion
      BY <2>5 DEF RevokeRetiring
    <3> QED BY <3>1, <3>2, RetirePendingRows
  <2>6. CASE RevokeAgent
    BY <2>6, RevokeAgentRows
  <2> QED BY <2>1, <2>2, <2>3, <2>4, <2>5, <2>6 DEF OwnerStep
<1>4. pending' \in [beats : 0 .. 2, live : BOOLEAN]
  <2>1. \/ pending' \in {pending, NoPending, [beats |-> 0, live |-> TRUE]}
        \/ pending' = [pending EXCEPT !.live = FALSE]
    BY DEF OwnerStep, Prepare, PendingExpires, Activate, RetirePending, PublishCrl,
       RevokeRetiring, RevokeAgent, EnableHost
  <2>2. NoPending \in [beats : 0 .. 2, live : BOOLEAN]
        /\ [beats |-> 0, live |-> TRUE] \in [beats : 0 .. 2, live : BOOLEAN]
    BY DEF NoPending
  <2>3. [pending EXCEPT !.live = FALSE] \in [beats : 0 .. 2, live : BOOLEAN]
    BY <1>1
  <2> QED BY <1>1, <2>1, <2>2, <2>3
<1>5. enabled' \in BOOLEAN
  BY <1>1 DEF OwnerStep, Prepare, PendingExpires, Activate, RetirePending, PublishCrl,
     RevokeRetiring, RevokeAgent, EnableHost
<1>6. crl' \subseteq Gens /\ \A g \in crl' : g <= agent.version
  <2>1. CASE PublishCrl
    <3>1. PICK g \in Has("retiring") \cup Active : crl' = crl \cup {g}
      BY <2>1 DEF PublishCrl
    <3>2. g \in Gens /\ g <= agent.version
      BY IssuedRow DEF Has, Active
    <3> QED BY <1>1, <3>1, <3>2 DEF LifecycleInv, Holders
  <2>2. CASE ~PublishCrl
    <3>1. crl' = crl
      BY <2>2 DEF OwnerStep, Prepare, PendingExpires, Activate, RetirePending, RevokeRetiring,
         RevokeAgent, EnableHost
    <3> QED BY <1>1, <3>1 DEF LifecycleInv, Holders
  <2> QED BY <2>1, <2>2
<1>7. Holders'
  <2>1. /\ installer.gen \in Nat /\ installer.was \in Nat /\ maintainer.was \in Nat
        /\ \A g \in crl' : g \in Nat
    BY <1>6, LifecycleTypes, HolderNats
  <2> QED BY <1>2, <1>3, <1>6, <2>1, LifecycleTypes, VersionTyped DEF LifecycleInv, Holders
<1>8. CoreTypeOK'
  <2>1. agent' \in [version : 0 .. MaxVersion, revoked : BOOLEAN] /\ identity' \in [Gens -> States]
    BY <1>3 DEF Rows, Gens
  <2> QED BY <1>2, <1>4, <1>5, <1>6, <2>1 DEF LifecycleInv, CoreTypeOK, IdentityTypeOK, Gens
<1>9. Scripts'
  BY <1>2 DEF LifecycleInv, Scripts, InstallerOff, MaintainerOff, Kind
<1> QED BY <1>3, <1>7, <1>8, <1>9 DEF LifecycleInv
\* The daemon and the host: nothing else moves.
LEMMA DaemonInv ==
  ASSUME LifecycleInv, InstallPending \/ DaemonStep, UNCHANGED <<enrollVars, maintVars>>
  PROVE  LifecycleInv'
<1>1. /\ pending \in [beats : 0 .. 2, live : BOOLEAN] /\ crl \subseteq Gens
      /\ {enabled, running} \subseteq BOOLEAN
      /\ daemon \in [pc : {"idle", "renew", "switch"}, version : 0 .. MaxVersion]
  BY DEF LifecycleInv, CoreTypeOK, IdentityTypeOK
<1>2. UNCHANGED <<crl, enabled, running>>
  BY DEF InstallPending, DaemonStep, PendingHeartbeat, Renew, RefuseRenewal, Switch
<1>3. CASE Renew
  <2>1. CanClaim /\ Renewed(local) /\ local \in Active
    BY <1>3 DEF Renew, CanRenew, Speaks, Active, Has
  <2>2. Rows' /\ agent.version <= agent'.version /\ agent'.version = Next1
    BY <2>1, RenewedRows
  <2>3. daemon' \in {Idle, [pc |-> "switch", version |-> Next1]} /\ local' = local /\ pending' = pending
    BY <1>1, <1>3 DEF Renew
  <2>4. daemon' \in [pc : {"idle", "renew", "switch"}, version : 0 .. MaxVersion]
        /\ daemon'.version <= agent'.version
    <3>1. agent'.version \in 0 .. MaxVersion
      BY <2>2, VersionTyped
    <3> QED BY <2>2, <2>3, <3>1, LifecycleTypes DEF Idle
  <2>5. Holders'
    <3>1. /\ installer.gen \in Nat /\ installer.was \in Nat /\ maintainer.was \in Nat
          /\ \A g \in crl : g \in Nat
      BY HolderNats
    <3>2. agent'.version \in 0 .. MaxVersion
      BY <2>2, VersionTyped
    <3> QED BY <1>2, <2>2, <2>3, <2>4, <3>1, <3>2, LifecycleTypes DEF LifecycleInv, Holders
  <2>6. CoreTypeOK'
    <3>1. agent' \in [version : 0 .. MaxVersion, revoked : BOOLEAN] /\ identity' \in [Gens -> States]
      BY <2>2 DEF Rows, Gens
    <3> QED BY <1>1, <1>2, <2>3, <2>4, <3>1 DEF LifecycleInv, CoreTypeOK, IdentityTypeOK, Gens
  <2>7. Scripts'
    BY <1>2, <1>3, <2>3 DEF LifecycleInv, Scripts, InstallerOff, MaintainerOff, Kind, Renew, Idle
  <2> QED BY <2>2, <2>5, <2>6, <2>7 DEF LifecycleInv
<1>4. CASE ~Renew
  <2>1. UNCHANGED <<agent, identity>>
    BY <1>4 DEF InstallPending, DaemonStep, PendingHeartbeat, Renew, RefuseRenewal, Switch
  <2>2. local' \in 0 .. MaxVersion /\ local' <= agent.version
    <3>1. CASE InstallPending
      <4>1. local' \in Gens /\ identity[local'] = "pending"
        BY <3>1 DEF InstallPending, Has
      <4> QED BY <4>1, IssuedRow, LifecycleTypes
    <3>2. CASE ~InstallPending
      <4>1. local' \in {local, daemon.version}
        BY <1>4, <3>2 DEF DaemonStep, PendingHeartbeat, RefuseRenewal, Switch
      <4> QED BY <4>1, LifecycleTypes DEF LifecycleInv, Holders
    <3> QED BY <3>1, <3>2
  <2>3. daemon' \in {daemon, Idle}
    BY <1>4 DEF InstallPending, DaemonStep, PendingHeartbeat, RefuseRenewal, Switch
  <2>4. daemon' \in [pc : {"idle", "renew", "switch"}, version : 0 .. MaxVersion]
        /\ daemon'.version <= agent.version
    <3>1. Idle \in [pc : {"idle", "renew", "switch"}, version : 0 .. MaxVersion] /\ Idle.version = 0
      BY LifecycleTypes DEF Idle
    <3> QED BY <1>1, <2>3, <3>1, LifecycleTypes DEF LifecycleInv, Holders
  <2>5. pending' \in [beats : 0 .. 2, live : BOOLEAN]
    <3>1. CASE PendingHeartbeat
      <4>1. pending.beats + 1 \in 0 .. 2
        BY <1>1, <3>1 DEF PendingHeartbeat
      <4>2. pending' = [pending EXCEPT !.beats = pending.beats + 1]
        BY <3>1 DEF PendingHeartbeat
      <4> QED BY <1>1, <4>1, <4>2
    <3>2. CASE ~PendingHeartbeat
      BY <1>1, <1>4, <3>2 DEF InstallPending, DaemonStep, RefuseRenewal, Switch
    <3> QED BY <3>1, <3>2
  <2>6. Rows' /\ agent' = agent
    BY <2>1, RowsKept
  <2>7. Holders'
    BY <1>2, <2>2, <2>4, <2>6 DEF LifecycleInv, Holders
  <2>8. CoreTypeOK'
    BY <1>1, <1>2, <2>1, <2>2, <2>4, <2>5 DEF LifecycleInv, CoreTypeOK, IdentityTypeOK
  <2>9. Scripts'
    BY <1>2, <2>3 DEF LifecycleInv, Scripts, InstallerOff, MaintainerOff, Kind, Idle
  <2> QED BY <2>6, <2>7, <2>8, <2>9 DEF LifecycleInv
<1> QED BY <1>3, <1>4
LEMMA TypesSplit ==
  CoreTypeOK <=> /\ IdentityTypeOK /\ token \in TokenRows /\ installer \in Installers
                 /\ session \in [Sessions -> SessionRow] /\ maintainer \in Maintainers
BY DEF CoreTypeOK

LEMMA TypesSplitNext ==
  CoreTypeOK' <=> /\ IdentityTypeOK' /\ token' \in TokenRows /\ installer' \in Installers
                  /\ session' \in [Sessions -> SessionRow] /\ maintainer' \in Maintainers
BY DEF CoreTypeOK, TokenRows, Installers, SessionRow, Maintainers, Tokens, Sessions

LEMMA TokenTyped ==
  ASSUME NEW rows \in TokenRows, NEW i, NEW st \in TokenState
  PROVE  [rows EXCEPT ![i].status = st] \in TokenRows
BY DEF TokenRows

LEMMA SetTokenTyped ==
  ASSUME token \in TokenRows, NEW i, NEW st \in TokenState, SetToken(i, st)
  PROVE  token' \in TokenRows
BY TokenTyped DEF SetToken

LEMMA InstallerOffTyped ==
  ASSUME LifecycleInv
  PROVE  NoInstall \in Installers /\ NoScript \in Maintainers
<1>1. 0 \in 0 .. MaxTokens /\ 0 \in 0 .. MaxVersion /\ 0 \in 0 .. MaxSessions /\ 0 \in 0 .. 6
  BY LifecycleTypes
<1> QED BY <1>1 DEF NoInstall, NoScript, Installers, Maintainers

LEMMA IdentityUntouched ==
  ASSUME LifecycleInv, UNCHANGED identityVars
  PROVE  IdentityTypeOK' /\ Rows' /\ agent' = agent
BY RowsKept DEF LifecycleInv, CoreTypeOK, IdentityTypeOK

LEMMA TokensInv ==
  ASSUME LifecycleInv, IssueToken \/ RevokeToken \/ StartInstaller
  PROVE  LifecycleInv'
<1>1. UNCHANGED <<identityVars, maintVars>>
  BY DEF IssueToken, RevokeToken, StartInstaller
<1>2. token \in TokenRows /\ installer \in Installers
  BY TypesSplit DEF LifecycleInv
<1>3. {"waiting", "revoked", "none"} \subseteq TokenState
  BY StatusSets DEF TokenState
<1>4. token' \in TokenRows
  <2>1. CASE IssueToken
    <3>1. PICK i \in Tokens : token' = [j \in Tokens |->
            IF j = i THEN [token[i] EXCEPT !.status = "waiting"]
            ELSE IF token[j].status # "none" /\ ~token[j].used
                 THEN [token[j] EXCEPT !.status = "revoked"]
            ELSE token[j]]
      BY <2>1 DEF IssueToken
    <3>2. \A j \in Tokens : /\ token[j] \in [status : TokenState, used : BOOLEAN]
                            /\ [token[j] EXCEPT !.status = "waiting"] \in [status : TokenState, used : BOOLEAN]
                            /\ [token[j] EXCEPT !.status = "revoked"] \in [status : TokenState, used : BOOLEAN]
      BY <1>2, <1>3 DEF TokenRows
    <3> QED BY <3>1, <3>2 DEF TokenRows
  <2>2. CASE RevokeToken
    <3>1. PICK i \in Tokens : SetToken(i, "revoked")
      BY <2>2 DEF RevokeToken
    <3> QED BY <1>2, <1>3, <3>1, SetTokenTyped
  <2>3. CASE StartInstaller
    BY <1>2, <2>3 DEF StartInstaller
  <2> QED BY <2>1, <2>2, <2>3
<1>5. /\ installer' \in Installers /\ installer'.gen <= agent.version /\ installer'.was <= agent.version
      /\ installer' = installer \/ MaintainerOff
  <2>1. CASE StartInstaller
    <3>1. PICK i \in Tokens : installer' = [NoInstall EXCEPT !.pc = "verify", !.token = i]
      BY <2>1 DEF StartInstaller
    <3>2. installer' = [pc |-> "verify", token |-> i, gen |-> 0, changed |-> FALSE,
                        was |-> 0, ran |-> FALSE]
      BY <3>1 DEF NoInstall
    <3>3. i \in 0 .. MaxTokens /\ 0 \in 0 .. MaxVersion /\ 0 <= agent.version
      BY LifecycleTypes DEF Tokens
    <3>4. installer' \in Installers /\ installer'.gen = 0 /\ installer'.was = 0
      BY <3>2, <3>3 DEF Installers
    <3> QED BY <2>1, <3>3, <3>4 DEF StartInstaller
  <2>2. CASE ~StartInstaller
    BY <1>2, <2>2 DEF IssueToken, RevokeToken, LifecycleInv, Holders
  <2> QED BY <2>1, <2>2
<1>6. Rows' /\ IdentityTypeOK' /\ agent' = agent
  BY <1>1, IdentityUntouched
<1>7. CoreTypeOK'
  BY <1>1, <1>4, <1>5, <1>6, TypesSplit, TypesSplitNext DEF LifecycleInv
<1>8. Holders'
  BY <1>1, <1>5 DEF LifecycleInv, Holders
<1>9. Scripts'
  BY <1>1, <1>5 DEF LifecycleInv, Scripts, InstallerOff, MaintainerOff, Kind
<1> QED BY <1>6, <1>7, <1>8, <1>9 DEF LifecycleInv

\* The installer's steps that leave the identities and the host alone.
LEMMA InstallerReportsInv ==
  ASSUME LifecycleInv, InstallerFails \/ ReportVerified \/ RefuseBootstrap \/ ReportStarted
  PROVE  LifecycleInv'
<1>1. UNCHANGED <<identityVars, maintVars>>
  BY DEF InstallerFails, ReportVerified, RefuseBootstrap, ReportStarted
<1>2. token \in TokenRows /\ installer \in Installers
  BY TypesSplit DEF LifecycleInv
<1>3. {"agent_verified", "service_started"} \subseteq TokenState
  BY StatusSets DEF TokenState
<1>4. token' \in TokenRows
  <2>1. \/ token' = token
        \/ SetToken(installer.token, "agent_verified")
        \/ SetToken(installer.token, "service_started")
    BY DEF InstallerFails, ReportVerified, RefuseBootstrap, ReportStarted
  <2>2. CASE token' = token
    BY <1>2, <2>2
  <2>3. ASSUME NEW st \in TokenState, SetToken(installer.token, st)
        PROVE  token' \in TokenRows
    BY <1>2, <2>3, SetTokenTyped
  <2> QED BY <1>3, <2>1, <2>2, <2>3
<1>5. /\ ~InstallerOff
      /\ \/ installer' = NoInstall
         \/ \E stage \in {"fail", "bootstrap"} : installer' = [installer EXCEPT !.pc = stage]
  BY DEF InstallerFails, ReportVerified, RefuseBootstrap, ReportStarted, InstallerOff
<1>6. /\ installer' \in Installers /\ installer'.gen <= agent.version /\ installer'.was <= agent.version
  <2>1. CASE installer' = NoInstall
    <3>1. NoInstall \in Installers /\ NoInstall.gen = 0 /\ NoInstall.was = 0
      BY InstallerOffTyped DEF NoInstall
    <3> QED BY <2>1, <3>1, LifecycleTypes
  <2>2. CASE \E stage \in {"fail", "bootstrap"} : installer' = [installer EXCEPT !.pc = stage]
    <3>1. installer' \in Installers /\ installer'.gen = installer.gen /\ installer'.was = installer.was
      BY <1>2, <2>2 DEF Installers
    <3> QED BY <3>1 DEF LifecycleInv, Holders
  <2> QED BY <1>5, <2>1, <2>2
<1>7. Rows' /\ IdentityTypeOK' /\ agent' = agent
  BY <1>1, IdentityUntouched
<1>8. CoreTypeOK'
  BY <1>1, <1>4, <1>6, <1>7, TypesSplit, TypesSplitNext DEF LifecycleInv
<1>9. Holders'
  BY <1>1, <1>6, <1>7 DEF LifecycleInv, Holders
<1>10. Scripts'
  BY <1>1, <1>5 DEF LifecycleInv, Scripts, InstallerOff, MaintainerOff, Kind
<1> QED BY <1>7, <1>8, <1>9, <1>10 DEF LifecycleInv

LEMMA BootstrapInv == LifecycleInv /\ Bootstrap => LifecycleInv'
<1> SUFFICES ASSUME LifecycleInv, Bootstrap PROVE LifecycleInv'
  OBVIOUS
<1>1. /\ UNCHANGED <<pending, crl, enabled, hostVars, maintVars>>
      /\ CanBootstrap /\ ~InstallerOff
      /\ agent' = [version |-> Next1, revoked |-> FALSE]
      /\ identity' = [identity EXCEPT ![Next1] = "active"]
  BY DEF Bootstrap, InstallerOff
<1>2. token \in TokenRows /\ installer \in Installers
  BY TypesSplit DEF LifecycleInv
<1>3. Rows' /\ agent.version <= agent'.version /\ agent'.version = Next1
  BY <1>1, BootstrapRows
<1>4. Next1 \in 0 .. MaxVersion
  BY <1>3, VersionTyped
<1>5. token' \in TokenRows
  <2>1. "certificate_issued" \in TokenState
    BY StatusSets DEF TokenState
  <2>2. token' = [token EXCEPT ![installer.token] =
                    [@ EXCEPT !.status = "certificate_issued", !.used = TRUE]]
    BY DEF Bootstrap
  <2> QED BY <1>2, <2>1, <2>2 DEF TokenRows
<1>7. \/ installer' = [installer EXCEPT !.pc = "install", !.gen = Next1]
      \/ installer' = [installer EXCEPT !.pc = "fail"]
  BY DEF Bootstrap
<1>8. /\ installer' \in Installers
      /\ installer'.gen \in {installer.gen, Next1} /\ installer'.was = installer.was
  BY <1>2, <1>4, <1>7 DEF Installers
<1>9. CoreTypeOK'
  <2>1. agent' \in [version : 0 .. MaxVersion, revoked : BOOLEAN] /\ identity' \in [Gens -> States]
    BY <1>3 DEF Rows, Gens
  <2>2. IdentityTypeOK'
    BY <1>1, <2>1 DEF LifecycleInv, CoreTypeOK, IdentityTypeOK, Gens
  <2> QED BY <1>1, <1>5, <1>8, <2>2, TypesSplit, TypesSplitNext DEF LifecycleInv
<1>10. Holders'
  <2>1. /\ installer.gen \in Nat /\ installer.was \in Nat /\ maintainer.was \in Nat
        /\ \A g \in crl : g \in Nat
    BY HolderNats
  <2> QED BY <1>1, <1>3, <1>4, <1>8, <2>1, LifecycleTypes DEF LifecycleInv, Holders
<1>11. Scripts'
  BY <1>1 DEF LifecycleInv, Scripts, InstallerOff, MaintainerOff, Kind
<1> QED BY <1>3, <1>9, <1>10, <1>11 DEF LifecycleInv
\* The steps of the installer on the host: the service is stopped, started, or
\* put back as it was.
LEMMA InstallInv == LifecycleInv /\ Install => LifecycleInv'
<1> SUFFICES ASSUME LifecycleInv, Install PROVE LifecycleInv'
  OBVIOUS
<1> DEFINE stage == IF Continues(installer.token) /\ Advances(installer.token, "service_installed")
                 THEN "start" ELSE "fail"
<1>1. /\ UNCHANGED <<controllerVars, maintVars>> /\ ~InstallerOff
      /\ running' = FALSE /\ daemon' = Idle
      /\ local' \in {installer.gen, local}
      /\ token' = token \/ token' = [token EXCEPT ![installer.token].status = "service_installed"]
      /\ installer' = [installer EXCEPT !.pc = stage, !.changed = TRUE, !.was = local, !.ran = running]
  BY DEF Install, Stopped, SetToken, InstallerOff, Linked
<1>2. /\ token \in TokenRows /\ installer \in Installers
      /\ running \in BOOLEAN
  BY TypesSplit DEF LifecycleInv, IdentityTypeOK
<1>3. stage \in {"start", "fail"}
  OBVIOUS
<1> HIDE DEF stage
<1>4. installer' \in Installers /\ installer'.gen = installer.gen /\ installer'.was = local
  BY <1>1, <1>2, <1>3, LifecycleTypes DEF Installers
<1>5. token' \in TokenRows
  <2>1. "service_installed" \in TokenState
    BY StatusSets DEF TokenState
  <2>2. [token EXCEPT ![installer.token].status = "service_installed"] \in TokenRows
    BY <1>2, <2>1, TokenTyped
  <2> QED BY <1>1, <1>2, <2>2
<1>6. Rows' /\ agent' = agent
  BY <1>1, RowsKept
<1>7. Idle \in [pc : {"idle", "renew", "switch"}, version : 0 .. MaxVersion] /\ Idle.version = 0
      /\ Idle.pc = "idle"
  BY LifecycleTypes DEF Idle
<1>8. local' \in 0 .. MaxVersion
  BY <1>1, <1>2, LifecycleTypes DEF Installers
<1>9. CoreTypeOK'
  <2>1. IdentityTypeOK'
    BY <1>1, <1>2, <1>7, <1>8 DEF LifecycleInv, CoreTypeOK, IdentityTypeOK
  <2> QED BY <1>1, <1>4, <1>5, <2>1, TypesSplit, TypesSplitNext DEF LifecycleInv
<1>10. Holders'
  BY <1>1, <1>4, <1>6, <1>7, LifecycleTypes DEF LifecycleInv, Holders
<1>11. Scripts'
  BY <1>1, <1>7 DEF LifecycleInv, Scripts, InstallerOff, MaintainerOff, Kind
<1> QED BY <1>6, <1>9, <1>10, <1>11 DEF LifecycleInv

LEMMA StartServiceInv == LifecycleInv /\ StartService => LifecycleInv'
<1> SUFFICES ASSUME LifecycleInv, StartService PROVE LifecycleInv'
  OBVIOUS
<1>1. /\ UNCHANGED <<controllerVars, local, daemon, enrollVars, maintVars>>
      /\ running' = TRUE
  BY DEF StartService
<1>2. Rows'
  BY <1>1, RowsKept
<1>3. CoreTypeOK'
  <2>1. IdentityTypeOK'
    BY <1>1 DEF LifecycleInv, CoreTypeOK, IdentityTypeOK
  <2> QED BY <1>1, <2>1, TypesSplit, TypesSplitNext DEF LifecycleInv
<1>4. Holders' /\ Scripts'
  BY <1>1 DEF LifecycleInv, Holders, Scripts, InstallerOff, MaintainerOff, Kind
<1> QED BY <1>2, <1>3, <1>4 DEF LifecycleInv

LEMMA RollBackInstallInv == LifecycleInv /\ RollBackInstall => LifecycleInv'
<1> SUFFICES ASSUME LifecycleInv, RollBackInstall PROVE LifecycleInv'
  OBVIOUS
<1>1. /\ UNCHANGED <<controllerVars, maintVars>>
      /\ installer' = NoInstall
      /\ token' = token \/ token' = [token EXCEPT ![installer.token].status = "failed"]
  BY DEF RollBackInstall, SetToken
<1>2. /\ token \in TokenRows /\ installer \in Installers
      /\ running \in BOOLEAN
      /\ daemon \in [pc : {"idle", "renew", "switch"}, version : 0 .. MaxVersion]
  BY TypesSplit DEF LifecycleInv, IdentityTypeOK
<1>3. \/ UNCHANGED hostVars
      \/ local' = installer.was /\ running' = installer.ran /\ daemon' = Idle
  BY DEF RollBackInstall
<1>4. token' \in TokenRows
  <2>1. "failed" \in TokenState
    BY DEF TokenState
  <2>2. [token EXCEPT ![installer.token].status = "failed"] \in TokenRows
    BY <1>2, <2>1, TokenTyped
  <2> QED BY <1>1, <1>2, <2>2
<1>5. Rows' /\ agent' = agent
  BY <1>1, RowsKept
<1>6. Idle \in [pc : {"idle", "renew", "switch"}, version : 0 .. MaxVersion] /\ Idle.version = 0
      /\ Idle.pc = "idle"
  BY LifecycleTypes DEF Idle
<1>7. /\ local' \in 0 .. MaxVersion /\ local' <= agent.version
      /\ running' \in BOOLEAN
      /\ daemon' \in [pc : {"idle", "renew", "switch"}, version : 0 .. MaxVersion]
      /\ daemon'.version <= agent.version /\ (daemon'.pc # "idle" => running')
  BY <1>2, <1>3, <1>6, LifecycleTypes DEF LifecycleInv, Holders, Scripts, Installers
<1>8. NoInstall \in Installers /\ NoInstall.gen = 0 /\ NoInstall.was = 0 /\ NoInstall.pc = "off"
  BY InstallerOffTyped DEF NoInstall
<1>9. CoreTypeOK'
  <2>1. IdentityTypeOK'
    BY <1>1, <1>7 DEF LifecycleInv, CoreTypeOK, IdentityTypeOK
  <2> QED BY <1>1, <1>4, <1>8, <2>1, TypesSplit, TypesSplitNext DEF LifecycleInv
<1>10. Holders'
  BY <1>1, <1>5, <1>7, <1>8, LifecycleTypes DEF LifecycleInv, Holders
<1>11. Scripts'
  BY <1>1, <1>7, <1>8 DEF LifecycleInv, Scripts, InstallerOff, MaintainerOff, Kind
<1> QED BY <1>5, <1>9, <1>10, <1>11 DEF LifecycleInv
\* A session keeps its kind, and its script stays at a step of that kind.
LEMMA SessionsKept ==
  ASSUME LifecycleInv, session' \in [Sessions -> SessionRow], UNCHANGED <<installer, maintainer>>,
         daemon'.pc # "idle" => running',
         \A i \in Sessions : session'[i].status # "none" => session'[i].kind \in AllKinds,
         \A i \in Sessions : session[i].status \in Underway =>
           session'[i].status = session[i].status /\ session'[i].kind = session[i].kind,
         \A i \in Sessions : session[i].status \in Ended =>
           session'[i].status \in Ended /\ session'[i].kind = session[i].kind
  PROVE  Scripts'
<1>1. InstallerOff' = InstallerOff /\ MaintainerOff' = MaintainerOff
  BY DEF InstallerOff, MaintainerOff
<1>2. ASSUME ~MaintainerOff
      PROVE  /\ maintainer'.session \in Sessions
             /\ session'[maintainer'.session].status \in Underway \cup Ended
             /\ maintainer'.pc # "fail" => session'[maintainer'.session].status \in Underway
             /\ maintainer'.at \in DOMAIN Script(Kind)'
  <2>1. /\ maintainer.session \in Sessions
        /\ session[maintainer.session].status \in Underway \cup Ended
        /\ maintainer.pc # "fail" => session[maintainer.session].status \in Underway
        /\ maintainer.at \in DOMAIN Script(Kind)
    BY <1>2 DEF LifecycleInv, Scripts
  <2>2. Kind' = Kind
    BY <2>1 DEF Kind
  <2>3. Script(Kind)' = Script(Kind)
    BY <2>2 DEF Script
  <2> QED BY <2>1, <2>3
<1> QED BY <1>1, <1>2 DEF LifecycleInv, Scripts, Sessions

LEMMA HeartbeatInv == LifecycleInv /\ Heartbeat => LifecycleInv'
<1> SUFFICES ASSUME LifecycleInv, Heartbeat PROVE LifecycleInv'
  OBVIOUS
<1>1. /\ UNCHANGED <<controllerVars, installer, maintainer>>
      /\ running /\ token' = Completed
      /\ session' = [i \in Sessions |->
                   [session[i] EXCEPT !.beat = @ \/ session[i].status \in ToSet(Tail(Progress))]]
      /\ \/ UNCHANGED hostVars
         \/ /\ UNCHANGED <<local, running>>
            /\ daemon' = [pc |-> "renew", version |-> agent.version]
  BY DEF Heartbeat, CanBeat, StartRenewal
<1>2. /\ token \in TokenRows /\ session \in [Sessions -> SessionRow]
      /\ daemon \in [pc : {"idle", "renew", "switch"}, version : 0 .. MaxVersion]
  BY TypesSplit DEF LifecycleInv, IdentityTypeOK
<1>3. token' \in TokenRows
  <2>1. "completed" \in TokenState
    BY StatusSets DEF TokenState
  <2>2. token' = token \/ \E i : token' = [token EXCEPT ![i].status = "completed"]
    BY <1>1 DEF Completed
  <2>3. CASE token' = token
    BY <1>2, <2>3
  <2>4. CASE \E i : token' = [token EXCEPT ![i].status = "completed"]
    <3>1. PICK i : token' = [token EXCEPT ![i].status = "completed"]
      BY <2>4
    <3>2. [token EXCEPT ![i].status = "completed"] \in TokenRows
      BY <1>2, <2>1, TokenTyped
    <3> QED BY <3>1, <3>2
  <2> QED BY <2>2, <2>3, <2>4
<1>4. /\ session' \in [Sessions -> SessionRow]
      /\ \A i \in Sessions : session'[i].kind = session[i].kind /\ session'[i].status = session[i].status
  <2>1. \A i \in Sessions : /\ session[i] \in SessionRow
                            /\ (session[i].beat \/ session[i].status \in ToSet(Tail(Progress))) \in BOOLEAN
    BY <1>2 DEF SessionRow
  <2> QED BY <1>1, <2>1 DEF SessionRow
<1>5. Rows' /\ agent' = agent
  BY <1>1, RowsKept
<1>6. daemon' \in [pc : {"idle", "renew", "switch"}, version : 0 .. MaxVersion]
      /\ daemon'.version <= agent.version
  <2>1. CASE daemon' = daemon
    BY <1>2, <2>1 DEF LifecycleInv, Holders
  <2>2. CASE daemon' = [pc |-> "renew", version |-> agent.version]
    BY <2>2, LifecycleTypes
  <2> QED BY <1>1, <2>1, <2>2
<1>7. CoreTypeOK'
  <2>1. IdentityTypeOK'
    BY <1>1, <1>6 DEF LifecycleInv, CoreTypeOK, IdentityTypeOK
  <2> QED BY <1>1, <1>3, <1>4, <2>1, TypesSplit, TypesSplitNext DEF LifecycleInv
<1>8. Holders'
  BY <1>1, <1>5, <1>6 DEF LifecycleInv, Holders
<1>9. Scripts'
  BY <1>1, <1>4, SessionsKept DEF LifecycleInv, Scripts
<1> QED BY <1>5, <1>7, <1>8, <1>9 DEF LifecycleInv

LEMMA IssueSessionInv ==
  ASSUME LifecycleInv, IssueSession
  PROVE  /\ LifecycleInv'
         /\ \A i \in Sessions : session'[i].status \in Underway <=> session[i].status \in Underway
         /\ \A i \in Sessions : session[i].status \in Underway \cup Ended =>
              session'[i].kind = session[i].kind
<1>1. UNCHANGED <<identityVars, enrollVars, maintainer>>
  BY DEF IssueSession
<1>2. PICK i \in Sessions : \E kind \in Kinds[i], old \in Active :
        /\ session[i].status = "none"
        /\ session' = [j \in Sessions |->
            IF j = i THEN [NoSession EXCEPT !.kind = kind, !.status = "waiting",
                             !.version = agent.version, !.old = old]
            ELSE IF session[j].status = "waiting"
                 THEN [session[j] EXCEPT !.status = "revoked"]
            ELSE session[j]]
  BY DEF IssueSession
<1>3. PICK kind \in Kinds[i], old \in Active :
        /\ session[i].status = "none"
        /\ session' = [j \in Sessions |->
            IF j = i THEN [NoSession EXCEPT !.kind = kind, !.status = "waiting",
                             !.version = agent.version, !.old = old]
            ELSE IF session[j].status = "waiting"
                 THEN [session[j] EXCEPT !.status = "revoked"]
            ELSE session[j]]
  BY <1>2
<1> DEFINE new == [NoSession EXCEPT !.kind = kind, !.status = "waiting",
                                    !.version = agent.version, !.old = old]
<1>4. session \in [Sessions -> SessionRow]
  BY TypesSplit DEF LifecycleInv
<1>5. kind \in AllKinds /\ old \in 0 .. MaxVersion
  BY LifecycleAssumption, LifecycleTypes DEF Active, Has, Sessions
<1>6. NoSession \in SessionRow
  BY LifecycleTypes DEF NoSession, SessionRow
<1>7. new \in SessionRow /\ new.kind = kind /\ new.status = "waiting"
  <2>1. "waiting" \in ToSet(Progress)
    BY StatusSets
  <2> QED BY <1>5, <1>6, <2>1, LifecycleTypes DEF SessionRow, new
<1> HIDE DEF new
<1>8. \A j \in Sessions :
        /\ session'[j] \in SessionRow
        /\ session'[j].status # "none" => session'[j].kind \in AllKinds
        /\ session'[j].status \in Underway <=> session[j].status \in Underway
        /\ session[j].status \in Underway \cup Ended =>
             session'[j].status = session[j].status /\ session'[j].kind = session[j].kind
  <2> TAKE j \in Sessions
  <2>1. session[j] \in SessionRow /\ "waiting" \notin Underway \cup Ended
        /\ "revoked" \notin Underway \cup Ended /\ "none" \notin Underway \cup Ended
    BY <1>4, StatusSets DEF Underway, Ended
  <2>2. CASE j = i
    <3>1. session'[j] = new
      BY <1>3, <2>2 DEF new
    <3> QED BY <1>3, <1>5, <1>7, <2>1, <2>2, <3>1
  <2>3. CASE j # i /\ session[j].status = "waiting"
    <3>1. session'[j] = [session[j] EXCEPT !.status = "revoked"]
      BY <1>3, <2>3
    <3>2. session'[j] \in SessionRow /\ session'[j].kind = session[j].kind /\ session'[j].status = "revoked"
      BY <2>1, <3>1 DEF SessionRow, Terminal
    <3>3. session[j].kind \in AllKinds
      BY <2>3 DEF LifecycleInv, Scripts
    <3> QED BY <2>1, <2>3, <3>2, <3>3
  <2>4. CASE j # i /\ session[j].status # "waiting"
    <3>1. session'[j] = session[j]
      BY <1>3, <2>4
    <3> QED BY <2>1, <3>1 DEF LifecycleInv, Scripts
  <2> QED BY <2>2, <2>3, <2>4
<1>9. session' \in [Sessions -> SessionRow]
  BY <1>3, <1>8
<1>10. Rows' /\ IdentityTypeOK' /\ agent' = agent
  BY <1>1, IdentityUntouched
<1>11. CoreTypeOK'
  BY <1>1, <1>9, <1>10, TypesSplit, TypesSplitNext DEF LifecycleInv
<1>12. Holders'
  BY <1>1 DEF LifecycleInv, Holders
<1>13. Scripts'
  BY <1>1, <1>8, <1>9, SessionsKept DEF LifecycleInv, Scripts
<1> QED BY <1>8, <1>10, <1>11, <1>12, <1>13 DEF LifecycleInv
\* The script that is at work, its session and the step it is at.
LEMMA AtWork ==
  ASSUME LifecycleInv, ~MaintainerOff
  PROVE  /\ maintainer.session \in Sessions
         /\ session[maintainer.session].status \in Underway \cup Ended
         /\ maintainer.pc # "fail" => session[maintainer.session].status \in Underway
         /\ Kind \in AllKinds /\ InstallerOff
         /\ maintainer.at \in DOMAIN Script(Kind) /\ DOMAIN Script(Kind) = 1 .. Len(Script(Kind))
         /\ Len(Script(Kind)) \in 1 .. 6
         /\ maintainer.at < Len(Script(Kind)) => Due \in Underway
         /\ maintainer.at = Len(Script(Kind)) => Due \in Ended
<1>1. /\ maintainer.session \in Sessions
      /\ session[maintainer.session].status \in Underway \cup Ended
      /\ maintainer.pc # "fail" => session[maintainer.session].status \in Underway
      /\ maintainer.at \in DOMAIN Script(Kind) /\ InstallerOff
  BY DEF LifecycleInv, Scripts
<1>2. Kind \in AllKinds
  BY <1>1, StatusSets DEF LifecycleInv, Scripts, Underway, Ended, Kind
<1> QED BY <1>1, <1>2, ScriptFacts DEF Due, Ended

LEMMA SessionTyped ==
  ASSUME NEW rows \in [Sessions -> SessionRow], NEW i \in Sessions,
         NEW st \in ToSet(Progress) \cup Terminal
  PROVE  /\ [rows EXCEPT ![i].status = st] \in [Sessions -> SessionRow]
         /\ [rows EXCEPT ![i].status = st][i].status = st
         /\ [rows EXCEPT ![i].status = st][i].kind = rows[i].kind
         /\ \A j \in Sessions \ {i} : [rows EXCEPT ![i].status = st][j] = rows[j]
BY DEF SessionRow

LEMMA StartMaintenanceInv ==
  ASSUME LifecycleInv, StartMaintenance
  PROVE  LifecycleInv'
<1>1. /\ UNCHANGED <<controllerVars, hostVars, enrollVars>> /\ MaintainerOff /\ InstallerOff
      /\ \E i \in Sessions :
           /\ session[i].status = "waiting"
           /\ session' = [session EXCEPT ![i].status = "started"]
           /\ \/ maintainer' = [NoScript EXCEPT !.pc = "do", !.session = i, !.at = 1]
              \/ UNCHANGED maintainer
  BY DEF StartMaintenance
<1>2. PICK i \in Sessions :
           /\ session[i].status = "waiting"
           /\ session' = [session EXCEPT ![i].status = "started"]
           /\ \/ maintainer' = [NoScript EXCEPT !.pc = "do", !.session = i, !.at = 1]
              \/ UNCHANGED maintainer
  BY <1>1
<1>3. session \in [Sessions -> SessionRow]
      /\ "started" \in ToSet(Progress) \cup Terminal /\ "started" \in Underway
  BY TypesSplit, StatusSets DEF LifecycleInv, IdentityTypeOK, Underway
<1>4. /\ session' \in [Sessions -> SessionRow]
      /\ session'[i].status = "started" /\ session'[i].kind = session[i].kind
      /\ \A j \in Sessions \ {i} : session'[j] = session[j]
  BY <1>2, <1>3, SessionTyped
<1>5. session[i].kind \in AllKinds
  BY <1>2 DEF LifecycleInv, Scripts
<1>6. Rows' /\ agent' = agent
  BY <1>1, RowsKept
<1>7. /\ maintainer' \in Maintainers /\ maintainer'.was <= agent.version
      /\ \/ maintainer' = maintainer
         \/ maintainer'.session = i /\ maintainer'.at = 1
  <2>1. CASE maintainer' = maintainer
    BY <2>1, TypesSplit DEF LifecycleInv, Holders
  <2>2. CASE maintainer' = [NoScript EXCEPT !.pc = "do", !.session = i, !.at = 1]
    <3>1. i \in 0 .. MaxSessions /\ 1 \in 0 .. 6 /\ 0 <= agent.version
      BY LifecycleTypes DEF Sessions
    <3>2. NoScript \in Maintainers /\ NoScript.was = 0
      BY InstallerOffTyped DEF NoScript
    <3>3. maintainer' \in Maintainers /\ maintainer'.was = 0 /\ maintainer'.session = i /\ maintainer'.at = 1
      BY <2>2, <3>1, <3>2 DEF Maintainers
    <3> QED BY <3>1, <3>3
  <2> QED BY <1>2, <2>1, <2>2
<1>8. CoreTypeOK'
  <2>1. IdentityTypeOK'
    BY <1>1 DEF LifecycleInv, CoreTypeOK, IdentityTypeOK
  <2> QED BY <1>1, <1>4, <1>7, <2>1, TypesSplit, TypesSplitNext DEF LifecycleInv
<1>9. Holders'
  BY <1>1, <1>7 DEF LifecycleInv, Holders
<1>10. Scripts'
  <2>1. ASSUME ~MaintainerOff'
        PROVE  /\ maintainer'.session \in Sessions
               /\ session'[maintainer'.session].status \in Underway
               /\ maintainer'.at \in DOMAIN Script(Kind)'
    <3>1. maintainer'.session = i /\ maintainer'.at = 1
      BY <1>1, <1>7, <2>1 DEF MaintainerOff
    <3>2. Kind' \in AllKinds
      BY <1>4, <1>5, <3>1 DEF Kind
    <3>3. 1 \in DOMAIN Script(Kind')
      BY <3>2, ScriptFacts
    <3>4. Script(Kind)' = Script(Kind')
      BY DEF Script
    <3> QED BY <1>3, <1>4, <3>1, <3>3, <3>4
  <2>2. \A j \in Sessions : session'[j].status # "none" => session'[j].kind \in AllKinds
    BY <1>4, <1>5 DEF LifecycleInv, Scripts
  <2>3. InstallerOff' /\ (daemon'.pc # "idle" => running')
    BY <1>1 DEF LifecycleInv, Scripts, InstallerOff
  <2> QED BY <2>1, <2>2, <2>3 DEF Scripts, Sessions
<1> QED BY <1>6, <1>8, <1>9, <1>10 DEF LifecycleInv

LEMMA FinalizeInv ==
  ASSUME LifecycleInv, Finalize
  PROVE  LifecycleInv'
<1>1. UNCHANGED <<pending, crl, hostVars, enrollVars, maintainer>>
  BY DEF Finalize
<1>2. PICK i \in Sessions :
       /\ session[i].status = "confirmation_pending"
       /\ IF session[i].kind = "decommission"
          THEN /\ session[i].old \in crl
               /\ identity' = [identity EXCEPT ![session[i].old] = "revoked"]
               /\ agent' = [agent EXCEPT !.revoked = TRUE]
               /\ enabled' = FALSE
          ELSE UNCHANGED <<identity, agent, enabled>>
       /\ session' = [session EXCEPT ![i].status = "completed"]
  BY DEF Finalize
<1>3. session \in [Sessions -> SessionRow] /\ enabled \in BOOLEAN
      /\ "completed" \in ToSet(Progress) \cup Terminal
  BY TypesSplit DEF LifecycleInv, IdentityTypeOK, Terminal
<1>4. /\ session' \in [Sessions -> SessionRow]
      /\ session'[i].status = "completed" /\ session'[i].kind = session[i].kind
      /\ \A j \in Sessions \ {i} : session'[j] = session[j]
  BY <1>2, <1>3, SessionTyped
<1>5. Rows' /\ agent.version <= agent'.version
  <2>1. CASE session[i].kind = "decommission"
    BY <1>2, <2>1, FinalizeRows
  <2>2. CASE session[i].kind # "decommission"
    BY <1>2, <2>2, RowsKept
  <2> QED BY <2>1, <2>2
<1>6. CoreTypeOK'
  <2>1. agent' \in [version : 0 .. MaxVersion, revoked : BOOLEAN] /\ identity' \in [Gens -> States]
    BY <1>5 DEF Rows, Gens
  <2>2. enabled' \in BOOLEAN
    BY <1>2, <1>3
  <2>3. IdentityTypeOK'
    BY <1>1, <2>1, <2>2 DEF LifecycleInv, CoreTypeOK, IdentityTypeOK, Gens
  <2> QED BY <1>1, <1>4, <2>3, TypesSplit, TypesSplitNext DEF LifecycleInv
<1>7. Holders'
  BY <1>1, <1>5, VersionTyped, HoldersKept
<1>8. Scripts'
  <2>1. "confirmation_pending" \notin Underway /\ "completed" \in Ended
    BY DEF Underway, Ended
  <2>2. \A j \in Sessions : session'[j].status # "none" => session'[j].kind \in AllKinds
    BY <1>2, <1>4 DEF LifecycleInv, Scripts
  <2> QED BY <1>1, <1>2, <1>4, <2>1, <2>2, SessionsKept DEF LifecycleInv, Scripts
<1> QED BY <1>5, <1>6, <1>7, <1>8 DEF LifecycleInv

LEMMA RebootInv == LifecycleInv /\ Reboot => LifecycleInv'
<1> SUFFICES ASSUME LifecycleInv, Reboot PROVE LifecycleInv'
  OBVIOUS
<1>1. /\ installer' = NoInstall /\ maintainer' = NoScript /\ daemon' = Idle
      /\ running' \in BOOLEAN
      /\ UNCHANGED <<controllerVars, local, token, session>>
  BY DEF Reboot
<1>2. /\ NoInstall \in Installers /\ NoScript \in Maintainers
      /\ NoInstall.gen = 0 /\ NoInstall.was = 0 /\ NoInstall.pc = "off"
      /\ NoScript.was = 0 /\ NoScript.pc = "off"
  BY InstallerOffTyped DEF NoInstall, NoScript
<1>3. Idle \in [pc : {"idle", "renew", "switch"}, version : 0 .. MaxVersion] /\ Idle.version = 0
      /\ Idle.pc = "idle"
  BY LifecycleTypes DEF Idle
<1>4. Rows' /\ agent' = agent
  BY <1>1, RowsKept
<1>5. CoreTypeOK'
  <2>1. IdentityTypeOK'
    BY <1>1, <1>3 DEF LifecycleInv, CoreTypeOK, IdentityTypeOK
  <2> QED BY <1>1, <1>2, <2>1, TypesSplit, TypesSplitNext DEF LifecycleInv
<1>6. Holders'
  BY <1>1, <1>2, <1>3, <1>4, LifecycleTypes DEF LifecycleInv, Holders
<1>7. Scripts'
  BY <1>1, <1>2, <1>3 DEF LifecycleInv, Scripts, InstallerOff, MaintainerOff
<1> QED BY <1>4, <1>5, <1>6, <1>7 DEF LifecycleInv
\* The script goes on with the same step of the same session.
LEMMA SameStep ==
  ASSUME LifecycleInv, ~MaintainerOff, maintainer.pc # "fail", UNCHANGED <<session, installer>>,
         maintainer'.session = maintainer.session, maintainer'.at = maintainer.at,
         daemon'.pc # "idle" => running'
  PROVE  Scripts'
<1>1. Kind' = Kind
  BY DEF Kind
<1>2. Script(Kind)' = Script(Kind)
  BY <1>1 DEF Script
<1>3. InstallerOff'
  BY AtWork DEF InstallerOff
<1> QED BY <1>2, <1>3, AtWork DEF LifecycleInv, Scripts, Sessions

LEMMA StopServiceInv == LifecycleInv /\ StopService => LifecycleInv'
<1> SUFFICES ASSUME LifecycleInv, StopService PROVE LifecycleInv'
  OBVIOUS
<1>1. /\ UNCHANGED <<controllerVars, local, enrollVars, session>> /\ ~MaintainerOff
      /\ maintainer.pc # "fail" /\ running' = FALSE /\ daemon' = Idle
      /\ maintainer' = [maintainer EXCEPT !.pc = "report", !.changed = TRUE,
                                          !.was = local, !.ran = running]
  BY DEF StopService, Stopped, Doing, MaintainerOff
<1>2. maintainer \in Maintainers /\ running \in BOOLEAN
  BY TypesSplit DEF LifecycleInv, IdentityTypeOK
<1>3. /\ maintainer' \in Maintainers /\ maintainer'.session = maintainer.session
      /\ maintainer'.at = maintainer.at /\ maintainer'.was = local
  BY <1>1, <1>2, LifecycleTypes DEF Maintainers
<1>4. Idle \in [pc : {"idle", "renew", "switch"}, version : 0 .. MaxVersion] /\ Idle.version = 0
      /\ Idle.pc = "idle"
  BY LifecycleTypes DEF Idle
<1>5. Rows' /\ agent' = agent
  BY <1>1, RowsKept
<1>6. CoreTypeOK'
  <2>1. IdentityTypeOK'
    BY <1>1, <1>2, <1>4 DEF LifecycleInv, CoreTypeOK, IdentityTypeOK
  <2> QED BY <1>1, <1>3, <2>1, TypesSplit, TypesSplitNext DEF LifecycleInv
<1>7. Holders'
  BY <1>1, <1>3, <1>4, <1>5, LifecycleTypes DEF LifecycleInv, Holders
<1>8. Scripts'
  BY <1>1, <1>3, <1>4, SameStep
<1> QED BY <1>5, <1>6, <1>7, <1>8 DEF LifecycleInv

LEMMA RotateIdentityInv == LifecycleInv /\ RotateIdentity => LifecycleInv'
<1> SUFFICES ASSUME LifecycleInv, RotateIdentity PROVE LifecycleInv'
  OBVIOUS
<1>1. /\ UNCHANGED <<pending, crl, enabled, running, daemon, enrollVars, session>> /\ ~MaintainerOff
      /\ maintainer.pc # "fail" /\ CanClaim /\ Renewed(local) /\ local \in Active
      /\ \/ /\ local' = Next1
            /\ maintainer' = [maintainer EXCEPT !.pc = "report", !.activated = TRUE]
         \/ /\ maintainer' = [maintainer EXCEPT !.pc = "fail"]
            /\ UNCHANGED local
  BY DEF RotateIdentity, CanRenew, Speaks, Active, Has, Doing, MaintainerOff
<1>2. maintainer \in Maintainers
  BY TypesSplit DEF LifecycleInv
<1>3. /\ maintainer' \in Maintainers /\ maintainer'.session = maintainer.session
      /\ maintainer'.at = maintainer.at /\ maintainer'.was = maintainer.was
  BY <1>1, <1>2 DEF Maintainers
<1>4. Rows' /\ agent.version <= agent'.version /\ agent'.version = Next1
  BY <1>1, RenewedRows
<1>5. Next1 \in 0 .. MaxVersion
  BY <1>4, VersionTyped
<1>6. CoreTypeOK'
  <2>1. agent' \in [version : 0 .. MaxVersion, revoked : BOOLEAN] /\ identity' \in [Gens -> States]
    BY <1>4 DEF Rows, Gens
  <2>2. local' \in 0 .. MaxVersion
    BY <1>1, <1>5, LifecycleTypes
  <2>3. IdentityTypeOK'
    BY <1>1, <2>1, <2>2 DEF LifecycleInv, CoreTypeOK, IdentityTypeOK, Gens
  <2> QED BY <1>1, <1>3, <2>3, TypesSplit, TypesSplitNext DEF LifecycleInv
<1>7. Holders'
  <2>1. /\ installer.gen \in Nat /\ installer.was \in Nat /\ maintainer.was \in Nat
        /\ \A g \in crl : g \in Nat
    BY HolderNats
  <2> QED BY <1>1, <1>3, <1>4, <1>5, <2>1, LifecycleTypes DEF LifecycleInv, Holders
<1>8. Scripts'
  BY <1>1, <1>3, SameStep DEF LifecycleInv, Scripts
<1> QED BY <1>4, <1>6, <1>7, <1>8 DEF LifecycleInv

\* The service is started, the agent removed, or the script fails.
LEMMA ScriptOnlyInv ==
  ASSUME LifecycleInv, RestartService \/ RemoveAgent \/ ScriptFails
  PROVE  LifecycleInv'
<1>1. /\ UNCHANGED <<controllerVars, daemon, enrollVars, session>> /\ ~MaintainerOff
      /\ maintainer.pc # "fail"
      /\ \E stage \in {"report", "fail"} : maintainer' = [maintainer EXCEPT !.pc = stage]
      /\ running' = running \/ running' = TRUE
      /\ local' = local \/ local' = 0
  BY DEF RestartService, RemoveAgent, ScriptFails, Done, Doing, MaintainerOff
<1>2. maintainer \in Maintainers /\ running \in BOOLEAN
  BY TypesSplit DEF LifecycleInv, IdentityTypeOK
<1>3. /\ maintainer' \in Maintainers /\ maintainer'.session = maintainer.session
      /\ maintainer'.at = maintainer.at /\ maintainer'.was = maintainer.was
  BY <1>1, <1>2 DEF Maintainers
<1>4. Rows' /\ agent' = agent
  BY <1>1, RowsKept
<1>5. CoreTypeOK'
  <2>1. running' \in BOOLEAN /\ local' \in 0 .. MaxVersion
    <3>1. running' \in BOOLEAN
      BY <1>1, <1>2
    <3>2. local' \in 0 .. MaxVersion
      BY <1>1, LifecycleTypes
    <3> QED BY <3>1, <3>2
  <2>2. IdentityTypeOK'
    BY <1>1, <2>1 DEF LifecycleInv, CoreTypeOK, IdentityTypeOK
  <2> QED BY <1>1, <1>3, <2>2, TypesSplit, TypesSplitNext DEF LifecycleInv
<1>6. Holders'
  BY <1>1, <1>3, <1>4, LifecycleTypes DEF LifecycleInv, Holders
<1>7. Scripts'
  <2>1. daemon'.pc # "idle" => running'
    BY <1>1 DEF LifecycleInv, Scripts
  <2> QED BY <1>1, <1>3, <2>1, SameStep
<1> QED BY <1>4, <1>5, <1>6, <1>7 DEF LifecycleInv

\* A report moves the script and its session on together; after the last one
\* the script is gone.
LEMMA ReportFacts ==
  ASSUME LifecycleInv, Report
  PROVE  /\ ~MaintainerOff
         /\ session' \in [Sessions -> SessionRow]
         /\ \A j \in Sessions \ {maintainer.session} : session'[j] = session[j]
         /\ session'[maintainer.session].status = Due
         /\ session'[maintainer.session].kind = Kind
         /\ \/ /\ maintainer' = NoScript /\ Due \in Ended
            \/ /\ maintainer' = [maintainer EXCEPT !.pc = "do", !.at = maintainer.at + 1]
               /\ maintainer.at + 1 \in DOMAIN Script(Kind) /\ maintainer.at + 1 \in 0 .. 6
               /\ Due \in Underway
            \/ maintainer' = [maintainer EXCEPT !.pc = "fail"] /\ Due \in Underway \cup Ended
<1>1. ~MaintainerOff
  BY DEF Report, Reporting, MaintainerOff
<1>2. session \in [Sessions -> SessionRow]
  BY TypesSplit DEF LifecycleInv
<1>3. Due \in ToSet(Progress) \cup Terminal
  BY <1>1, AtWork, StatusSets DEF Underway, Ended, Terminal
<1>4. session' = [session EXCEPT ![maintainer.session].status = Due]
  BY DEF Report
<1>5. /\ session' \in [Sessions -> SessionRow]
      /\ session'[maintainer.session].status = Due
      /\ session'[maintainer.session].kind = Kind
      /\ \A j \in Sessions \ {maintainer.session} : session'[j] = session[j]
  <2> DEFINE i == maintainer.session
             st == Due
  <2>1. i \in Sessions /\ st \in ToSet(Progress) \cup Terminal
        /\ session' = [session EXCEPT ![i].status = st]
    BY <1>1, <1>3, <1>4, AtWork
  <2>2. Kind = session[i].kind
    BY DEF Kind
  <2> HIDE DEF i, st
  <2>3. /\ session' \in [Sessions -> SessionRow]
        /\ session'[i].status = st
        /\ session'[i].kind = session[i].kind
        /\ \A j \in Sessions \ {i} : session'[j] = session[j]
    BY <1>2, <2>1, SessionTyped
  <2> QED BY <2>2, <2>3 DEF i, st
<1>6. CASE maintainer' = [maintainer EXCEPT !.pc = "fail"]
  <2>1. Due \in Underway \cup Ended
    BY <1>1, AtWork
  <2> QED BY <1>1, <1>5, <1>6, <2>1
<1>7. CASE maintainer.at = Len(Script(Kind)) /\ maintainer' = NoScript
  <2>1. Due \in Ended
    BY <1>1, <1>7, AtWork
  <2> QED BY <1>1, <1>5, <1>7, <2>1
<1>8. CASE /\ maintainer.at # Len(Script(Kind))
           /\ maintainer' = [maintainer EXCEPT !.pc = "do", !.at = maintainer.at + 1]
  <2>1. maintainer.at < Len(Script(Kind)) /\ maintainer.at \in Nat
    BY <1>1, <1>8, AtWork
  <2>2. maintainer.at + 1 \in DOMAIN Script(Kind) /\ maintainer.at + 1 \in 0 .. 6 /\ Due \in Underway
    BY <1>1, <2>1, AtWork
  <2> QED BY <1>1, <1>5, <1>8, <2>2
<1> QED BY <1>6, <1>7, <1>8 DEF Report

LEMMA ReportInv == LifecycleInv /\ Report => LifecycleInv'
<1> SUFFICES ASSUME LifecycleInv, Report PROVE LifecycleInv'
  OBVIOUS
<1>1. UNCHANGED <<identityVars, enrollVars>>
  BY DEF Report
<1>2. maintainer \in Maintainers
  BY TypesSplit DEF LifecycleInv
<1>3. /\ maintainer' \in Maintainers /\ maintainer'.was <= agent.version
      /\ \/ maintainer' = NoScript
         \/ /\ maintainer'.session = maintainer.session /\ maintainer'.at = maintainer.at + 1
            /\ maintainer.at + 1 \in DOMAIN Script(Kind) /\ Due \in Underway
         \/ /\ maintainer'.session = maintainer.session /\ maintainer'.at = maintainer.at
            /\ maintainer'.pc = "fail" /\ Due \in Underway \cup Ended
  <2>1. CASE maintainer' = NoScript
    BY <2>1, InstallerOffTyped, LifecycleTypes DEF NoScript
  <2>2. CASE maintainer' = [maintainer EXCEPT !.pc = "do", !.at = maintainer.at + 1]
             /\ maintainer.at + 1 \in 0 .. 6
    <3>1. maintainer' \in Maintainers /\ maintainer'.was = maintainer.was
          /\ maintainer'.session = maintainer.session /\ maintainer'.at = maintainer.at + 1
      BY <1>2, <2>2 DEF Maintainers
    <3>2. maintainer'.was <= agent.version
      BY <3>1 DEF LifecycleInv, Holders
    <3>3. maintainer.at + 1 \in DOMAIN Script(Kind) /\ Due \in Underway
      <4>1. maintainer'.pc = "do"
        BY <1>2, <2>2 DEF Maintainers
      <4>2. maintainer' # NoScript
        BY <4>1 DEF NoScript
      <4>3. maintainer' # [maintainer EXCEPT !.pc = "fail"]
        BY <1>2, <4>1 DEF Maintainers
      <4> QED BY <4>2, <4>3, ReportFacts
    <3> QED BY <3>1, <3>2, <3>3
  <2>3. CASE maintainer' = [maintainer EXCEPT !.pc = "fail"] /\ Due \in Underway \cup Ended
    <3>1. maintainer' \in Maintainers /\ maintainer'.was = maintainer.was /\ maintainer'.pc = "fail"
          /\ maintainer'.session = maintainer.session /\ maintainer'.at = maintainer.at
      BY <1>2, <2>3 DEF Maintainers
    <3>2. maintainer'.was <= agent.version
      BY <3>1 DEF LifecycleInv, Holders
    <3> QED BY <2>3, <3>1, <3>2
  <2> QED BY <2>1, <2>2, <2>3, ReportFacts
<1>4. Rows' /\ IdentityTypeOK' /\ agent' = agent
  BY <1>1, IdentityUntouched
<1>5. CoreTypeOK'
  BY <1>1, <1>3, <1>4, ReportFacts, TypesSplit, TypesSplitNext DEF LifecycleInv
<1>6. Holders'
  BY <1>1, <1>3, <1>4 DEF LifecycleInv, Holders
<1>7. Scripts'
  <2>1. ~MaintainerOff /\ InstallerOff' /\ maintainer.session \in Sessions /\ Kind \in AllKinds
    BY <1>1, ReportFacts, AtWork DEF InstallerOff
  <2>2. \A j \in Sessions : session'[j].status # "none" => session'[j].kind \in AllKinds
    BY <2>1, ReportFacts DEF LifecycleInv, Scripts
  <2>3. ASSUME ~MaintainerOff'
        PROVE  /\ maintainer'.session \in Sessions
               /\ session'[maintainer'.session].status \in Underway \cup Ended
               /\ maintainer'.pc # "fail" => session'[maintainer'.session].status \in Underway
               /\ maintainer'.at \in DOMAIN Script(Kind)'
    <3>1. /\ maintainer'.session = maintainer.session
          /\ maintainer'.at \in DOMAIN Script(Kind)
          /\ Due \in Underway \cup Ended /\ (maintainer'.pc # "fail" => Due \in Underway)
      BY <1>3, <2>1, <2>3, AtWork DEF MaintainerOff, NoScript
    <3>2. Kind' = Kind
      BY <3>1, ReportFacts DEF Kind
    <3>3. Script(Kind)' = Script(Kind)
      BY <3>2 DEF Script
    <3> QED BY <2>1, <3>1, <3>3, ReportFacts
  <2>4. daemon'.pc # "idle" => running'
    BY <1>1 DEF LifecycleInv, Scripts
  <2> QED BY <2>1, <2>2, <2>3, <2>4 DEF Scripts, Sessions
<1> QED BY <1>4, <1>5, <1>6, <1>7 DEF LifecycleInv

LEMMA RollBackInv == LifecycleInv /\ RollBack => LifecycleInv'
<1> SUFFICES ASSUME LifecycleInv, RollBack PROVE LifecycleInv'
  OBVIOUS
<1> DEFINE verdict == IF Restores THEN "rolled_back" ELSE "failed"
           i == maintainer.session
<1>1. /\ UNCHANGED <<controllerVars, daemon, enrollVars>> /\ ~MaintainerOff
      /\ maintainer' = NoScript
      /\ local' \in {local, maintainer.was}
      /\ running' \in {running \/ maintainer.ran, running \/ maintainer.activated}
      /\ session' \in {session, [session EXCEPT ![i].status = verdict]}
  BY DEF RollBack, MaintainerOff
<1>2. /\ maintainer \in Maintainers /\ session \in [Sessions -> SessionRow]
      /\ running \in BOOLEAN /\ verdict \in ToSet(Progress) \cup Terminal
  BY TypesSplit DEF LifecycleInv, IdentityTypeOK, Terminal
<1> HIDE DEF verdict
<1>3. i \in Sessions /\ Kind \in AllKinds /\ InstallerOff
  BY <1>1, AtWork
<1>4. /\ session' \in [Sessions -> SessionRow]
      /\ \A j \in Sessions : session'[j].status # "none" => session'[j].kind \in AllKinds
  <2>1. CASE session' = session
    BY <1>2, <2>1 DEF LifecycleInv, Scripts
  <2>2. CASE session' = [session EXCEPT ![i].status = verdict]
    <3>1. /\ session' \in [Sessions -> SessionRow] /\ session'[i].kind = Kind
          /\ \A j \in Sessions \ {i} : session'[j] = session[j]
      BY <1>2, <1>3, <2>2, SessionTyped DEF Kind
    <3> QED BY <1>3, <3>1 DEF LifecycleInv, Scripts
  <2> QED BY <1>1, <2>1, <2>2
<1>5. running' \in BOOLEAN /\ local' \in 0 .. MaxVersion /\ local' <= agent.version
      /\ (running => running')
  BY <1>1, <1>2, LifecycleTypes DEF Maintainers, LifecycleInv, Holders
<1>6. NoScript \in Maintainers /\ NoScript.was = 0 /\ NoScript.pc = "off"
  BY InstallerOffTyped DEF NoScript
<1>7. Rows' /\ agent' = agent
  BY <1>1, RowsKept
<1>8. CoreTypeOK'
  <2>1. IdentityTypeOK'
    <3>1. UNCHANGED <<controllerVars, daemon>>
      BY <1>1
    <3> QED BY <1>5, <3>1 DEF LifecycleInv, CoreTypeOK, IdentityTypeOK
  <2> QED BY <1>1, <1>4, <1>6, <2>1, TypesSplit, TypesSplitNext DEF LifecycleInv
<1>9. Holders'
  BY <1>1, <1>5, <1>6, <1>7, LifecycleTypes DEF LifecycleInv, Holders
<1>10. Scripts'
  <2>1. InstallerOff' /\ MaintainerOff'
    BY <1>1, <1>3, <1>6 DEF InstallerOff, MaintainerOff
  <2>2. daemon'.pc # "idle" => running'
    BY <1>1, <1>5 DEF LifecycleInv, Scripts
  <2> QED BY <1>4, <2>1, <2>2 DEF Scripts, Sessions
<1> QED BY <1>7, <1>8, <1>9, <1>10 DEF LifecycleInv
LEMMA LifecycleNextInv == LifecycleInv /\ [LifecycleNext]_lifecycleVars => LifecycleInv'
<1> SUFFICES ASSUME LifecycleInv, [LifecycleNext]_lifecycleVars PROVE LifecycleInv'
  OBVIOUS
<1>1. CASE UNCHANGED lifecycleVars
  <2>1. IdentityTypeOK' /\ Rows' /\ agent' = agent
    BY <1>1, IdentityUntouched DEF lifecycleVars
  <2>2. CoreTypeOK'
    BY <1>1, <2>1, TypesSplit, TypesSplitNext DEF LifecycleInv, lifecycleVars
  <2>3. Holders' /\ Scripts'
    BY <1>1 DEF LifecycleInv, Holders, Scripts, InstallerOff, MaintainerOff, Kind, lifecycleVars
  <2> QED BY <2>1, <2>2, <2>3 DEF LifecycleInv
<1>2. CASE (OwnerStep \/ InstallPending \/ DaemonStep) /\ UNCHANGED <<enrollVars, maintVars>>
  BY <1>2, OwnerInv, DaemonInv
<1>3. CASE IssueToken \/ RevokeToken \/ StartInstaller \/ InstallerStep
  BY <1>3, TokensInv, InstallerReportsInv, BootstrapInv, InstallInv, StartServiceInv,
     RollBackInstallInv DEF InstallerStep
<1>4. CASE Heartbeat \/ IssueSession \/ StartMaintenance \/ Finalize \/ Reboot
  BY <1>4, HeartbeatInv, IssueSessionInv, StartMaintenanceInv, FinalizeInv, RebootInv
<1>5. CASE MaintainerStep
  BY <1>5, StopServiceInv, RotateIdentityInv, ScriptOnlyInv, ReportInv, RollBackInv DEF MaintainerStep
<1> QED BY <1>1, <1>2, <1>3, <1>4, <1>5 DEF LifecycleNext

LEMMA LifecycleInvariance == LifecycleSpec => []LifecycleInv
BY LifecycleInit_, LifecycleNextInv, PTL DEF LifecycleSpec

\* claim_agent_identity_version and the unique index: an agent that is not
\* revoked has one active identity, and never two that are pending.
THEOREM OneIdentity == LifecycleSpec => []OneActive
<1>1. LifecycleInv => OneActive
  <2> SUFFICES ASSUME LifecycleInv PROVE OneActive
    OBVIOUS
  <2>1. ASSUME Enrolled PROVE Cardinality(Active) = 1
    <3>1. PICK g \in Active : Active = {g}
      BY <2>1 DEF LifecycleInv, Rows, OneEach
    <3> QED BY <3>1, FS_Singleton
  <2>2. Cardinality(Has("pending")) <= 1
    <3>1. CASE Has("pending") = {}
      BY <3>1, FS_EmptySet
    <3>2. CASE Has("pending") # {}
      <4>1. PICK g \in Has("pending") : Has("pending") = {g}
        BY <3>2 DEF LifecycleInv, Rows, OneEach
      <4>2. Cardinality(Has("pending")) = 1
        BY <4>1, FS_Singleton
      <4> QED BY <4>2
    <3> QED BY <3>1, <3>2
  <2> QED BY <2>1, <2>2 DEF OneActive
<1> QED BY <1>1, LifecycleInvariance, PTL
-----------------------------------------------------------------------------
(* What the host has missed, and what a session may have lost: the types.    *)

HistoryTypeOK == FateTypeOK /\ stranded \subseteq Sessions

\* Where the generations that somebody holds may lie.
LEMMA HeldTypes ==
  ASSUME LifecycleInv
  PROVE  /\ {local, daemon.version, installer.gen, Arrived, Leads, InHand} \subseteq 0 .. MaxVersion
         /\ 0 \notin Gens /\ Active \subseteq Gens /\ Active \subseteq 1 .. MaxVersion
         /\ (0 .. MaxVersion) \ {0} = Gens
<1>1. installer.gen \in 0 .. MaxVersion
  BY DEF LifecycleInv, CoreTypeOK, Installers
<1>2. MaxVersion \in Nat /\ Gens = 1 .. MaxVersion /\ local \in 0 .. MaxVersion
      /\ daemon.version \in 0 .. MaxVersion /\ 0 \in 0 .. MaxVersion
  BY LifecycleTypes
<1>3. {Arrived, Leads, InHand} \subseteq 0 .. MaxVersion
  BY <1>1, <1>2 DEF Arrived, Leads, InHand
<1>4. 0 \notin Gens /\ (0 .. MaxVersion) \ {0} = Gens
  BY <1>2
<1>5. Active \subseteq Gens
  BY DEF Active, Has
<1> QED BY <1>1, <1>2, <1>3, <1>4, <1>5

LEMMA MissesFacts ==
  ASSUME LifecycleInv, NEW gens \in SUBSET (0 .. MaxVersion), Misses(gens)
  PROVE  /\ missed \subseteq missed' /\ \A g \in Active : g \in gens => g \in missed'
         /\ FateTypeOK => missed' \subseteq Gens
BY HeldTypes DEF Misses, FateTypeOK

\* What an action does to the history.
LEMMA OwnerFate ==
  ASSUME LifecycleInv, OwnerStep
  PROVE  /\ UNCHANGED enrolled
         /\ \/ UNCHANGED missed
            \/ \E gens \in SUBSET (0 .. MaxVersion) : Misses(gens)
<1>1. CASE Activate
  <2>1. PICK g \in Has("pending") : Crossed(g)
    BY <1>1 DEF Activate
  <2>2. {g} \in SUBSET (0 .. MaxVersion)
    BY LifecycleTypes DEF Has
  <2> QED BY <2>1, <2>2 DEF Crossed
<1>2. CASE ~Activate
  BY <1>2 DEF OwnerStep, Prepare, PendingExpires, RetirePending, PublishCrl, RevokeRetiring,
              RevokeAgent, EnableHost, fateVars
<1> QED BY <1>1, <1>2

LEMMA HostFate ==
  ASSUME LifecycleInv,
         \/ InstallPending \/ DaemonStep \/ Install \/ RollBackInstall \/ StopService
         \/ RotateIdentity \/ RemoveAgent \/ RollBack \/ Reboot
  PROVE  /\ UNCHANGED enrolled
         /\ \/ UNCHANGED missed
            \/ \E gens \in SUBSET (0 .. MaxVersion) : Misses(gens)
<1>1. /\ local \in 0 .. MaxVersion /\ installer.gen \in 0 .. MaxVersion
      /\ Arrived \in 0 .. MaxVersion /\ Leads \in 0 .. MaxVersion /\ InHand \in 0 .. MaxVersion
  BY HeldTypes
<1>2. CASE InstallPending \/ RemoveAgent
  <2>1. {local} \in SUBSET (0 .. MaxVersion)
    BY <1>1
  <2> QED BY <1>2, <2>1 DEF InstallPending, RemoveAgent
<1>3. CASE DaemonStep
  <2>1. CASE Renew
    <3>1. CanClaim
      BY <2>1 DEF Renew, CanRenew
    <3>2. {Next1} \in SUBSET (0 .. MaxVersion)
      BY <3>1, Claims DEF CanClaim
    <3> QED BY <2>1, <3>2 DEF Renew
  <2>2. CASE Switch
    <3>1. {Arrived} \in SUBSET (0 .. MaxVersion)
      BY <1>1
    <3> QED BY <2>2, <3>1 DEF Switch
  <2>3. CASE PendingHeartbeat \/ RefuseRenewal
    BY <2>3 DEF PendingHeartbeat, RefuseRenewal, fateVars
  <2> QED BY <1>3, <2>1, <2>2, <2>3 DEF DaemonStep
<1>4. CASE Install
  <2>1. {Arrived, IF Linked = local THEN installer.gen ELSE local} \in SUBSET (0 .. MaxVersion)
    BY <1>1
  <2> QED BY <1>4, <2>1 DEF Install
<1>5. CASE RollBackInstall
  <2>1. {Leads} \in SUBSET (0 .. MaxVersion) /\ {installer.gen} \in SUBSET (0 .. MaxVersion)
    BY <1>1
  <2> QED BY <1>5, <2>1 DEF RollBackInstall
<1>6. CASE StopService
  <2>1. {Arrived} \in SUBSET (0 .. MaxVersion)
    BY <1>1
  <2> QED BY <1>6, <2>1 DEF StopService
<1>7. CASE RotateIdentity
  <2>1. CanClaim
    BY <1>7 DEF RotateIdentity, CanRenew
  <2>2. {Next1} \in SUBSET (0 .. MaxVersion)
    BY <2>1, Claims DEF CanClaim
  <2> QED BY <1>7, <2>2 DEF RotateIdentity
<1>8. CASE RollBack
  <2>1. {local} \in SUBSET (0 .. MaxVersion)
    BY <1>1
  <2> QED BY <1>8, <2>1 DEF RollBack
<1>9. CASE Reboot
  <2>1. {Arrived, InHand} \in SUBSET (0 .. MaxVersion)
    BY <1>1
  <2> QED BY <1>9, <2>1 DEF Reboot
<1> QED BY <1>2, <1>3, <1>4, <1>5, <1>6, <1>7, <1>8, <1>9

LEMMA BootstrapFate ==
  ASSUME LifecycleInv, Bootstrap
  PROVE  /\ Next1 \in Gens /\ enrolled' = enrolled \cup {Next1}
         /\ \/ UNCHANGED missed
            \/ \E gens \in SUBSET (0 .. MaxVersion) : Misses(gens)
<1>1. Next1 \in Gens /\ {Next1} \in SUBSET (0 .. MaxVersion)
  BY Claims DEF Bootstrap, CanBootstrap
<1> QED BY <1>1 DEF Bootstrap

\* The others write no history of generations ...
LEMMA FateKept ==
  ASSUME \/ IssueToken \/ RevokeToken \/ StartInstaller \/ InstallerFails \/ ReportVerified
         \/ RefuseBootstrap \/ StartService \/ ReportStarted \/ Heartbeat \/ IssueSession
         \/ StartMaintenance \/ Finalize \/ RestartService \/ Report \/ ScriptFails
  PROVE  UNCHANGED fateVars
BY DEF IssueToken, RevokeToken, StartInstaller, InstallerFails, ReportVerified, RefuseBootstrap,
   StartService, ReportStarted, Heartbeat, IssueSession, StartMaintenance, Finalize,
   RestartService, Report, ScriptFails, identityVars

\* ... and a session is stranded where its script goes.
LEMMA StrandedFate ==
  ASSUME LifecycleInv, LifecycleNext
  PROVE  stranded' = stranded \/ \E i \in Sessions : stranded' = stranded \cup {i}
<1>1. CASE StartMaintenance
  BY <1>1 DEF StartMaintenance
<1>2. CASE RollBack
  <2>1. maintainer.session \in Sessions
    BY <1>2, AtWork DEF RollBack, MaintainerOff
  <2> QED BY <1>2, <2>1 DEF RollBack
<1>3. CASE Reboot
  <2>1. ~MaintainerOff => maintainer.session \in Sessions
    BY AtWork
  <2> QED BY <1>3, <2>1 DEF Reboot
<1>4. CASE (OwnerStep \/ InstallPending \/ DaemonStep) /\ UNCHANGED <<enrollVars, maintVars>>
  BY <1>4 DEF maintVars
<1>5. CASE IssueToken \/ RevokeToken \/ StartInstaller \/ InstallerStep
  BY <1>5 DEF IssueToken, RevokeToken, StartInstaller, InstallerStep, InstallerFails, ReportVerified,
     Bootstrap, RefuseBootstrap, Install, StartService, ReportStarted, RollBackInstall, maintVars
<1>6. CASE Heartbeat \/ IssueSession \/ Finalize
  BY <1>6 DEF Heartbeat, IssueSession, Finalize
<1>7. CASE StopService \/ RotateIdentity \/ RestartService \/ RemoveAgent \/ Report \/ ScriptFails
  BY <1>7 DEF StopService, RotateIdentity, RestartService, RemoveAgent, Report, ScriptFails
<1> QED BY <1>1, <1>2, <1>3, <1>4, <1>5, <1>6, <1>7 DEF LifecycleNext, MaintainerStep

LEMMA HistoryStep ==
  LifecycleInv /\ HistoryTypeOK /\ [LifecycleNext]_lifecycleVars => HistoryTypeOK'
<1> SUFFICES ASSUME LifecycleInv, HistoryTypeOK, [LifecycleNext]_lifecycleVars
             PROVE  HistoryTypeOK'
  OBVIOUS
<1>1. CASE UNCHANGED lifecycleVars
  BY <1>1 DEF HistoryTypeOK, FateTypeOK, lifecycleVars, identityVars, fateVars, Gens, Sessions
<1>2. CASE LifecycleNext
  <2>1. stranded' \subseteq Sessions
    BY <1>2, StrandedFate DEF HistoryTypeOK
  <2>2. /\ enrolled' = enrolled \/ enrolled' \subseteq enrolled \cup Gens
        /\ \/ UNCHANGED missed
           \/ \E gens \in SUBSET (0 .. MaxVersion) : Misses(gens)
    BY <1>2, OwnerFate, HostFate, BootstrapFate, FateKept
       DEF LifecycleNext, InstallerStep, MaintainerStep, fateVars
  <2>3. missed' \subseteq Gens
    BY <2>2, MissesFacts DEF HistoryTypeOK, FateTypeOK
  <2>4. enrolled' \subseteq Gens
    BY <2>2 DEF HistoryTypeOK, FateTypeOK
  <2> QED BY <2>1, <2>3, <2>4 DEF HistoryTypeOK, FateTypeOK, Gens, Sessions
<1> QED BY <1>1, <1>2

\* The types of the rows, the host, the scripts and the history, whatever fails.
THEOREM LifecycleTypeCorrect == LifecycleSpec => []LifecycleTypeOK
<1>1. LifecycleInv /\ HistoryTypeOK => LifecycleTypeOK
  BY DEF LifecycleInv, CoreTypeOK, HistoryTypeOK, LifecycleTypeOK, TokenRows, Installers,
         SessionRow, Maintainers
<1>2. LifecycleInit => HistoryTypeOK
  BY DEF LifecycleInit, IdentityInit, HistoryTypeOK, FateTypeOK
<1> QED BY <1>1, <1>2, HistoryStep, LifecycleInvariance, PTL DEF LifecycleSpec
-----------------------------------------------------------------------------
(* The host presents the active identity, is about to, or has missed it; and *)
(* a session in progress has its script or has lost it.                      *)

\* InStep's first half.
Reached == Active \subseteq missed \cup {Leads, InHand}

\* An installer changes the host once it has an identity in its hands, and from
\* then on it is about to start the service or has failed.
Placing ==
  /\ InstallerOff => installer = NoInstall
  /\ installer.pc = "start" => installer.changed
  /\ installer.changed => installer.pc \in {"start", "fail"}

\* With the service stopped the link is where the script found it.
Maintaining ==
  /\ ~MaintainerOff /\ Restores /\ ~running => local = maintainer.was
  /\ \A i \in Sessions \ stranded :
       session[i].status \in Underway => ~MaintainerOff /\ maintainer.session = i

\* From the stop of the service to the rotation it stays stopped.
Halted ==
  \/ maintainer.pc = "report" /\ Due = "service_stopped"
  \/ maintainer.pc = "do" /\ Due = "identity_rotated"
Quiet == ~MaintainerOff /\ Halted => ~running

InPlace == Reached /\ Placing /\ Maintaining /\ Quiet

LEMMA InPlaceInit == LifecycleInit => InPlace
<1> SUFFICES ASSUME LifecycleInit PROVE Reached /\ Placing /\ Maintaining /\ Quiet
  BY DEF InPlace
<1>1. "none" \notin Underway
  BY StatusSets DEF Underway
<1>2. /\ installer = NoInstall /\ maintainer = NoScript
      /\ \A i \in Sessions : session[i] = NoSession
      /\ \A g \in Gens : identity[g] = "none"
  BY DEF LifecycleInit, IdentityInit
<1>3. Active = {}
  BY <1>2 DEF Active, Has
<1>4. MaintainerOff
  BY <1>2 DEF NoScript, MaintainerOff
<1> QED BY <1>1, <1>2, <1>3, <1>4 DEF Reached, Placing, Maintaining, Quiet, NoInstall, NoSession

\* What may be active was missed, leads or is in hand as before.
LEMMA ReachedKept ==
  ASSUME Reached, Active' \subseteq Active, missed \subseteq missed',
         Leads \in Active => Leads \in missed' \cup {Leads', InHand'},
         InHand \in Active => InHand \in missed' \cup {Leads', InHand'}
  PROVE  Reached'
BY DEF Reached

LEMMA SameLead == UNCHANGED <<local, daemon>> => Leads' = Leads
BY DEF Leads

LEMMA SameHand == UNCHANGED installer => InHand' = InHand
BY DEF InHand

LEMMA MissedGrows ==
  ASSUME LifecycleInv,
         UNCHANGED missed \/ \E gens \in SUBSET (0 .. MaxVersion) : Misses(gens)
  PROVE  missed \subseteq missed'
BY MissesFacts

\* A generation that the host misses, zero being none.
LEMMA MissesGen ==
  ASSUME LifecycleInv, NEW gens, Misses(gens), NEW g \in gens, g \in Active \cup Gens
  PROVE  g \in missed'
BY HeldTypes DEF Misses

LEMMA SameSets == UNCHANGED identity => Active' = Active
BY DEF Active, Has

\* The script neither moves nor loses its session.
LEMMA MaintenanceKept ==
  ASSUME LifecycleInv, Maintaining, Quiet, UNCHANGED <<maintainer, stranded>>,
         running' = running \/ MaintainerOff,
         local' = local \/ MaintainerOff \/ running',
         \A i \in Sessions : session'[i].status \in Underway =>
           session[i].status \in Underway,
         \A i \in Sessions : session[i].status \in Underway \cup Ended =>
           session'[i].kind = session[i].kind
  PROVE  Maintaining' /\ Quiet'
<1>1. MaintainerOff' = MaintainerOff
  BY DEF MaintainerOff
<1>2. CASE MaintainerOff
  BY <1>1, <1>2 DEF Maintaining, Quiet, Sessions
<1>3. CASE ~MaintainerOff
  <2>1. Kind' = Kind
    BY <1>3, AtWork DEF Kind
  <2>2. Due' = Due
    BY <2>1 DEF Due, Script
  <2>3. Restores' = Restores /\ Halted' = Halted
    BY <2>1, <2>2 DEF Restores, Halted
  <2> QED BY <1>1, <1>3, <2>3 DEF Maintaining, Quiet, Sessions
<1> QED BY <1>2, <1>3

\* The rows that end: no identity becomes active.
LEMMA EndedSets ==
  ASSUME LifecycleInv, NEW g \in Gens, NEW end \in {"retired", "revoked"},
         identity[g] # "none" \/ g \in crl, identity' = [identity EXCEPT ![g] = end]
  PROVE  Active' \subseteq Active
<1>1. g <= agent.version
  BY IssuedRow DEF LifecycleInv, Holders
<1> QED BY <1>1, EndedRow

LEMMA PrepareSets ==
  ASSUME LifecycleInv, Prepare
  PROVE  Active' = Active
<1>1. /\ agent.version < MaxVersion
      /\ identity' = [g \in Gens |-> IF g = Next1 THEN "pending"
                                     ELSE IF identity[g] = "pending" THEN "retired"
                                     ELSE identity[g]]
  BY DEF Prepare, CanClaim
<1> QED BY <1>1, Claims, LifecycleTypes DEF Active, Has, Gens

\* The owner moves nothing on the host.
LEMMA OwnerPlace ==
  ASSUME LifecycleInv, InPlace, OwnerStep, UNCHANGED <<enrollVars, maintVars>>
  PROVE  InPlace'
<1>1. UNCHANGED hostVars
  BY DEF OwnerStep, Prepare, PendingExpires, Activate, RetirePending, PublishCrl, RevokeRetiring,
         RevokeAgent, EnableHost
<1>2. Placing' /\ Maintaining' /\ Quiet'
  <2>1. Maintaining' /\ Quiet'
    BY <1>1, MaintenanceKept DEF InPlace, hostVars, maintVars
  <2> QED BY <2>1 DEF InPlace, Placing, InstallerOff
<1>3. missed \subseteq missed' /\ Leads' = Leads /\ InHand' = InHand
  BY <1>1, OwnerFate, MissedGrows, SameLead, SameHand
<1>4. ASSUME Active' \subseteq Active PROVE Reached'
  BY <1>3, <1>4, ReachedKept DEF InPlace
<1>5. CASE Prepare
  BY <1>2, <1>4, <1>5, PrepareSets DEF InPlace
<1>6. CASE PendingExpires \/ PublishCrl \/ EnableHost
  <2>1. UNCHANGED identity
    BY <1>6 DEF PendingExpires, PublishCrl, EnableHost
  <2> QED BY <1>2, <1>4, <2>1, SameSets DEF InPlace
<1>7. CASE RetirePending \/ RevokeRetiring \/ RevokeAgent
  <2>1. PICK g \in Gens, end \in {"retired", "revoked"} :
          identity[g] # "none" /\ identity' = [identity EXCEPT ![g] = end]
    BY <1>7 DEF RetirePending, RevokeRetiring, RevokeAgent, Active, Has
  <2> QED BY <1>2, <1>4, <2>1, EndedSets DEF InPlace
<1>8. CASE Activate
  <2>1. PICK g \in Has("pending"), old \in Active :
          /\ identity' = [identity EXCEPT ![old] = "retiring", ![g] = "active"]
          /\ Crossed(g)
    BY <1>8 DEF Activate
  <2>2. Active' = {g} /\ g \in Gens
    BY <1>8, <2>1, ActivateRows DEF Activate, Has
  <2>3. g \in missed' \cup {Leads'}
    <3>1. CASE local = g /\ daemon = Idle
      BY <1>3, <3>1 DEF Leads, Idle
    <3>2. CASE ~(local = g /\ daemon = Idle)
      BY <2>1, <2>2, <3>2, MissesGen DEF Crossed
    <3> QED BY <3>1, <3>2
  <2>4. Reached'
    BY <2>2, <2>3 DEF Reached
  <2> QED BY <1>2, <2>4 DEF InPlace
<1> QED BY <1>5, <1>6, <1>7, <1>8 DEF OwnerStep

\* The daemon runs, so what it does to the link is nothing a script waits for.
LEMMA DaemonPlace ==
  ASSUME LifecycleInv, InPlace, InstallPending \/ DaemonStep, UNCHANGED <<enrollVars, maintVars>>
  PROVE  InPlace'
<1>1. running /\ UNCHANGED <<running, crl>>
  BY DEF InstallPending, DaemonStep, PendingHeartbeat, Renew, RefuseRenewal, Switch,
         LifecycleInv, Scripts
<1>2. Placing' /\ Maintaining' /\ Quiet'
  <2>1. Maintaining' /\ Quiet'
    BY <1>1, MaintenanceKept DEF InPlace, maintVars
  <2> QED BY <2>1 DEF InPlace, Placing, InstallerOff
<1>3. missed \subseteq missed' /\ InHand' = InHand
  BY HostFate, MissedGrows, SameHand
<1>4. CASE InstallPending
  <2>1. /\ Misses({local}) /\ UNCHANGED <<daemon, identity>> /\ Leads = local
    BY <1>4 DEF InstallPending, controllerVars, Leads, Idle
  <2>2. local \in Active => local \in missed'
    BY <2>1, MissesGen
  <2>3. Reached'
    BY <1>3, <2>1, <2>2, SameSets, ReachedKept DEF InPlace
  <2> QED BY <1>2, <2>3 DEF InPlace
<1>5. CASE PendingHeartbeat \/ RefuseRenewal
  <2>1. UNCHANGED identity /\ Leads' = Leads
    BY <1>5 DEF PendingHeartbeat, RefuseRenewal, controllerVars, hostVars, Leads, Idle
  <2>2. Reached'
    BY <1>3, <2>1, SameSets, ReachedKept DEF InPlace
  <2> QED BY <1>2, <2>2 DEF InPlace
<1>6. CASE Renew
  <2>1. local \in Active /\ CanClaim /\ Renewed(local)
    BY <1>6 DEF Renew, CanRenew, Active, Has, Speaks
  <2>2. Active' = {Next1} /\ Next1 \in Gens
    BY <2>1, RenewedRows, Claims DEF CanClaim
  <2>3. Next1 \in missed' \cup {Leads'}
    <3>1. CASE daemon' = [pc |-> "switch", version |-> Next1]
      <4>1. daemon'.pc = "switch" /\ daemon'.version = Next1
        BY <3>1
      <4> QED BY <4>1 DEF Leads
    <3>2. CASE Misses({Next1})
      BY <2>2, <3>2, MissesGen
    <3> QED BY <1>6, <3>1, <3>2 DEF Renew
  <2>4. Reached'
    BY <2>2, <2>3 DEF Reached
  <2> QED BY <1>2, <2>4 DEF InPlace
<1>7. CASE Switch
  <2>1. /\ daemon' = Idle /\ Leads = daemon.version /\ Arrived = daemon.version
        /\ UNCHANGED identity
        /\ local' = daemon.version \/ Misses({Arrived})
    BY <1>7 DEF Switch, Leads, Arrived, controllerVars
  <2>2. Leads' = local'
    BY <2>1 DEF Leads, Idle
  <2>3. Leads \in Active => Leads \in missed' \cup {Leads'}
    BY <2>1, <2>2, MissesGen
  <2>4. Reached'
    BY <1>3, <2>1, <2>3, SameSets, ReachedKept DEF InPlace
  <2> QED BY <1>2, <2>4 DEF InPlace
<1> QED BY <1>4, <1>5, <1>6, <1>7 DEF DaemonStep

-----------------------------------------------------------------------------
(* Tokens and the installer.                                                *)

\* Nothing but the tokens and the installer's own record changes.
LEMMA EnrollPlace ==
  ASSUME LifecycleInv, InPlace, UNCHANGED <<identityVars, maintVars>>,
         InHand' = InHand, Placing'
  PROVE  InPlace'
<1>1. UNCHANGED <<identity, local, running, daemon, missed>>
  BY DEF identityVars, controllerVars, hostVars, fateVars
<1>2. Maintaining' /\ Quiet'
  BY <1>1, MaintenanceKept DEF InPlace, maintVars
<1>3. Reached'
  BY <1>1, SameSets, SameLead, ReachedKept DEF InPlace
<1> QED BY <1>2, <1>3 DEF InPlace

LEMMA TokensPlace ==
  ASSUME LifecycleInv, InPlace, IssueToken \/ RevokeToken \/ StartInstaller
  PROVE  InPlace'
<1>1. UNCHANGED <<identityVars, maintVars>>
  BY DEF IssueToken, RevokeToken, StartInstaller
<1>2. CASE UNCHANGED installer
  BY <1>1, <1>2, SameHand, EnrollPlace DEF InPlace, Placing, InstallerOff
<1>3. CASE StartInstaller
  <2>1. installer'.pc = "verify" /\ ~installer'.changed /\ installer'.gen = 0
    BY <1>3 DEF StartInstaller, NoInstall
  <2>2. InHand = 0
    BY <1>3 DEF StartInstaller, InPlace, Placing, InHand, NoInstall
  <2>3. InHand' = 0
    BY <2>1 DEF InHand
  <2>4. Placing'
    BY <2>1 DEF Placing, InstallerOff
  <2> QED BY <1>1, <2>2, <2>3, <2>4, EnrollPlace
<1> QED BY <1>2, <1>3 DEF IssueToken, RevokeToken

LEMMA InstallerReportsPlace ==
  ASSUME LifecycleInv, InPlace,
         InstallerFails \/ ReportVerified \/ RefuseBootstrap \/ ReportStarted
  PROVE  InPlace'
<1>1. UNCHANGED <<identityVars, maintVars>>
  BY DEF InstallerFails, ReportVerified, RefuseBootstrap, ReportStarted
<1>2. installer \in Installers /\ Placing
  BY TypesSplit DEF LifecycleInv, InPlace
<1>3. CASE installer' = NoInstall /\ installer.pc = "start"
  <2>1. InHand = 0
    BY <1>2, <1>3 DEF Placing, InHand
  <2>2. InHand' = 0 /\ Placing'
    BY <1>3 DEF InHand, Placing, NoInstall
  <2> QED BY <1>1, <2>1, <2>2, EnrollPlace
<1>4. CASE installer' = [installer EXCEPT !.pc = "fail"]
  <2>1. /\ installer'.pc = "fail" /\ installer'.gen = installer.gen
        /\ installer'.changed = installer.changed
    BY <1>2, <1>4 DEF Installers
  <2>2. InHand' = InHand /\ Placing'
    BY <2>1 DEF InHand, Placing, InstallerOff
  <2> QED BY <1>1, <2>2, EnrollPlace
<1>5. CASE installer' = [installer EXCEPT !.pc = "bootstrap"] /\ installer.pc = "verify"
  <2>1. /\ installer'.pc = "bootstrap" /\ installer'.gen = installer.gen
        /\ installer'.changed = installer.changed /\ ~installer.changed
    BY <1>2, <1>5 DEF Installers, Placing
  <2>2. InHand' = InHand /\ Placing'
    BY <2>1 DEF InHand, Placing, InstallerOff
  <2> QED BY <1>1, <2>2, EnrollPlace
<1> QED BY <1>3, <1>4, <1>5 DEF InstallerFails, ReportVerified, RefuseBootstrap, ReportStarted

\* While the installer is at work no maintenance is.
LEMMA InstallerAlone ==
  ASSUME LifecycleInv, InPlace, ~InstallerOff, UNCHANGED maintVars
  PROVE  Maintaining' /\ Quiet'
<1>1. MaintainerOff /\ UNCHANGED <<session, maintainer, stranded>>
  BY DEF LifecycleInv, Scripts, MaintainerOff, maintVars
<1> QED BY <1>1, MaintenanceKept DEF InPlace

LEMMA BootstrapPlace == LifecycleInv /\ InPlace /\ Bootstrap => InPlace'
<1> SUFFICES ASSUME LifecycleInv, InPlace, Bootstrap PROVE InPlace'
  OBVIOUS
<1>1. /\ agent' = [version |-> Next1, revoked |-> FALSE]
      /\ identity' = [identity EXCEPT ![Next1] = "active"]
      /\ UNCHANGED maintVars /\ CanBootstrap /\ installer.pc = "bootstrap"
      /\ \/ installer' = [installer EXCEPT !.pc = "install", !.gen = Next1]
         \/ installer' = [installer EXCEPT !.pc = "fail"] /\ Misses({Next1})
  BY DEF Bootstrap
<1>2. Active' = {Next1} /\ Next1 \in Gens
  BY <1>1, BootstrapRows, BootstrapFate
<1>3. installer \in Installers /\ ~installer.changed
  BY <1>1, TypesSplit DEF LifecycleInv, InPlace, Placing
<1>4. /\ installer'.pc \in {"install", "fail"} /\ ~installer'.changed
      /\ installer'.gen = Next1 \/ Misses({Next1})
  BY <1>1, <1>3 DEF Installers
<1>5. Placing'
  BY <1>4 DEF Placing, InstallerOff
<1>6. Next1 \in missed' \cup {InHand'}
  <2>1. CASE installer'.gen = Next1
    BY <1>4, <2>1 DEF InHand
  <2>2. CASE Misses({Next1})
    BY <1>2, <2>2, MissesGen
  <2> QED BY <1>4, <2>1, <2>2
<1>7. Reached'
  BY <1>2, <1>6 DEF Reached
<1>8. Maintaining' /\ Quiet'
  BY <1>1, InstallerAlone DEF InstallerOff
<1> QED BY <1>5, <1>7, <1>8 DEF InPlace

\* The link leads to the new generation, or the new one is missed.
LEMMA InstallPlace == LifecycleInv /\ InPlace /\ Install => InPlace'
<1> SUFFICES ASSUME LifecycleInv, InPlace, Install PROVE InPlace'
  OBVIOUS
<1> DEFINE left == IF Linked = local THEN installer.gen ELSE local
<1>1. /\ installer.pc = "install" /\ local' = Linked /\ daemon' = Idle
      /\ Misses({Arrived, left}) /\ UNCHANGED <<identity, maintVars>>
  BY DEF Install, Stopped, controllerVars
<1>2. installer \in Installers /\ ~installer.changed
  BY <1>1, TypesSplit DEF LifecycleInv, InPlace, Placing
<1>3. installer'.pc \in {"start", "fail"} /\ installer'.changed
  BY <1>2 DEF Installers, Install
<1>4. Placing'
  BY <1>3 DEF Placing, InstallerOff
<1>5. missed \subseteq missed'
  BY HostFate, MissedGrows
<1>6. Linked \in {local, installer.gen}
  BY DEF Linked
<1>7. Leads' = Linked /\ InHand = installer.gen
  BY <1>1, <1>2 DEF Leads, InHand, Idle
<1>8. /\ Arrived \in Active => Arrived \in missed'
      /\ left \in Active => left \in missed'
  <2> HIDE DEF left
  <2> QED BY <1>1, MissesGen
<1>9. Leads \in Active => Leads \in missed' \cup {Leads'}
  BY <1>6, <1>7, <1>8 DEF Leads, Arrived
<1>10. InHand \in Active => InHand \in missed' \cup {Leads'}
  BY <1>6, <1>7, <1>8
<1>11. Reached'
  BY <1>1, <1>5, <1>9, <1>10, SameSets, ReachedKept DEF InPlace
<1>12. Maintaining' /\ Quiet'
  BY <1>1, InstallerAlone DEF InstallerOff
<1> QED BY <1>4, <1>11, <1>12 DEF InPlace

LEMMA StartServicePlace == LifecycleInv /\ InPlace /\ StartService => InPlace'
<1> SUFFICES ASSUME LifecycleInv, InPlace, StartService PROVE InPlace'
  OBVIOUS
<1>1. /\ UNCHANGED <<identity, local, daemon, missed, installer, maintVars>>
      /\ installer.pc = "start"
  BY DEF StartService, controllerVars, fateVars, enrollVars
<1>2. Placing' /\ Reached'
  BY <1>1, SameSets, SameLead, SameHand, ReachedKept DEF InPlace, Placing, InstallerOff
<1>3. Maintaining' /\ Quiet'
  BY <1>1, InstallerAlone DEF InstallerOff
<1> QED BY <1>2, <1>3 DEF InPlace

LEMMA RollBackInstallPlace == LifecycleInv /\ InPlace /\ RollBackInstall => InPlace'
<1> SUFFICES ASSUME LifecycleInv, InPlace, RollBackInstall PROVE InPlace'
  OBVIOUS
<1>1. /\ installer.pc = "fail" /\ installer' = NoInstall /\ UNCHANGED <<identity, maintVars>>
  BY DEF RollBackInstall, controllerVars
<1>2. Placing'
  BY <1>1 DEF Placing, NoInstall, InstallerOff
<1>3. missed \subseteq missed'
  BY HostFate, MissedGrows
<1>4. Maintaining' /\ Quiet'
  BY <1>1, InstallerAlone DEF InstallerOff
<1>5. CASE installer.changed
  <2>1. Misses({Leads}) /\ InHand = 0
    BY <1>5 DEF RollBackInstall, InHand
  <2>2. (Leads \in Active => Leads \in missed') /\ InHand \notin Active
    BY <2>1, MissesGen, HeldTypes
  <2>3. Reached'
    BY <1>1, <1>3, <2>2, SameSets, ReachedKept DEF InPlace
  <2> QED BY <1>2, <1>4, <2>3 DEF InPlace
<1>6. CASE ~installer.changed
  <2>1. Misses({installer.gen}) /\ InHand = installer.gen /\ UNCHANGED <<local, daemon>>
    BY <1>6 DEF RollBackInstall, InHand, hostVars
  <2>2. InHand \in Active => InHand \in missed'
    BY <2>1, MissesGen
  <2>3. Reached'
    BY <1>1, <1>3, <2>1, <2>2, SameSets, SameLead, ReachedKept DEF InPlace
  <2> QED BY <1>2, <1>4, <2>3 DEF InPlace
<1> QED BY <1>5, <1>6

-----------------------------------------------------------------------------
(* Heartbeats and sessions.                                                 *)

\* The link, the daemon's answer and the installer stay.
LEMMA SessionsPlace ==
  ASSUME LifecycleInv, InPlace, UNCHANGED <<local, installer, missed>>, Leads' = Leads,
         Active' \subseteq Active, Maintaining' /\ Quiet'
  PROVE  InPlace'
<1>1. Reached'
  BY SameHand, ReachedKept DEF InPlace
<1>2. Placing'
  BY DEF InPlace, Placing, InstallerOff
<1> QED BY <1>1, <1>2 DEF InPlace

LEMMA HeartbeatPlace == LifecycleInv /\ InPlace /\ Heartbeat => InPlace'
<1> SUFFICES ASSUME LifecycleInv, InPlace, Heartbeat PROVE InPlace'
  OBVIOUS
<1>1. UNCHANGED <<identity, local, running, missed, installer, maintainer, stranded>>
  BY DEF Heartbeat, StartRenewal, controllerVars, hostVars, fateVars
<1>2. Leads' = Leads
  <2>1. daemon.pc # "switch"
    BY DEF Heartbeat, CanBeat, Idle
  <2>2. daemon' = daemon \/ daemon' = [pc |-> "renew", version |-> agent.version]
    BY DEF Heartbeat, StartRenewal, hostVars
  <2> QED BY <1>1, <2>1, <2>2 DEF Leads
<1>3. \A i \in Sessions : /\ session'[i].status = session[i].status
                          /\ session'[i].kind = session[i].kind
  BY TypesSplit DEF Heartbeat, LifecycleInv, SessionRow
<1>4. Maintaining' /\ Quiet'
  BY <1>1, <1>3, MaintenanceKept DEF InPlace
<1> QED BY <1>1, <1>2, <1>4, SameSets, SessionsPlace

LEMMA IssueSessionPlace == LifecycleInv /\ InPlace /\ IssueSession => InPlace'
<1> SUFFICES ASSUME LifecycleInv, InPlace, IssueSession PROVE InPlace'
  OBVIOUS
<1>1. UNCHANGED <<identityVars, enrollVars, maintainer, stranded>>
  BY DEF IssueSession
<1>2. Maintaining' /\ Quiet'
  BY <1>1, IssueSessionInv, MaintenanceKept DEF InPlace, identityVars, hostVars
<1> QED BY <1>1, <1>2, SameSets, SameLead, SessionsPlace
        DEF identityVars, controllerVars, hostVars, fateVars, enrollVars

LEMMA StartMaintenancePlace == LifecycleInv /\ InPlace /\ StartMaintenance => InPlace'
<1> SUFFICES ASSUME LifecycleInv, InPlace, StartMaintenance PROVE InPlace'
  OBVIOUS
<1>1. MaintainerOff /\ UNCHANGED <<identityVars, enrollVars>>
  BY DEF StartMaintenance
<1>2. PICK i \in Sessions :
        /\ session[i].status = "waiting"
        /\ session' = [session EXCEPT ![i].status = "started"]
        /\ \/ /\ maintainer' = [NoScript EXCEPT !.pc = "do", !.session = i, !.at = 1]
              /\ UNCHANGED stranded
           \/ /\ stranded' = stranded \cup {i}
              /\ UNCHANGED maintainer
  BY DEF StartMaintenance
<1>3. /\ session'[i].kind = session[i].kind /\ session[i].kind \in AllKinds
      /\ \A j \in Sessions \ {i} : session'[j] = session[j]
  <2>1. session \in [Sessions -> SessionRow] /\ "started" \in ToSet(Progress) \cup Terminal
    BY TypesSplit, StatusSets DEF LifecycleInv
  <2> QED BY <1>2, <2>1, SessionTyped DEF LifecycleInv, Scripts
<1>4. \A j \in Sessions \ stranded : session[j].status \notin Underway
  BY <1>1 DEF InPlace, Maintaining
<1>5. CASE maintainer' = [NoScript EXCEPT !.pc = "do", !.session = i, !.at = 1] /\ UNCHANGED stranded
  <2>1. /\ maintainer'.session = i /\ maintainer'.pc = "do" /\ ~maintainer'.changed
        /\ maintainer'.at = 1
    BY <1>5 DEF NoScript
  <2>2. Maintaining'
    BY <1>3, <1>4, <1>5, <2>1 DEF Maintaining, Restores, MaintainerOff, Sessions
  <2>3. Due' = "artifact_verified"
    <3>1. Kind' \in AllKinds
      BY <1>3, <2>1 DEF Kind
    <3>2. Due' = Script(Kind')[1]
      BY <2>1 DEF Due, Script
    <3> QED BY <3>1, <3>2 DEF Script, AllKinds
  <2>4. Quiet'
    BY <2>1, <2>3 DEF Quiet, Halted
  <2> QED BY <1>1, <2>2, <2>4, SameSets, SameLead, SessionsPlace
          DEF identityVars, controllerVars, hostVars, fateVars, enrollVars
<1>6. CASE stranded' = stranded \cup {i} /\ UNCHANGED maintainer
  <2>1. MaintainerOff' /\ \A j \in Sessions \ stranded' : session'[j].status \notin Underway
    BY <1>1, <1>3, <1>4, <1>6 DEF MaintainerOff
  <2>2. Maintaining' /\ Quiet'
    BY <2>1 DEF Maintaining, Quiet, Sessions
  <2> QED BY <1>1, <2>2, SameSets, SameLead, SessionsPlace
          DEF identityVars, controllerVars, hostVars, fateVars, enrollVars
<1> QED BY <1>2, <1>5, <1>6

LEMMA FinalizePlace == LifecycleInv /\ InPlace /\ Finalize => InPlace'
<1> SUFFICES ASSUME LifecycleInv, InPlace, Finalize PROVE InPlace'
  OBVIOUS
<1>1. UNCHANGED <<local, running, daemon, missed, installer, maintainer, stranded>>
  BY DEF Finalize, hostVars, fateVars, enrollVars
<1>2. PICK i \in Sessions :
        /\ session[i].status = "confirmation_pending"
        /\ \/ /\ session[i].old \in crl
              /\ identity' = [identity EXCEPT ![session[i].old] = "revoked"]
           \/ UNCHANGED identity
        /\ session' = [session EXCEPT ![i].status = "completed"]
  BY DEF Finalize
<1>3. Active' \subseteq Active
  <2>1. CASE UNCHANGED identity
    BY <2>1, SameSets
  <2>2. CASE session[i].old \in crl /\ identity' = [identity EXCEPT ![session[i].old] = "revoked"]
    <3>1. session[i].old \in Gens
      BY <2>2 DEF LifecycleInv, CoreTypeOK, IdentityTypeOK
    <3> QED BY <2>2, <3>1, EndedSets
  <2> QED BY <1>2, <2>1, <2>2
<1>4. Maintaining' /\ Quiet'
  <2>1. "completed" \notin Underway
    BY StatusSets DEF Underway
  <2>2. session \in [Sessions -> SessionRow] /\ "completed" \in ToSet(Progress) \cup Terminal
    BY TypesSplit DEF LifecycleInv, Terminal
  <2>3. /\ session'[i].status = "completed" /\ session'[i].kind = session[i].kind
        /\ \A j \in Sessions \ {i} : session'[j] = session[j]
    BY <1>2, <2>2, SessionTyped
  <2>4. \A j \in Sessions : /\ session'[j].status \in Underway => session[j].status \in Underway
                            /\ session'[j].kind = session[j].kind
    BY <2>1, <2>3
  <2> QED BY <1>1, <2>4, MaintenanceKept DEF InPlace
<1> QED BY <1>1, <1>3, <1>4, SameLead, SessionsPlace

-----------------------------------------------------------------------------
(* maintain-agent.sh and the host.                                          *)

\* The steps of a script leave the sessions alone: its own stays in progress.
LEMMA SameSession ==
  ASSUME LifecycleInv, Maintaining, ~MaintainerOff, maintainer'.pc # "off",
         maintainer'.session = maintainer.session, UNCHANGED <<session, stranded>>,
         Restores' /\ ~running' => local' = maintainer'.was
  PROVE  Maintaining'
BY DEF Maintaining, MaintainerOff, Sessions

\* What comes after the stop of the service, and what before the rotation.
LEMMA ScriptOrder ==
  ASSUME NEW kind \in AllKinds, NEW n \in DOMAIN Script(kind),
         n + 1 \in DOMAIN Script(kind), Script(kind)[n + 1] = "identity_rotated"
  PROVE  Script(kind)[n] = "service_stopped"
<1>1. kind \in {"reinstall", "rotate_identity"}
  <2>1. CASE kind = "repair"
    <3>1. Script(kind) = <<"artifact_verified", "service_stopped", "service_started",
                           "heartbeat_verified", "completed">>
      BY <2>1 DEF Script
    <3>2. n + 1 \in 1 .. 5
      BY <3>1
    <3> QED BY <3>1, <3>2
  <2>2. CASE kind = "decommission"
    <3>1. Script(kind) = <<"artifact_verified", "service_stopped", "confirmation_pending">>
      BY <2>2 DEF Script
    <3>2. n + 1 \in 1 .. 3
      BY <3>1
    <3> QED BY <3>1, <3>2
  <2> QED BY <2>1, <2>2 DEF AllKinds
<1>2. Script(kind) = <<"artifact_verified", "service_stopped", "identity_rotated",
                       "service_started", "heartbeat_verified", "confirmation_pending">>
  BY <1>1 DEF Script
<1>3. n \in 1 .. 6 /\ n + 1 \in 1 .. 6
  BY <1>2
<1> QED BY <1>2, <1>3

LEMMA StopServicePlace == LifecycleInv /\ InPlace /\ StopService => InPlace'
<1> SUFFICES ASSUME LifecycleInv, InPlace, StopService PROVE InPlace'
  OBVIOUS
<1>1. /\ ~MaintainerOff /\ daemon' = Idle /\ ~running' /\ Misses({Arrived})
      /\ UNCHANGED <<identity, local, installer, session, stranded>>
      /\ maintainer' = [maintainer EXCEPT !.pc = "report", !.changed = TRUE,
                                          !.was = local, !.ran = running]
  BY DEF StopService, Stopped, Doing, MaintainerOff, controllerVars, enrollVars
<1>2. missed \subseteq missed' /\ Leads' = local
  BY <1>1, HostFate, MissedGrows DEF Leads, Idle
<1>3. Leads \in Active => Leads \in missed' \cup {Leads'}
  <2>1. Arrived \in Active => Arrived \in missed'
    BY <1>1, MissesGen
  <2> QED BY <1>2, <2>1 DEF Leads, Arrived
<1>4. Reached' /\ Placing'
  BY <1>1, <1>2, <1>3, SameSets, SameHand, ReachedKept DEF InPlace, Placing, InstallerOff
<1>5. /\ maintainer'.pc = "report" /\ maintainer'.session = maintainer.session
      /\ maintainer'.was = local
  BY <1>1, TypesSplit DEF LifecycleInv, Maintainers
<1>6. Maintaining'
  BY <1>1, <1>5, SameSession DEF InPlace
<1>7. Quiet'
  BY <1>1 DEF Quiet
<1> QED BY <1>4, <1>6, <1>7 DEF InPlace

\* The service is stopped, so no renewal of the daemon is on its way.
LEMMA RotateIdentityPlace == LifecycleInv /\ InPlace /\ RotateIdentity => InPlace'
<1> SUFFICES ASSUME LifecycleInv, InPlace, RotateIdentity PROVE InPlace'
  OBVIOUS
<1>1. /\ maintainer.pc = "do" /\ Due = "identity_rotated"
      /\ local \in Active /\ CanClaim /\ Renewed(local)
      /\ UNCHANGED <<running, daemon, installer, session, stranded>>
      /\ \/ /\ local' = Next1
            /\ maintainer' = [maintainer EXCEPT !.pc = "report", !.activated = TRUE]
         \/ /\ maintainer' = [maintainer EXCEPT !.pc = "fail"]
            /\ Misses({Next1}) /\ UNCHANGED local
  BY DEF RotateIdentity, Doing, CanRenew, Active, Has, Speaks, enrollVars
<1>2. Active' = {Next1} /\ Next1 \in Gens
  BY <1>1, RenewedRows, Claims DEF CanClaim
<1>3. ~MaintainerOff /\ ~running /\ daemon.pc # "switch"
  BY <1>1 DEF InPlace, Quiet, Halted, MaintainerOff, LifecycleInv, Scripts
<1>4. Next1 \in missed' \cup {Leads'}
  <2>1. CASE local' = Next1
    BY <1>1, <1>3, <2>1 DEF Leads
  <2>2. CASE Misses({Next1})
    BY <1>2, <2>2, MissesGen
  <2> QED BY <1>1, <2>1, <2>2
<1>5. Reached'
  BY <1>2, <1>4 DEF Reached
<1>6. Placing'
  BY <1>1 DEF InPlace, Placing, InstallerOff
<1>7. /\ maintainer'.pc \in {"report", "fail"} /\ maintainer'.session = maintainer.session
      /\ maintainer'.was = maintainer.was /\ maintainer'.changed = maintainer.changed
      /\ (maintainer'.activated \/ (UNCHANGED local /\ maintainer'.activated = maintainer.activated))
  BY <1>1, TypesSplit DEF LifecycleInv, Maintainers
<1>8. Kind' = Kind
  BY <1>1, <1>7 DEF Kind
<1>9. Maintaining'
  <2>1. Restores' => Restores /\ UNCHANGED local
    BY <1>7, <1>8 DEF Restores
  <2>2. Restores' /\ ~running' => local' = maintainer'.was
    BY <1>1, <1>3, <1>7, <2>1 DEF InPlace, Maintaining
  <2> QED BY <1>1, <1>3, <1>7, <2>2, SameSession DEF InPlace
<1>10. Quiet'
  BY <1>1, <1>3 DEF Quiet
<1> QED BY <1>5, <1>6, <1>9, <1>10 DEF InPlace

LEMMA ScriptOnlyPlace ==
  ASSUME LifecycleInv, InPlace, RestartService \/ RemoveAgent \/ ScriptFails
  PROVE  InPlace'
<1>1. /\ ~MaintainerOff /\ UNCHANGED <<identity, daemon, installer, session, stranded>>
  BY DEF RestartService, RemoveAgent, ScriptFails, Doing, MaintainerOff, identityVars,
         controllerVars, hostVars, enrollVars
<1>2. /\ maintainer'.pc \in {"report", "fail"} /\ maintainer'.session = maintainer.session
      /\ maintainer'.changed = maintainer.changed /\ maintainer'.was = maintainer.was
      /\ maintainer'.activated = maintainer.activated /\ maintainer'.at = maintainer.at
  BY TypesSplit DEF LifecycleInv, Maintainers, RestartService, RemoveAgent, ScriptFails, Done
<1>3. Kind' = Kind
  BY <1>1, <1>2 DEF Kind
<1>4. Due' = Due
  BY <1>2, <1>3 DEF Due, Script
<1>5. Placing' /\ InHand' = InHand
  BY <1>1, SameHand DEF InPlace, Placing, InstallerOff
<1>6. CASE RestartService
  <2>1. running' = TRUE /\ UNCHANGED <<local, missed>> /\ Due = "service_started"
    BY <1>6 DEF RestartService, Doing, fateVars
  <2>2. Maintaining'
    BY <1>1, <1>2, <2>1, SameSession DEF InPlace
  <2>3. Quiet'
    BY <1>4, <2>1 DEF Quiet, Halted
  <2>4. Reached'
    BY <1>1, <1>5, <2>1, SameSets, SameLead, ReachedKept DEF InPlace
  <2> QED BY <1>5, <2>2, <2>3, <2>4 DEF InPlace
<1>7. CASE ScriptFails
  <2>1. UNCHANGED <<local, running, missed>> /\ maintainer'.pc = "fail"
    BY <1>7, TypesSplit DEF ScriptFails, identityVars, hostVars, fateVars, LifecycleInv, Maintainers
  <2>2. Restores' => Restores
    BY <1>2, <1>3 DEF Restores
  <2>3. Maintaining'
    BY <1>1, <1>2, <2>1, <2>2, SameSession DEF InPlace, Maintaining
  <2>4. Quiet'
    BY <2>1 DEF Quiet, Halted
  <2>5. Reached'
    BY <1>1, <1>5, <2>1, SameSets, SameLead, ReachedKept DEF InPlace
  <2> QED BY <1>5, <2>3, <2>4, <2>5 DEF InPlace
<1>8. CASE RemoveAgent
  <2>1. local' = 0 /\ Kind = "decommission" /\ Misses({local}) /\ Due = "confirmation_pending"
    BY <1>8 DEF RemoveAgent, Doing
  <2>2. Maintaining'
    BY <1>1, <1>2, <1>3, <2>1, SameSession DEF InPlace, Restores
  <2>3. Quiet'
    BY <1>4, <2>1 DEF Quiet, Halted
  <2>4. missed \subseteq missed'
    BY <1>8, HostFate, MissedGrows
  <2>5. Leads \in Active => Leads \in missed' \cup {Leads'}
    <3>1. local \in Active => local \in missed'
      BY <2>1, MissesGen
    <3> QED BY <1>1, <3>1 DEF Leads
  <2>6. Reached'
    BY <1>1, <1>5, <2>4, <2>5, SameSets, ReachedKept DEF InPlace
  <2> QED BY <1>5, <2>2, <2>3, <2>6 DEF InPlace
<1> QED BY <1>6, <1>7, <1>8

\* A report moves on, ends the script or, without an answer, makes it fail.
LEMMA ReportPlace == LifecycleInv /\ InPlace /\ Report => InPlace'
<1> SUFFICES ASSUME LifecycleInv, InPlace, Report PROVE InPlace'
  OBVIOUS
<1>1. UNCHANGED <<identity, local, running, daemon, missed, installer, stranded>>
  BY DEF Report, identityVars, controllerVars, hostVars, fateVars, enrollVars
<1>2. /\ ~MaintainerOff
      /\ \A j \in Sessions \ stranded : session[j].status \in Underway => j = maintainer.session
      /\ \A j \in Sessions \ {maintainer.session} : session'[j] = session[j]
  BY ReportFacts DEF InPlace, Maintaining
<1>3. \A j \in Sessions \ stranded : session'[j].status \in Underway => j = maintainer.session
  BY <1>2
<1>4. Maintaining' /\ Quiet'
  <2>1. CASE maintainer' = NoScript /\ Due \in Ended
    <3>1. session'[maintainer.session].status \notin Underway
      BY <2>1, ReportFacts, StatusSets DEF Underway, Ended
    <3>2. MaintainerOff'
      BY <2>1 DEF MaintainerOff, NoScript
    <3> QED BY <1>1, <1>3, <3>1, <3>2 DEF Maintaining, Quiet, Sessions
  <2>2. ASSUME \/ maintainer' = [maintainer EXCEPT !.pc = "fail"]
               \/ maintainer' = [maintainer EXCEPT !.pc = "do", !.at = maintainer.at + 1]
        PROVE  /\ maintainer'.pc \in {"do", "fail"} /\ maintainer'.session = maintainer.session
               /\ maintainer'.pc = "do" => maintainer'.at = maintainer.at + 1
               /\ Kind' = Kind /\ Maintaining'
    <3>1. /\ maintainer'.pc \in {"do", "fail"} /\ maintainer'.session = maintainer.session
          /\ maintainer'.changed = maintainer.changed /\ maintainer'.was = maintainer.was
          /\ maintainer'.activated = maintainer.activated
          /\ maintainer'.pc = "do" => maintainer'.at = maintainer.at + 1
      BY <2>2, TypesSplit DEF LifecycleInv, Maintainers
    <3>2. Kind' = Kind
      BY <3>1, ReportFacts DEF Kind
    <3>3. Restores' => Restores
      BY <3>1, <3>2 DEF Restores
    <3>4. Maintaining'
      BY <1>1, <1>2, <1>3, <3>1, <3>3 DEF InPlace, Maintaining, MaintainerOff, Sessions
    <3> QED BY <3>1, <3>2, <3>4
  <2>3. CASE maintainer' = [maintainer EXCEPT !.pc = "fail"]
    <3>1. maintainer'.pc = "fail"
      BY <2>3, TypesSplit DEF LifecycleInv, Maintainers
    <3> QED BY <2>2, <2>3, <3>1 DEF Quiet, Halted
  <2>4. CASE /\ maintainer' = [maintainer EXCEPT !.pc = "do", !.at = maintainer.at + 1]
             /\ maintainer.at + 1 \in DOMAIN Script(Kind)
    <3>1. /\ maintainer'.pc = "do" /\ maintainer'.at = maintainer.at + 1 /\ Kind' = Kind
      BY <2>2, <2>4, TypesSplit DEF LifecycleInv, Maintainers
    <3>2. Due' = Script(Kind)[maintainer.at + 1]
      BY <3>1 DEF Due, Script
    <3>3. ASSUME Due' = "identity_rotated" PROVE ~running
      <4>1. Due = "service_stopped"
        <5>1. Kind \in AllKinds /\ maintainer.at \in DOMAIN Script(Kind)
          BY <1>2, AtWork
        <5>2. Script(Kind)[maintainer.at] = "service_stopped"
          BY <2>4, <3>2, <3>3, <5>1, ScriptOrder
        <5> QED BY <5>2 DEF Due
      <4>2. maintainer.pc = "report"
        BY <4>1 DEF Report, Reporting
      <4> QED BY <1>2, <4>1, <4>2 DEF InPlace, Quiet, Halted
    <3>4. Quiet'
      BY <1>1, <3>1, <3>3 DEF Quiet, Halted
    <3> QED BY <2>2, <2>4, <3>4
  <2> QED BY <2>1, <2>3, <2>4, ReportFacts
<1> QED BY <1>1, <1>4, SameSets, SameLead, SessionsPlace

\* The controller takes the verdict of a roll back of any session in progress.
LEMMA VerdictAccepted ==
  ASSUME LifecycleInv, ~MaintainerOff, session[maintainer.session].status \in Underway,
         NEW verdict, verdict = IF Restores THEN "rolled_back" ELSE "failed"
  PROVE  Accepts(maintainer.session, verdict)
<1>1. session[maintainer.session].status \notin Terminal
  BY StatusSets DEF Underway, Terminal
<1>2. session[maintainer.session].kind \in AllKinds
      /\ (verdict = "rolled_back" => session[maintainer.session].kind # "decommission")
  BY AtWork DEF Kind, Restores
<1>3. verdict \in {"failed", "rolled_back"}
  OBVIOUS
<1>4. verdict \in ALLOWED_BY_KIND(session[maintainer.session].kind)
  BY <1>2, <1>3 DEF ALLOWED_BY_KIND, AllKinds
<1> QED BY <1>1, <1>3, <1>4 DEF Accepts

\* The verdict ends the session or is lost, and then the session is stranded;
\* what the link no longer leads to is missed.
LEMMA RollBackPlace == LifecycleInv /\ InPlace /\ RollBack => InPlace'
<1> SUFFICES ASSUME LifecycleInv, InPlace, RollBack PROVE InPlace'
  OBVIOUS
<1> DEFINE verdict == IF Restores THEN "rolled_back" ELSE "failed"
           i == maintainer.session
<1>1. /\ ~MaintainerOff /\ maintainer' = NoScript
      /\ UNCHANGED <<identity, daemon, installer>>
  BY DEF RollBack, MaintainerOff, controllerVars, enrollVars
<1>2. \/ /\ session' = IF Accepts(i, verdict)
                       THEN [session EXCEPT ![i].status = verdict] ELSE session
         /\ UNCHANGED stranded
      \/ stranded' = stranded \cup {i} /\ UNCHANGED session
  BY DEF RollBack
<1>3. i \in Sessions /\ \A j \in Sessions \ stranded : session[j].status \in Underway => j = i
  BY <1>1, AtWork DEF InPlace, Maintaining
<1>4. \A j \in Sessions \ stranded' : session'[j].status \notin Underway
  <2>1. CASE stranded' = stranded \cup {i} /\ UNCHANGED session
    BY <1>3, <2>1
  <2>2. CASE /\ session' = IF Accepts(i, verdict)
                           THEN [session EXCEPT ![i].status = verdict] ELSE session
             /\ UNCHANGED stranded
    <3>1. verdict \in ToSet(Progress) \cup Terminal /\ verdict \notin Underway
      BY StatusSets DEF Terminal, Underway
    <3>2. session[i].status \in Underway => Accepts(i, verdict)
      BY <1>1, VerdictAccepted
    <3> HIDE DEF verdict
    <3>3. CASE Accepts(i, verdict)
      <4>1. session' = [session EXCEPT ![i].status = verdict]
        BY <2>2, <3>3
      <4>2. session'[i].status = verdict /\ \A j \in Sessions \ {i} : session'[j] = session[j]
        BY <1>3, <3>1, <4>1, TypesSplit, SessionTyped DEF LifecycleInv
      <4> QED BY <1>3, <2>2, <3>1, <4>2
    <3>4. CASE ~Accepts(i, verdict)
      BY <1>3, <2>2, <3>2, <3>4
    <3> QED BY <3>3, <3>4
  <2> QED BY <1>2, <2>1, <2>2
<1>5. MaintainerOff'
  BY <1>1 DEF MaintainerOff, NoScript
<1>6. Maintaining' /\ Quiet'
  BY <1>4, <1>5 DEF Maintaining, Quiet, Sessions
<1>7. missed \subseteq missed'
  BY HostFate, MissedGrows
<1>8. Leads \in Active => Leads \in missed' \cup {Leads'}
  <2>1. CASE UNCHANGED local
    BY <1>1, <2>1, SameLead
  <2>2. CASE local' # local
    <3>1. Restores /\ local' = maintainer.was /\ local # maintainer.was
      BY <2>2 DEF RollBack
    <3>2. running
      BY <1>1, <3>1 DEF InPlace, Maintaining
    <3>3. Misses({local})
      BY <3>1, <3>2 DEF RollBack
    <3>4. local \in Active => local \in missed'
      BY <3>3, MissesGen
    <3> QED BY <1>1, <3>4 DEF Leads
  <2> QED BY <2>1, <2>2
<1>9. Reached' /\ Placing'
  BY <1>1, <1>7, <1>8, SameSets, SameHand, ReachedKept DEF InPlace, Placing, InstallerOff
<1> QED BY <1>6, <1>9 DEF InPlace

LEMMA RebootPlace == LifecycleInv /\ InPlace /\ Reboot => InPlace'
<1> SUFFICES ASSUME LifecycleInv, InPlace, Reboot PROVE InPlace'
  OBVIOUS
<1>1. /\ installer' = NoInstall /\ maintainer' = NoScript /\ daemon' = Idle
      /\ Misses({Arrived, InHand}) /\ UNCHANGED <<identity, local, session>>
      /\ stranded' = IF MaintainerOff THEN stranded ELSE stranded \cup {maintainer.session}
  BY DEF Reboot, controllerVars
<1>2. missed \subseteq missed' /\ Leads' = local
  BY <1>1, HostFate, MissedGrows DEF Leads, Idle
<1>3. /\ Arrived \in Active => Arrived \in missed'
      /\ InHand \in Active => InHand \in missed'
  BY <1>1, MissesGen
<1>4. Leads \in Active => Leads \in missed' \cup {Leads'}
  BY <1>2, <1>3 DEF Leads, Arrived
<1>5. Reached'
  BY <1>1, <1>2, <1>3, <1>4, SameSets, ReachedKept DEF InPlace
<1>6. Placing'
  BY <1>1 DEF Placing, NoInstall, InstallerOff
<1>7. MaintainerOff'
  BY <1>1 DEF MaintainerOff, NoScript
<1>8. \A j \in Sessions \ stranded' : session'[j].status \notin Underway
  BY <1>1 DEF InPlace, Maintaining
<1> QED BY <1>5, <1>6, <1>7, <1>8 DEF InPlace, Maintaining, Quiet, Sessions

LEMMA InPlaceStep == LifecycleInv /\ InPlace /\ [LifecycleNext]_lifecycleVars => InPlace'
<1> SUFFICES ASSUME LifecycleInv, InPlace, [LifecycleNext]_lifecycleVars PROVE InPlace'
  OBVIOUS
<1>1. CASE OwnerStep /\ UNCHANGED <<enrollVars, maintVars>>
  BY <1>1, OwnerPlace
<1>2. CASE (InstallPending \/ DaemonStep) /\ UNCHANGED <<enrollVars, maintVars>>
  BY <1>2, DaemonPlace
<1>3. CASE IssueToken \/ RevokeToken \/ StartInstaller
  BY <1>3, TokensPlace
<1>4. CASE InstallerStep
  BY <1>4, InstallerReportsPlace, BootstrapPlace, InstallPlace, StartServicePlace,
     RollBackInstallPlace DEF InstallerStep
<1>5. CASE Heartbeat \/ IssueSession \/ StartMaintenance \/ Finalize
  BY <1>5, HeartbeatPlace, IssueSessionPlace, StartMaintenancePlace, FinalizePlace
<1>6. CASE MaintainerStep
  BY <1>6, StopServicePlace, RotateIdentityPlace, ScriptOnlyPlace, ReportPlace, RollBackPlace
     DEF MaintainerStep
<1>7. CASE Reboot
  BY <1>7, RebootPlace
<1>8. CASE UNCHANGED lifecycleVars
  <2>1. /\ UNCHANGED <<identityVars, maintVars>> /\ InHand' = InHand /\ Placing'
    BY <1>8, SameHand DEF lifecycleVars, maintVars, InPlace, Placing, InstallerOff
  <2> QED BY <2>1, EnrollPlace
<1> QED BY <1>1, <1>2, <1>3, <1>4, <1>5, <1>6, <1>7, <1>8 DEF LifecycleNext

\* The host presents the active identity, is about to or has missed it, and a
\* session in progress has its script or has lost it: renewals of the daemon,
\* rotations by a session, re-enrolments, roll backs of both scripts, lost
\* answers and reboots may come in any order.
THEOREM HostInStep == LifecycleSpec => []InStep
<1>1. LifecycleInv /\ InPlace => InStep
  BY DEF InPlace, Reached, Maintaining, InStep, Underway
<1>2. LifecycleInit => InPlace
  BY InPlaceInit
<1>3. LifecycleInv /\ InPlace /\ [LifecycleNext]_lifecycleVars => InPlace'
  BY InPlaceStep
<1> QED BY <1>1, <1>2, <1>3, LifecycleInvariance, PTL DEF LifecycleSpec
=============================================================================
