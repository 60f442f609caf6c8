---------------------------- MODULE Repairs_proofs ---------------------------
(***************************************************************************)
(* Proofs about incidents and repairs, for any faults and any bounds.      *)
(***************************************************************************)
EXTENDS Repairs, SequenceTheorems, NaturalsInduction, WellFoundedInduction, TLAPS

USE DEF channelVars, recordVars, countVars

-----------------------------------------------------------------------------
(* Minimum, maximum and sequences. *)

LEMMA MinFacts ==
  ASSUME NEW S \in SUBSET Nat, S # {}
  PROVE  Min(S) \in S /\ \A y \in S : Min(S) <= y
<1>1. PICK x \in S : \A y \in S : ~ (<<y, x>> \in OpToRel(<, Nat))
  BY NatLessThanWellFounded, WFMin, Zenon
<1>2. ASSUME NEW y \in S PROVE x <= y
  <2> SUFFICES ASSUME y < x PROVE FALSE
    OBVIOUS
  <2>1. <<y, x>> \in Nat \X Nat /\ <<y, x>>[1] < <<y, x>>[2]
    OBVIOUS
  <2>2. <<y, x>> \in OpToRel(<, Nat)
    BY <2>1 DEF OpToRel
  <2> QED BY <1>1, <2>2
<1> QED BY <1>2 DEF Min

LEMMA MaxFacts ==
  ASSUME NEW n \in Nat, NEW S \in SUBSET (1 .. n), S # {}
  PROVE  Max(S) \in S /\ \A y \in S : Max(S) >= y
<1> DEFINE Mirrored == {n - x : x \in S}
<1>1. \A x \in S : n - x \in Nat /\ x \in Int
  OBVIOUS
<1>2. Mirrored \in SUBSET Nat /\ Mirrored # {}
  BY <1>1
<1>3. Min(Mirrored) \in Mirrored /\ \A y \in Mirrored : Min(Mirrored) <= y
  BY <1>2, MinFacts, Zenon
<1>4. PICK x \in S : Min(Mirrored) = n - x
  BY <1>3
<1>5. \A y \in S : n - x <= n - y
  BY <1>3, <1>4
<1>6. \A y \in S : x >= y
  BY <1>1, <1>5
<1> QED BY <1>6 DEF Max

LEMMA ArrayIsSeq ==
  ASSUME NEW n \in Nat, NEW S, NEW f \in [1 .. n -> S]
  PROVE  f \in Seq(S) /\ Len(f) = n
OBVIOUS

LEMMA OneMore ==
  ASSUME NEW n \in Nat
  PROVE  1 .. n \subseteq 1 .. n + 1 /\ n + 1 \in 1 .. n + 1 /\ n + 1 \notin 1 .. n
OBVIOUS

-----------------------------------------------------------------------------
(* The inductive invariant.                                                  *)

Incident == [fault : Faults, status : Statuses]
Attempt(n) == [incident : 1 .. n, dryRun : BOOLEAN, success : {"null", "true", "false"}]

\* The tasks are those of the attempts; none is cancelled, and success is
\* claimed only where the channel allows it.
Rows ==
  /\ Len(attempts) <= MaxAttempts
  /\ \A t \in Tasks :
       /\ verdict[t] # "none" <=> t[1] \in DOMAIN attempts /\ t \in Dispatched(t[1])
       /\ verdict[t] # "cancelled"
       /\ verdict[t] = "succeeded" => t \in performed /\ (t \in disturbed \/ outcome[t] = "ok")
  /\ \A a \in DOMAIN attempts :
       attempts[a].success = "true" => \A t \in Dispatched(a) : verdict[t] = "succeeded"

\* Of the incidents no operator has revived only the newest is unresolved.
Newest ==
  \A i \in DOMAIN incidents \ revived :
    incidents[i].status # "resolved" => i = Len(incidents)

Begun == update # NoUpdate => update.incident \in DOMAIN incidents

IInv ==
  /\ TypeOK
  /\ Rows
  /\ Newest
  /\ Begun
  /\ DryRunFirst
  /\ ConclusionAgrees

LEMMA ConstantFacts ==
  /\ Faults \subseteq Nat /\ 0 \notin Faults
  /\ MaxAttempts \in Nat /\ MaxIncidents \in Nat
BY ConstantsAssumption

LEMMA TypeFacts ==
  ASSUME TypeOK
  PROVE  /\ Len(incidents) \in Nat /\ DOMAIN incidents = 1 .. Len(incidents)
         /\ incidents \in Seq(Incident)
         /\ Len(attempts) \in Nat /\ DOMAIN attempts = 1 .. Len(attempts)
         /\ attempts \in Seq(Attempt(Len(incidents)))
         /\ \A i \in 1 .. Len(incidents) : incidents[i] \in Incident
         /\ \A a \in 1 .. Len(attempts) : attempts[a] \in Attempt(Len(incidents))
<1>1. incidents \in Seq(Incident) /\ Len(incidents) \in Nat
      /\ DOMAIN incidents = 1 .. Len(incidents)
  BY DEF TypeOK, Incident
<1>2. attempts \in Seq(Attempt(Len(incidents)))
  BY <1>1, Zenon DEF TypeOK, Attempt
<1> HIDE DEF Incident, Attempt
<1> QED BY <1>1, <1>2, ElementOfSeq, LenProperties

LEMMA InitInv == Init => IInv
<1> SUFFICES ASSUME Init PROVE IInv
  OBVIOUS
<1>1. TypeOK
  <2>1. Channel!TypeOK
    BY DEF Init, Channel!Init, Channel!TypeOK
  <2>2. incidents \in Seq([fault : Faults, status : Statuses])
        /\ attempts \in Seq([incident : DOMAIN incidents, dryRun : BOOLEAN,
                             success : {"null", "true", "false"}])
    BY EmptySeq, Zenon DEF Init
  <2>3. update \in [incident : DOMAIN incidents \cup {0}, seen : Statuses]
    BY DEF Init, NoUpdate, Statuses
  <2>4. expired \subseteq Tasks /\ broken \subseteq Faults /\ late \subseteq SUBSET Faults
        /\ warm \subseteq DOMAIN attempts /\ revived \subseteq DOMAIN incidents
    BY DEF Init
  <2>5. level2 \in BOOLEAN
    BY Zenon DEF Init
  <2>6. {updates, failures} \subseteq Nat
    BY DEF Init
  <2> QED BY <2>1, <2>2, <2>3, <2>4, <2>5, <2>6, Zenon DEF TypeOK
<1>2. Rows
  BY ConstantFacts DEF Init, Rows, Channel!Init
<1>3. Newest /\ Begun /\ DryRunFirst /\ ConclusionAgrees
  BY DEF Init, Newest, Begun, DryRunFirst, ConclusionAgrees
<1> QED BY <1>1, <1>2, <1>3 DEF IInv

-----------------------------------------------------------------------------
(* What a heartbeat makes of the incidents.                                  *)

LEMMA CurrentFacts ==
  ASSUME TypeOK, NEW seen \in SUBSET Faults
  PROVE  /\ Current(seen) \in 0 .. Len(incidents) + 1
         /\ seen = {} => Current(seen) = 0
         /\ seen # {} =>
              /\ Min(seen) \in Faults
              /\ Current(seen) # 0
              /\ Current(seen) \in DOMAIN incidents => Current(seen) \in Unresolved(Min(seen))
              /\ Unresolved(Min(seen)) # {} => Current(seen) \in DOMAIN incidents
              /\ \A i \in Unresolved(Min(seen)) : i <= Current(seen)
<1> DEFINE n == Len(incidents)
           m == Min(seen)
           c == Current(seen)
           U == Unresolved(Min(seen))
<1>1. n \in Nat /\ DOMAIN incidents = 1 .. n
  BY TypeFacts
<1>2. CASE seen = {}
  BY <1>1, <1>2 DEF Current
<1>3. CASE seen # {}
  <2>1. m \in Faults
    BY <1>3, MinFacts, ConstantFacts
  <2>2. U \in SUBSET (1 .. n)
    BY <1>1 DEF Unresolved
  <2>3. c = IF U = {} THEN n + 1 ELSE Max(U)
    BY <1>3 DEF Current
  <2> HIDE DEF n, c, m, U
  <2>4. U # {} => Max(U) \in U /\ \A y \in U : Max(U) >= y
    BY <1>1, <2>2, MaxFacts
  <2>5. U # {} => c \in U /\ c \in 1 .. n /\ \A y \in U : c >= y
    BY <2>2, <2>3, <2>4
  <2>6. U = {} => c = n + 1
    BY <2>3
  <2>7. /\ c \in 0 .. n + 1 /\ c # 0
        /\ c \in 1 .. n => c \in U
        /\ U # {} => c \in 1 .. n
        /\ \A i \in U : i <= c
    BY <1>1, <2>2, <2>5, <2>6
  <2> QED BY <1>1, <1>3, <2>1, <2>7, Zenon DEF n, c, m, U
<1> QED BY <1>2, <1>3

\* All other incidents are resolved, and what is observed has one.
LEMMA ReconciledFacts ==
  ASSUME TypeOK, NEW seen \in SUBSET Faults
  PROVE  /\ Reconciled(seen) \in Seq(Incident)
         /\ Len(Reconciled(seen)) = IF Current(seen) = Len(incidents) + 1
                                      THEN Len(incidents) + 1 ELSE Len(incidents)
         /\ DOMAIN Reconciled(seen) = 1 .. Len(Reconciled(seen))
         /\ \A i \in 1 .. Len(Reconciled(seen)) :
              Reconciled(seen)[i].status # "resolved" => i = Current(seen)
         /\ \A i \in 1 .. Len(incidents) :
              i = Current(seen) => Reconciled(seen)[i] = incidents[i]
<1> DEFINE n == Len(incidents)
           c == Current(seen)
           opened == Opened(seen)
           k == IF c = n + 1 THEN n + 1 ELSE n
           row == [fault |-> Min(seen), status |-> "open"]
           done(i) == [opened[i] EXCEPT !.status = "resolved"]
<1>1. n \in Nat /\ DOMAIN incidents = 1 .. n /\ incidents \in Seq(Incident)
      /\ \A i \in 1 .. n : incidents[i] \in Incident
  BY TypeFacts
<1>2. c \in 0 .. n + 1 /\ (c = n + 1 => row \in Incident)
  BY CurrentFacts DEF Incident, Statuses
<1>3. k \in Nat /\ n <= k
  BY <1>1
<1>4. /\ opened \in Seq(Incident) /\ Len(opened) = k
      /\ \A i \in 1 .. n : opened[i] = incidents[i]
  <2> HIDE DEF Incident, row
  <2>1. CASE c = n + 1
    <3>1. opened = Append(incidents, row)
      BY <2>1 DEF Opened, row
    <3> QED BY <1>1, <1>2, <2>1, <3>1, AppendProperties
  <2>2. CASE c # n + 1
    BY <1>1, <2>2 DEF Opened
  <2> QED BY <2>1, <2>2
<1> HIDE DEF k, opened, c, n
<1>5. DOMAIN opened = 1 .. k /\ \A i \in 1 .. k : opened[i] \in Incident
  BY <1>3, <1>4, LenProperties, ElementOfSeq, Zenon
<1>6. \A i \in 1 .. k : done(i) \in Incident /\ done(i).status = "resolved"
  BY <1>5 DEF Incident, Statuses
<1>7. Reconciled(seen) = [i \in 1 .. k |-> IF i = c THEN opened[i] ELSE done(i)]
  BY <1>5 DEF Reconciled, opened, c
<1> HIDE DEF done
<1>8. Reconciled(seen) \in [1 .. k -> Incident]
  BY <1>5, <1>6, <1>7
<1>9. Reconciled(seen) \in Seq(Incident) /\ Len(Reconciled(seen)) = k
  BY <1>3, <1>8, ArrayIsSeq
<1>10. 1 .. n \subseteq 1 .. k
  BY <1>1, <1>3
<1>11. \A i \in 1 .. k : IF i = c THEN Reconciled(seen)[i] = opened[i]
                                  ELSE Reconciled(seen)[i].status = "resolved"
  BY <1>6, <1>7
<1>12. \A i \in 1 .. n : i = c => Reconciled(seen)[i] = incidents[i]
  BY <1>4, <1>10, <1>11
<1>13. DOMAIN Reconciled(seen) = 1 .. k
  BY <1>7
<1> QED BY <1>9, <1>11, <1>12, <1>13 DEF k, n, c

-----------------------------------------------------------------------------
(* What a heartbeat makes of the attempts and of the tasks.                  *)

LEMMA ConcludedFacts ==
  ASSUME TypeOK, NEW v
  PROVE  /\ Concluded(v) \in Seq(Attempt(Len(incidents)))
         /\ Len(Concluded(v)) = Len(attempts)
         /\ \A a \in 1 .. Len(attempts) :
              /\ Concluded(v)[a].incident = attempts[a].incident
              /\ Concluded(v)[a].dryRun = attempts[a].dryRun
              /\ Concluded(v)[a].success =
                   IF /\ attempts[a].success = "null"
                      /\ \A t \in Dispatched(a) : v[t] \in Channel!Terminal
                     THEN Success(a, v) ELSE attempts[a].success
<1> DEFINE n == Len(attempts)
           A == Attempt(Len(incidents))
           ends(a) == /\ attempts[a].success = "null"
                      /\ \A t \in Dispatched(a) : v[t] \in Channel!Terminal
           ended(a) == [attempts[a] EXCEPT !.success = Success(a, v)]
<1>1. n \in Nat /\ DOMAIN attempts = 1 .. n /\ \A a \in 1 .. n : attempts[a] \in A
  BY TypeFacts
<1>2. \A a \in 1 .. n : Success(a, v) \in {"true", "false"}
  BY DEF Success
<1>3. \A a \in 1 .. n : /\ ended(a) \in A /\ ended(a).incident = attempts[a].incident
                        /\ ended(a).dryRun = attempts[a].dryRun
                        /\ ended(a).success = Success(a, v)
  BY <1>1, <1>2 DEF Attempt
<1>4. Concluded(v) = [a \in 1 .. n |-> IF ends(a) THEN ended(a) ELSE attempts[a]]
  BY <1>1, Zenon DEF Concluded
<1> HIDE DEF n, A, ends, ended
<1>5. Concluded(v) \in [1 .. n -> A]
  BY <1>1, <1>3, <1>4
<1>6. Concluded(v) \in Seq(A) /\ Len(Concluded(v)) = n
  BY <1>1, <1>5, ArrayIsSeq
<1>7. \A a \in 1 .. n : Concluded(v)[a] = IF ends(a) THEN ended(a) ELSE attempts[a]
  BY <1>4
<1>8. \A a \in 1 .. n :
        /\ Concluded(v)[a].incident = attempts[a].incident
        /\ Concluded(v)[a].dryRun = attempts[a].dryRun
        /\ Concluded(v)[a].success = IF ends(a) THEN Success(a, v) ELSE attempts[a].success
  BY <1>3, <1>7
<1> QED BY <1>6, <1>8, Zenon DEF n, A, ends

\* At most one attempt is planned, for the incident of what is observed; if it
\* is an actual one, a dry run of the incident has passed.
LEMMA PlannedFacts ==
  ASSUME IInv, NEW seen \in SUBSET Faults, NEW v, NEW f,
         Planned(Current(seen), f, Concluded(v)) # <<>>
  PROVE  \E b \in BOOLEAN :
           /\ Planned(Current(seen), f, Concluded(v)) =
                <<[incident |-> Current(seen), dryRun |-> b, success |-> "null"]>>
           /\ Current(seen) # 0
           /\ ~b => \E d \in 1 .. Len(attempts) :
                      /\ Concluded(v)[d].incident = Current(seen)
                      /\ Concluded(v)[d].dryRun
                      /\ Concluded(v)[d].success = "true"
<1> DEFINE i == Current(seen)
           att == Concluded(v)
           n == Len(attempts)
           b == PlansDryRun(i, att)
<1>1. /\ i # 0 /\ (b \/ PlansActual(i, f, att))
      /\ Planned(i, f, att) = <<[incident |-> i, dryRun |-> b, success |-> "null"]>>
  BY DEF Planned
<1>2. TypeOK /\ DryRunFirst /\ n \in Nat /\ DOMAIN attempts = 1 .. n
  BY TypeFacts DEF IInv
<1>3. DOMAIN att = 1 .. n
  BY <1>2, ConcludedFacts, LenProperties
<1>4. \A a \in 1 .. n : /\ att[a].incident = attempts[a].incident
                        /\ att[a].dryRun = attempts[a].dryRun
                        /\ attempts[a].success = "true" => att[a].success = "true"
  BY <1>2, ConcludedFacts
<1> HIDE DEF att, n, i
<1>5. ASSUME ~b
      PROVE  \E d \in 1 .. n : att[d].incident = i /\ att[d].dryRun /\ att[d].success = "true"
  <2>1. CASE Actual(i, att) # {}
    <3>1. PICK a \in 1 .. n : att[a].incident = i /\ ~att[a].dryRun
      BY <1>3, <2>1 DEF Actual
    <3>2. PICK d \in 1 .. a - 1 : /\ attempts[d].incident = attempts[a].incident
                                 /\ attempts[d].dryRun
                                 /\ attempts[d].success = "true"
      BY <1>2, <1>4, <3>1 DEF DryRunFirst
    <3>3. d \in 1 .. n
      BY <1>2
    <3> QED BY <1>4, <3>1, <3>2, <3>3
  <2>2. CASE Actual(i, att) = {}
    <3> DEFINE D == DryRuns(i, att)
    <3>1. D # {} /\ att[Max(D)].success = "true"
      BY <1>1, <1>5, <2>2 DEF PlansActual, Passed
    <3>2. D \in SUBSET (1 .. n)
      BY <1>3 DEF DryRuns
    <3>3. Max(D) \in D
      BY <1>2, <3>1, <3>2, MaxFacts
    <3>4. att[Max(D)].incident = i /\ att[Max(D)].dryRun /\ Max(D) \in 1 .. n
      BY <1>3, <3>3 DEF DryRuns
    <3> QED BY <3>1, <3>4
  <2> QED BY <2>1, <2>2
<1>6. b \in BOOLEAN
  BY Zenon DEF PlansDryRun
<1> QED BY <1>1, <1>5, <1>6, Zenon DEF att, n, i

\* The tasks of attempt a, given the attempts att.
Issued(a, att) == IF att[a].dryRun THEN {<<a, "action">>} ELSE {a} \X {"action", "check"}

\* The results of the tasks S are known, and a new attempt has its tasks.
Judged(S, W) ==
  \A t \in Tasks :
    verdict'[t] = IF t \in W THEN "succeeded" ELSE IF t \in S THEN "failed"
                  ELSE IF /\ Len(attempts') = Len(attempts) + 1
                          /\ t \in Issued(Len(attempts'), attempts')
                         THEN "open" ELSE verdict[t]

LEMMA HandledAttempts ==
  ASSUME IInv, NEW seen \in SUBSET Faults, NEW S \in SUBSET Answered, NEW W \in SUBSET S,
         Handle(seen, S, W)
  PROVE  /\ attempts' \in Seq(Attempt(Len(incidents')))
         /\ DOMAIN attempts' = 1 .. Len(attempts')
         /\ Len(attempts') = Len(attempts) \/ Len(attempts') = Len(attempts) + 1
         /\ Len(attempts') <= MaxAttempts
         /\ \A a \in 1 .. Len(attempts) :
              /\ attempts'[a].incident = attempts[a].incident
              /\ attempts'[a].dryRun = attempts[a].dryRun
              /\ attempts'[a].success =
                   IF /\ attempts[a].success = "null"
                      /\ \A t \in Dispatched(a) : verdict'[t] \in Channel!Terminal
                     THEN Success(a, verdict') ELSE attempts[a].success
         /\ Len(attempts') = Len(attempts) + 1 =>
              /\ attempts'[Len(attempts) + 1].success = "null"
              /\ ~attempts'[Len(attempts) + 1].dryRun =>
                   \E d \in 1 .. Len(attempts) :
                     /\ attempts'[d].incident = attempts'[Len(attempts) + 1].incident
                     /\ attempts'[d].dryRun
                     /\ attempts'[d].success = "true"
         /\ Judged(S, W)
         /\ warm' \subseteq DOMAIN attempts'
<1> DEFINE n == Len(attempts)
           N == Len(attempts')
           A == Attempt(Len(incidents'))
           v == [t \in Tasks |-> IF t \in W THEN "succeeded"
                                 ELSE IF t \in S THEN "failed" ELSE verdict[t]]
           att == Concluded(v)
           f == IF seen = {} THEN 0 ELSE Min(seen)
           new == Planned(Current(seen), f, att)
           I == IF new = <<>> THEN {}
                ELSE {Len(att) + 1} \X (IF new[1].dryRun THEN {"action"} ELSE {"action", "check"})
<1>1. /\ Len(att \o new) <= MaxAttempts
      /\ incidents' = Reconciled(seen)
      /\ attempts' = att \o new
      /\ warm' = IF new = <<>> \/ new[1].dryRun THEN warm ELSE warm \cup {Len(att) + 1}
  BY Zenon DEF Handle
<1>2. Channel!Exchange(S, W, I)
  BY Zenon DEF Handle
<1>3. /\ TypeOK /\ n \in Nat /\ DOMAIN attempts = 1 .. n /\ n <= MaxAttempts
      /\ MaxAttempts \in Nat /\ Len(incidents) \in Nat
  BY TypeFacts, ConstantFacts DEF IInv, Rows
<1>4. \A t \in Tasks :
        /\ v[t] = IF t \in W THEN "succeeded" ELSE IF t \in S THEN "failed" ELSE verdict[t]
        /\ verdict'[t] = IF t \in W THEN "succeeded" ELSE IF t \in S THEN "failed"
                         ELSE IF t \in I THEN "open" ELSE verdict[t]
  BY <1>2 DEF Channel!Exchange
<1>5. \A a \in 1 .. n : \A t \in Dispatched(a) : t \in Tasks /\ t[1] = a
  BY <1>3 DEF Dispatched, Tasks
<1>6. Len(incidents) <= Len(incidents') /\ Len(incidents') \in Nat
      /\ (Current(seen) # 0 => Current(seen) \in 1 .. Len(incidents'))
  BY <1>1, <1>3, CurrentFacts, ReconciledFacts
<1>7. Attempt(Len(incidents)) \subseteq A
  BY <1>3, <1>6 DEF Attempt
<1> HIDE DEF v, A
<1>8. /\ att \in Seq(A) /\ Len(att) = n
      /\ \A a \in 1 .. n :
           /\ att[a].incident = attempts[a].incident
           /\ att[a].dryRun = attempts[a].dryRun
           /\ att[a].success =
                IF /\ attempts[a].success = "null"
                   /\ \A t \in Dispatched(a) : v[t] \in Channel!Terminal
                  THEN Success(a, v) ELSE attempts[a].success
  <2>1. /\ att \in Seq(Attempt(Len(incidents))) /\ Len(att) = n
        /\ \A a \in 1 .. n :
             /\ att[a].incident = attempts[a].incident
             /\ att[a].dryRun = attempts[a].dryRun
             /\ att[a].success =
                  IF /\ attempts[a].success = "null"
                     /\ \A t \in Dispatched(a) : v[t] \in Channel!Terminal
                    THEN Success(a, v) ELSE attempts[a].success
    BY <1>3, ConcludedFacts, Zenon
  <2> HIDE DEF att
  <2> QED BY <1>7, <2>1, SeqMonotonic, Zenon
<1> HIDE DEF att
<1>9. I = {} \/ \A t \in I : t[1] = n + 1
  BY <1>8
<1>10. \A a \in 1 .. n : \A t \in Dispatched(a) : v[t] = verdict'[t]
  <2> SUFFICES ASSUME NEW a \in 1 .. n, NEW t \in Dispatched(a) PROVE v[t] = verdict'[t]
    OBVIOUS
  <2>1. t \in Tasks /\ t[1] # n + 1
    BY <1>3, <1>5
  <2>2. t \notin I
    BY <1>9, <2>1
  <2> HIDE DEF I
  <2> QED BY <1>4, <2>1, <2>2
<1>11. \A a \in 1 .. n :
         /\ Success(a, v) = Success(a, verdict')
         /\ (\A t \in Dispatched(a) : v[t] \in Channel!Terminal)
              <=> \A t \in Dispatched(a) : verdict'[t] \in Channel!Terminal
  BY <1>10, Zenon DEF Success
<1>12. \A a \in 1 .. n :
         /\ att[a].incident = attempts[a].incident
         /\ att[a].dryRun = attempts[a].dryRun
         /\ att[a].success =
              IF /\ attempts[a].success = "null"
                 /\ \A t \in Dispatched(a) : verdict'[t] \in Channel!Terminal
                THEN Success(a, verdict') ELSE attempts[a].success
  BY <1>8, <1>11, Zenon
<1>13. CASE new = <<>>
  <2>1. attempts' = att
    BY <1>1, <1>8, <1>13, ConcatEmptySeq
  <2>2. I = {} /\ warm' = warm
    BY <1>1, <1>13
  <2>3. N = n /\ N # n + 1 /\ DOMAIN attempts' = 1 .. N
    BY <1>3, <1>8, <2>1, LenProperties
  <2>4. warm' \subseteq DOMAIN attempts'
    BY <1>3, <2>2, <2>3 DEF TypeOK
  <2> HIDE DEF I
  <2>5. \A t \in Tasks : verdict'[t] = IF t \in W THEN "succeeded" ELSE IF t \in S THEN "failed"
                                       ELSE verdict[t]
    BY <1>4, <2>2
  <2> HIDE DEF n, N
  <2> QED BY <1>3, <1>8, <1>12, <2>1, <2>3, <2>4, <2>5 DEF A, n, N, Judged
<1>14. CASE new # <<>>
  <2>1. PICK b \in BOOLEAN :
          /\ new = <<[incident |-> Current(seen), dryRun |-> b, success |-> "null"]>>
          /\ Current(seen) # 0
          /\ ~b => \E d \in 1 .. n : /\ att[d].incident = Current(seen)
                                     /\ att[d].dryRun
                                     /\ att[d].success = "true"
    BY <1>14, PlannedFacts, Zenon DEF att
  <2> DEFINE row == [incident |-> Current(seen), dryRun |-> b, success |-> "null"]
  <2>2. row \in A
    BY <1>6, <2>1 DEF A, Attempt
  <2>3. row.incident = Current(seen) /\ row.dryRun = b /\ row.success = "null"
    OBVIOUS
  <2> HIDE DEF row
  <2>4. new = <<row>>
    BY <2>1 DEF row
  <2> HIDE DEF new
  <2>5. new \in Seq(A) /\ Len(new) = 1 /\ new[1] = row
    BY <2>2, <2>4
  <2>6. /\ attempts' \in Seq(A) /\ N = n + 1
        /\ \A a \in 1 .. n + 1 : attempts'[a] = IF a <= n THEN att[a] ELSE new[a - n]
    <3>1. /\ att \o new \in Seq(A) /\ Len(att \o new) = Len(att) + Len(new)
          /\ \A a \in 1 .. Len(att) + Len(new) :
               (att \o new)[a] = IF a <= Len(att) THEN att[a] ELSE new[a - Len(att)]
      BY <1>8, <2>5, ConcatProperties, Zenon
    <3> QED BY <1>1, <1>8, <2>5, <3>1
  <2>7. attempts'[n + 1] = row /\ \A a \in 1 .. n : attempts'[a] = att[a]
    BY <1>3, <2>5, <2>6
  <2>8. DOMAIN attempts' = 1 .. N /\ N <= MaxAttempts
    BY <1>1, <2>6, LenProperties
  <2>9. warm' \subseteq DOMAIN attempts'
    BY <1>1, <1>3, <1>8, <2>6, <2>8 DEF TypeOK
  <2>10. I = Issued(N, attempts')
    <3>1. I = {n + 1} \X (IF new[1].dryRun THEN {"action"} ELSE {"action", "check"})
      BY <1>8, <1>14
    <3>2. Issued(N, attempts') = IF row.dryRun THEN {<<n + 1, "action">>}
                               ELSE {n + 1} \X {"action", "check"}
      BY <2>6, <2>7 DEF Issued
    <3> HIDE DEF I
    <3>3. CASE row.dryRun
      BY <2>5, <3>1, <3>2, <3>3
    <3>4. CASE ~row.dryRun
      BY <2>5, <3>1, <3>2, <3>4
    <3> QED BY <3>3, <3>4
  <2>11. \A t \in Tasks : verdict'[t] = IF t \in W THEN "succeeded" ELSE IF t \in S THEN "failed"
                                       ELSE IF t \in Issued(N, attempts') THEN "open" ELSE verdict[t]
    BY <1>4, <2>10
  <2> HIDE DEF n, N, I
  <2> QED BY <1>12, <2>1, <2>3, <2>6, <2>7, <2>8, <2>9, <2>11 DEF A, n, N, Judged
<1> QED BY <1>13, <1>14

\* The verdict of the task of an attempt is neither "none" nor "cancelled".
LEMMA RowFacts ==
  ASSUME IInv
  PROVE  \A a \in 1 .. Len(attempts) : \A t \in Dispatched(a) :
           /\ t \in Tasks /\ t[1] = a
           /\ verdict[t] \in {"open", "succeeded", "failed"}
<1> SUFFICES ASSUME NEW a \in 1 .. Len(attempts), NEW t \in Dispatched(a)
             PROVE  t \in Tasks /\ t[1] = a /\ verdict[t] \in {"open", "succeeded", "failed"}
  OBVIOUS
<1>1. /\ Len(attempts) \in Nat /\ Len(attempts) <= MaxAttempts /\ MaxAttempts \in Nat
      /\ DOMAIN attempts = 1 .. Len(attempts)
  BY TypeFacts, ConstantFacts DEF IInv, Rows
<1>2. t \in Tasks /\ t[1] = a
  BY <1>1 DEF Dispatched, Tasks
<1>3. verdict[t] \in Channel!Terminal \cup {"none", "open", "cancelled"}
  BY <1>2 DEF IInv, TypeOK, Channel!TypeOK
<1>4. verdict[t] # "none" /\ verdict[t] # "cancelled"
  BY <1>1, <1>2, Zenon DEF IInv, Rows
<1> QED BY <1>2, <1>3, <1>4 DEF Channel!Terminal

LEMMA ExchangeFacts ==
  ASSUME IInv, NEW seen, NEW S \in SUBSET Answered, NEW W \in SUBSET S, Handle(seen, S, W)
  PROVE  /\ \A t \in S : t \in Tasks /\ verdict[t] = "open"
         /\ \A t \in W : t \in performed /\ (t \in disturbed \/ outcome[t] = "ok")
         /\ UNCHANGED <<outcome, performed, disturbed>>
         /\ Channel!TypeOK'
<1>1. PICK I : Channel!Exchange(S, W, I)
  BY Zenon DEF Handle
<1>2. verdict' \in [Tasks -> Channel!Terminal \cup {"none", "open", "cancelled"}]
  BY <1>1 DEF Channel!Exchange, Channel!Terminal, IInv, TypeOK, Channel!TypeOK
<1>3. UNCHANGED <<outcome, performed, disturbed>>
  BY <1>1 DEF Channel!Exchange
<1>4. Channel!TypeOK'
  BY <1>2, <1>3 DEF IInv, TypeOK, Channel!TypeOK
<1>5. \A t \in W : t \in performed /\ (t \in disturbed \/ outcome[t] = "ok")
  BY <1>1 DEF Channel!Exchange
<1> QED BY <1>3, <1>4, <1>5 DEF Answered

LEMMA HandleStep ==
  ASSUME IInv, NEW seen \in SUBSET Faults, NEW S \in SUBSET Answered, NEW W \in SUBSET S,
         Handle(seen, S, W), late' \subseteq late,
         UNCHANGED <<expired, broken, level2, update, countVars>>
  PROVE  IInv'
<1> DEFINE n == Len(attempts)
           N == Len(attempts')
           k == Len(incidents)
           K == Len(incidents')
<1>1. /\ TypeOK /\ n \in Nat /\ DOMAIN attempts = 1 .. n /\ n <= MaxAttempts
      /\ MaxAttempts \in Nat /\ k \in Nat /\ DOMAIN incidents = 1 .. k
  BY TypeFacts, ConstantFacts DEF IInv, Rows
<1>2. incidents' = Reconciled(seen)
  BY Zenon DEF Handle
<1>3. /\ incidents' \in Seq(Incident) /\ DOMAIN incidents' = 1 .. K
      /\ K = k \/ (K = k + 1 /\ Current(seen) = k + 1)
      /\ \A i \in 1 .. K : incidents'[i].status # "resolved" => i = Current(seen)
      /\ \A i \in 1 .. k : i = Current(seen) => incidents'[i] = incidents[i]
  BY <1>1, <1>2, ReconciledFacts
<1> HIDE DEF n, N, k, K
<1>4. DOMAIN incidents \subseteq DOMAIN incidents'
  BY <1>1, <1>3
<1>5. TypeOK'
  <2>1. attempts' \in Seq([incident : DOMAIN incidents', dryRun : BOOLEAN,
                           success : {"null", "true", "false"}])
    BY <1>3, HandledAttempts DEF Attempt, K
  <2>2. incidents' \in Seq([fault : Faults, status : Statuses])
    BY <1>3 DEF Incident
  <2>3. update' \in [incident : DOMAIN incidents' \cup {0}, seen : Statuses]
        /\ revived' \subseteq DOMAIN incidents'
    BY <1>1, <1>4 DEF TypeOK
  <2>4. Channel!TypeOK' /\ warm' \subseteq DOMAIN attempts'
    BY ExchangeFacts, HandledAttempts
  <2>5. expired' \subseteq Tasks /\ broken' \subseteq Faults /\ late' \subseteq SUBSET Faults
        /\ {updates', failures'} \subseteq Nat
    BY <1>1 DEF TypeOK
  <2>6. level2' \in BOOLEAN
    BY <1>1, Zenon DEF TypeOK
  <2> QED BY <2>1, <2>2, <2>3, <2>4, <2>5, <2>6, Zenon DEF TypeOK
<1>6. /\ DOMAIN attempts' = 1 .. N /\ N \in Nat /\ N <= MaxAttempts
      /\ N = n \/ N = n + 1
      /\ \A a \in 1 .. n : attempts'[a].dryRun = attempts[a].dryRun
  <2>1. /\ DOMAIN attempts' = 1 .. N /\ N <= MaxAttempts
        /\ N = n \/ N = n + 1
        /\ \A a \in 1 .. n : attempts'[a].dryRun = attempts[a].dryRun
    BY HandledAttempts, Zenon DEF n, N
  <2> QED BY <1>1, <2>1
<1>7. \A a \in 1 .. n : Dispatched(a)' = Dispatched(a)
  BY <1>6, Zenon DEF Dispatched
<1>8. /\ \A t \in S : t \in Tasks /\ verdict[t] = "open"
      /\ \A t \in W : t \in performed /\ (t \in disturbed \/ outcome[t] = "ok")
      /\ UNCHANGED <<outcome, performed, disturbed>>
  BY ExchangeFacts
<1>9. \A t \in Tasks :
        verdict'[t] = IF t \in W THEN "succeeded" ELSE IF t \in S THEN "failed"
                      ELSE IF N = n + 1 /\ t \in Issued(N, attempts')
                             THEN "open" ELSE verdict[t]
  <2>1. Judged(S, W)
    BY HandledAttempts
  <2> QED BY <2>1 DEF Judged, n, N
<1>10. N = n + 1 => \A t \in Issued(N, attempts') : t \in Tasks /\ t[1] = n + 1
  BY <1>1, <1>6 DEF Issued, Tasks
<1>11. \A t \in Tasks :
         t[1] \in 1 .. n =>
           verdict'[t] = IF t \in W THEN "succeeded" ELSE IF t \in S THEN "failed" ELSE verdict[t]
  BY <1>1, <1>9, <1>10
<1>12. Rows'
  <2>1. ASSUME NEW t \in Tasks
        PROVE  (verdict[t] # "none" <=> t[1] \in DOMAIN attempts /\ t \in Dispatched(t[1]))'
    <3>1. verdict[t] # "none" <=> t[1] \in 1 .. n /\ t \in Dispatched(t[1])
      BY <1>1, Zenon DEF IInv, Rows
    <3>2. CASE t[1] \in 1 .. n
      <4>1. verdict'[t] # "none" <=> verdict[t] # "none"
        BY <1>8, <1>11, <3>2
      <4>2. t[1] \in DOMAIN attempts' /\ Dispatched(t[1])' = Dispatched(t[1])
        BY <1>1, <1>6, <1>7, <3>2
      <4> QED BY <3>1, <3>2, <4>1, <4>2
    <3>3. CASE t[1] \notin 1 .. n
      <4>1. verdict[t] = "none" /\ t \notin S
        BY <1>8, <3>1, <3>3
      <4>2. verdict'[t] # "none" <=> N = n + 1 /\ t \in Issued(N, attempts')
        BY <1>9, <4>1
      <4>3. CASE N = n
        BY <1>1, <1>6, <3>3, <4>2, <4>3
      <4>4. CASE N = n + 1
        <5>1. t[1] \in 1 .. N <=> t[1] = n + 1
          BY <1>1, <3>3, <4>4 DEF Tasks
        <5>2. t \in Issued(N, attempts') => t[1] = n + 1
          BY <1>10, <4>4
        <5>3. CASE t[1] = n + 1
          <6>1. Dispatched(t[1])' = Issued(N, attempts')
            BY <4>4, <5>3 DEF Dispatched, Issued
          <6> QED BY <1>6, <4>2, <4>4, <5>1, <5>3, <6>1
        <5>4. CASE t[1] # n + 1
          BY <1>6, <4>2, <5>1, <5>2, <5>4
        <5> QED BY <5>3, <5>4
      <4> QED BY <1>6, <4>3, <4>4
    <3> QED BY <3>2, <3>3
  <2>2. ASSUME NEW t \in Tasks
        PROVE  /\ verdict'[t] # "cancelled"
               /\ verdict'[t] = "succeeded" =>
                    t \in performed' /\ (t \in disturbed' \/ outcome'[t] = "ok")
    <3>1. verdict[t] # "cancelled"
          /\ (verdict[t] = "succeeded" => t \in performed /\ (t \in disturbed \/ outcome[t] = "ok"))
      BY Zenon DEF IInv, Rows
    <3> QED BY <1>8, <1>9, <3>1
  <2>3. ASSUME NEW a \in DOMAIN attempts', attempts'[a].success = "true"
        PROVE  \A t \in Dispatched(a)' : verdict'[t] = "succeeded"
    <3>1. a \in 1 .. n
      <4>1. N = n + 1 => attempts'[n + 1].success = "null"
        BY HandledAttempts, Zenon DEF n, N
      <4> QED BY <1>1, <1>6, <2>3, <4>1
    <3>2. CASE attempts[a].success = "true"
      <4>1. \A t \in Dispatched(a) : verdict[t] = "succeeded"
        BY <1>1, <3>1, <3>2, Zenon DEF IInv, Rows
      <4>2. \A t \in Dispatched(a) : t \in Tasks /\ t[1] \in 1 .. n
        BY <3>1, RowFacts DEF n
      <4>3. \A t \in Dispatched(a) : verdict'[t] = "succeeded"
        BY <1>8, <1>11, <4>1, <4>2
      <4> QED BY <1>7, <3>1, <4>3
    <3>3. CASE attempts[a].success # "true"
      <4>1. attempts'[a].success = Success(a, verdict')
        BY <2>3, <3>1, <3>3, HandledAttempts DEF n
      <4>2. \A t \in Dispatched(a) : verdict'[t] = "succeeded"
        BY <2>3, <4>1 DEF Success
      <4> QED BY <1>7, <3>1, <4>2
    <3> QED BY <3>2, <3>3
  <2> QED BY <1>6, <2>1, <2>2, <2>3 DEF Rows, N
<1>13. Newest'
  <2> SUFFICES ASSUME NEW i \in 1 .. K, i \notin revived, incidents'[i].status # "resolved"
               PROVE  i = K
    BY <1>3 DEF Newest, K
  <2>1. i = Current(seen)
    BY <1>3
  <2>2. CASE K = k + 1 /\ Current(seen) = k + 1
    BY <2>1, <2>2
  <2>3. CASE K = k
    BY <1>1, <1>3, <2>1, <2>3 DEF IInv, Newest, k
  <2> QED BY <1>3, <2>2, <2>3
<1>14. Begun'
  BY <1>4 DEF IInv, Begun
<1>15. DryRunFirst'
  <2> SUFFICES ASSUME NEW a \in 1 .. N, ~attempts'[a].dryRun
               PROVE  \E d \in 1 .. a - 1 : /\ attempts'[d].incident = attempts'[a].incident
                                            /\ attempts'[d].dryRun
                                            /\ attempts'[d].success = "true"
    BY <1>6, Zenon DEF DryRunFirst
  <2>1. CASE a \in 1 .. n
    <3>1. ~attempts[a].dryRun /\ attempts'[a].incident = attempts[a].incident
      BY <2>1, HandledAttempts, Zenon DEF n, N
    <3>2. PICK d \in 1 .. a - 1 : /\ attempts[d].incident = attempts[a].incident
                                  /\ attempts[d].dryRun
                                  /\ attempts[d].success = "true"
      BY <1>1, <2>1, <3>1, Zenon DEF IInv, DryRunFirst
    <3>3. d \in 1 .. n
      BY <1>1, <2>1
    <3>4. /\ attempts'[d].incident = attempts[d].incident
          /\ attempts'[d].dryRun = attempts[d].dryRun
      BY <3>3, HandledAttempts, Zenon DEF n, N
    <3>5. attempts'[d].success = "true"
      BY <3>2, <3>3, HandledAttempts DEF n
    <3> QED BY <3>1, <3>2, <3>4, <3>5
  <2>2. CASE a \notin 1 .. n
    <3>1. N = n + 1 /\ a = n + 1
      BY <1>1, <1>6, <2>2
    <3>2. \E d \in 1 .. n : /\ attempts'[d].incident = attempts'[n + 1].incident
                            /\ attempts'[d].dryRun
                            /\ attempts'[d].success = "true"
      BY <3>1, HandledAttempts, Zenon DEF n, N
    <3>3. a - 1 = n
      BY <1>1, <3>1
    <3> QED BY <3>1, <3>2, <3>3, Zenon
  <2> QED BY <2>1, <2>2
<1>16. ConclusionAgrees'
  <2> SUFFICES ASSUME NEW a \in 1 .. N
               PROVE  /\ attempts'[a].success = "null" <=>
                           \E t \in Dispatched(a)' : verdict'[t] = "open"
                      /\ attempts'[a].success = "true" =>
                           \A t \in Dispatched(a)' :
                             t \in performed' /\ (t \in disturbed' \/ outcome'[t] = "ok")
    BY <1>6 DEF ConclusionAgrees
  <2>1. attempts'[a].success = "true" =>
          \A t \in Dispatched(a)' :
            t \in performed' /\ (t \in disturbed' \/ outcome'[t] = "ok")
    <3>1. \A t \in Dispatched(a)' : t \in Tasks
      <4>1. a \in Nat /\ a <= MaxAttempts
        BY <1>1, <1>6
      <4> QED BY <1>1, <4>1 DEF Dispatched, Tasks
    <3> QED BY <1>6, <1>12, <3>1 DEF Rows
  <2>2. CASE a \in 1 .. n
    <3>1. attempts[a].success = "null" <=> \E t \in Dispatched(a) : verdict[t] = "open"
      BY <1>1, <2>2, Zenon DEF IInv, ConclusionAgrees
    <3>2. \A t \in Dispatched(a) :
            /\ t \in Tasks /\ t[1] \in 1 .. n /\ verdict[t] \in {"open", "succeeded", "failed"}
            /\ verdict'[t] = IF t \in W THEN "succeeded"
                             ELSE IF t \in S THEN "failed" ELSE verdict[t]
      BY <1>11, <2>2, RowFacts DEF n
    <3>3. Dispatched(a)' = Dispatched(a)
      BY <1>7, <2>2
    <3>4. attempts'[a].success = IF /\ attempts[a].success = "null"
                                   /\ \A t \in Dispatched(a) : verdict'[t] \in Channel!Terminal
                                   THEN Success(a, verdict') ELSE attempts[a].success
      BY <2>2, HandledAttempts, Zenon DEF n, N
    <3>5. CASE attempts[a].success # "null"
      BY <1>8, <2>1, <3>1, <3>2, <3>3, <3>4, <3>5
    <3>6. CASE attempts[a].success = "null"
      <4>1. CASE \A t \in Dispatched(a) : verdict'[t] \in Channel!Terminal
        BY <2>1, <3>3, <3>4, <3>6, <4>1 DEF Success, Channel!Terminal
      <4>2. CASE \E t \in Dispatched(a) : verdict'[t] \notin Channel!Terminal
        BY <1>8, <2>1, <3>2, <3>3, <3>4, <3>6, <4>2 DEF Channel!Terminal
      <4> QED BY <4>1, <4>2
    <3> QED BY <3>5, <3>6
  <2>3. CASE a \notin 1 .. n
    <3>1. N = n + 1 /\ a = n + 1
      BY <1>1, <1>6, <2>3
    <3>2. attempts'[a].success = "null"
      BY <3>1, HandledAttempts, Zenon DEF n, N
    <3>3. Dispatched(a)' = Issued(N, attempts') /\ <<a, "action">> \in Dispatched(a)'
      BY <3>1 DEF Dispatched, Issued
    <3>4. /\ <<a, "action">> \in Tasks
          /\ <<a, "action">> \notin S
      <4>1. <<a, "action">> \in Tasks /\ a \notin DOMAIN attempts
        BY <1>1, <1>6, <2>3 DEF Tasks
      <4>2. verdict[<<a, "action">>] = "none"
        BY <4>1 DEF IInv, Rows
      <4> QED BY <1>8, <4>1, <4>2
    <3>5. verdict'[<<a, "action">>] = "open"
      BY <1>9, <3>1, <3>3, <3>4
    <3> QED BY <2>1, <3>2, <3>3, <3>5
  <2> QED BY <2>2, <2>3
<1> QED BY <1>5, <1>12, <1>13, <1>14, <1>15, <1>16 DEF IInv

-----------------------------------------------------------------------------
(* The other steps.                                                          *)

\* Neither the channel nor a row is touched.
LEMMA QuietStep ==
  ASSUME IInv,
         \/ Abandon \/ SwitchLevel2
         \/ \E a \in DOMAIN attempts : CoolDown(a)
         \/ \E i \in DOMAIN incidents : BeginUpdate(i)
         \/ \E f \in Faults : Break(f) \/ Heal(f)
         \/ \E t \in Tasks : Expire(t)
         \/ UNCHANGED vars
  PROVE  IInv'
<1> USE DEF IInv
<1>1. UNCHANGED <<channelVars, recordVars, revived>>
  BY DEF Abandon, SwitchLevel2, CoolDown, BeginUpdate, Break, Heal, Expire, vars
<1>2. TypeOK'
  <2>1. Channel!TypeOK'
    BY <1>1 DEF TypeOK, Channel!TypeOK
  <2>2. warm' \subseteq DOMAIN attempts /\ expired' \subseteq Tasks
    BY DEF Abandon, SwitchLevel2, CoolDown, BeginUpdate, Break, Heal, Expire, vars, TypeOK
  <2>3. late' \subseteq SUBSET Faults /\ broken' \subseteq Faults
    BY DEF Abandon, SwitchLevel2, CoolDown, BeginUpdate, Break, Heal, Expire, vars, TypeOK
  <2>4. {updates', failures'} \subseteq Nat
    BY DEF Abandon, SwitchLevel2, CoolDown, BeginUpdate, Break, Heal, Expire, vars, TypeOK,
           Failure
  <2>5. update' \in [incident : DOMAIN incidents \cup {0}, seen : Statuses]
    <3>1. CASE \E i \in DOMAIN incidents : BeginUpdate(i)
      BY <3>1, TypeFacts DEF BeginUpdate, Incident
    <3>2. CASE update' = update
      BY <3>2 DEF TypeOK
    <3> QED BY <3>1, <3>2 DEF Abandon, SwitchLevel2, CoolDown, Break, Heal, Expire, vars
  <2>6. level2' \in BOOLEAN
    <3>1. level2' = level2 \/ level2' = ~level2
      BY Zenon DEF Abandon, SwitchLevel2, CoolDown, BeginUpdate, Break, Heal, Expire, vars
    <3> QED BY <3>1, Zenon DEF TypeOK
  <2>7. /\ incidents' \in Seq([fault : Faults, status : Statuses])
        /\ attempts' \in Seq([incident : DOMAIN incidents', dryRun : BOOLEAN,
                              success : {"null", "true", "false"}])
        /\ DOMAIN incidents' = DOMAIN incidents /\ DOMAIN attempts' = DOMAIN attempts
        /\ revived' \subseteq DOMAIN incidents'
    BY <1>1, Zenon DEF TypeOK
  <2> QED BY <2>1, <2>2, <2>3, <2>4, <2>5, <2>6, <2>7, Zenon DEF TypeOK
<1>3. Rows' /\ Newest' /\ DryRunFirst' /\ ConclusionAgrees'
  <2>1. \A a : Dispatched(a)' = Dispatched(a)
    BY <1>1, Zenon DEF Dispatched
  <2>2. Rows'
    BY <1>1, <2>1 DEF Rows
  <2>3. Newest' /\ DryRunFirst'
    BY <1>1 DEF Newest, DryRunFirst
  <2>4. ConclusionAgrees'
    BY <1>1, <2>1 DEF ConclusionAgrees
  <2> QED BY <2>2, <2>3, <2>4
<1>4. Begun'
  <2>1. CASE \E i \in DOMAIN incidents : BeginUpdate(i)
    BY <1>1, <2>1 DEF BeginUpdate, Begun
  <2>2. CASE update' = update
    BY <1>1, <2>2 DEF Begun
  <2> QED BY <2>1, <2>2 DEF Abandon, SwitchLevel2, CoolDown, Break, Heal, Expire, vars
<1> QED BY <1>2, <1>3, <1>4

\* Operators change the status of an incident, and nothing else.
LEMMA CommitStep ==
  ASSUME IInv, CommitUpdate
  PROVE  IInv'
<1> DEFINE k == Len(incidents)
           u == update.incident
<1>1. /\ TypeOK /\ k \in Nat /\ DOMAIN incidents = 1 .. k
      /\ \A i \in 1 .. k : incidents[i] \in Incident
  BY TypeFacts DEF IInv
<1>2. u \in 1 .. k /\ update.seen \in Statuses
  BY <1>1 DEF IInv, CommitUpdate, Begun, TypeOK
<1>3. PICK to \in INCIDENT_TRANSITIONS[update.seen] :
        incidents' = [incidents EXCEPT ![u].status = to]
  BY DEF CommitUpdate
<1>4. to \in Statuses
  BY <1>2, <1>3 DEF INCIDENT_TRANSITIONS, Statuses
<1> DEFINE row == [incidents[u] EXCEPT !.status = to]
<1>5. row \in Incident
  BY <1>1, <1>2, <1>4 DEF Incident
<1>6. incidents' = [incidents EXCEPT ![u] = row]
  BY <1>3
<1> HIDE DEF row
<1>7. /\ incidents' \in Seq(Incident) /\ Len(incidents') = k
      /\ \A i \in 1 .. k : i # u => incidents'[i] = incidents[i]
  BY <1>1, <1>2, <1>5, <1>6, ExceptSeq DEF TypeOK, Incident
<1>8. DOMAIN incidents' = 1 .. k
  BY <1>7, LenProperties
<1>9. UNCHANGED <<channelVars, expired, broken, late, attempts, warm, level2, updates, failures>>
      /\ update' = NoUpdate
  BY DEF CommitUpdate
<1>10. TypeOK'
  <2>1. incidents' \in Seq([fault : Faults, status : Statuses])
    BY <1>7 DEF Incident
  <2>2. attempts' \in Seq([incident : DOMAIN incidents', dryRun : BOOLEAN,
                           success : {"null", "true", "false"}])
        /\ warm' \subseteq DOMAIN attempts'
    BY <1>1, <1>8, <1>9, Zenon DEF TypeOK
  <2>3. update' \in [incident : DOMAIN incidents' \cup {0}, seen : Statuses]
    BY <1>9 DEF NoUpdate, Statuses
  <2>4. revived' \subseteq DOMAIN incidents'
    BY <1>1, <1>2, <1>8 DEF CommitUpdate, TypeOK
  <2>5. Channel!TypeOK'
    BY <1>9 DEF IInv, TypeOK, Channel!TypeOK
  <2>6. expired' \subseteq Tasks /\ broken' \subseteq Faults /\ late' \subseteq SUBSET Faults
        /\ {updates', failures'} \subseteq Nat
    BY <1>1, <1>9 DEF TypeOK
  <2>7. level2' \in BOOLEAN
    BY <1>1, <1>9, Zenon DEF TypeOK
  <2> QED BY <2>1, <2>2, <2>3, <2>4, <2>5, <2>6, <2>7, Zenon DEF TypeOK
<1>11. Newest'
  <2> SUFFICES ASSUME NEW i \in 1 .. k, i \notin revived', incidents'[i].status # "resolved"
               PROVE  i = k
    BY <1>7, <1>8 DEF Newest
  <2>1. i \notin revived
    BY DEF CommitUpdate
  <2>2. incidents[i].status # "resolved"
    BY <1>7 DEF CommitUpdate
  <2> QED BY <1>1, <2>1, <2>2 DEF IInv, Newest
<1>12. \A a : Dispatched(a)' = Dispatched(a)
  BY <1>9, Zenon DEF Dispatched
<1>13. Rows'
  BY <1>9, <1>12 DEF IInv, Rows
<1>14. ConclusionAgrees'
  BY <1>9, <1>12 DEF IInv, ConclusionAgrees
<1>15. DryRunFirst' /\ Begun'
  BY <1>9 DEF IInv, DryRunFirst, Begun
<1> QED BY <1>10, <1>11, <1>13, <1>14, <1>15 DEF IInv

\* The host, and what destroys its answers, take no verdict and no success
\* away.
LEMMA HostStep ==
  ASSUME IInv, NEW t \in Tasks, Run(t) \/ Disturb(t)
  PROVE  IInv'
<1> USE DEF IInv
<1>1. /\ UNCHANGED <<verdict, recordVars, expired, late, warm, level2, update, revived, updates>>
      /\ performed \subseteq performed' /\ disturbed \subseteq disturbed'
      /\ broken' \subseteq broken
  BY DEF Run, Disturb, Channel!Perform, Channel!Disturb
<1>2. Channel!TypeOK' /\ \A s \in Tasks : outcome[s] = "ok" => outcome'[s] = "ok"
  <2>1. CASE Run(t)
    BY <2>1 DEF Run, Channel!Perform, Channel!FirstAnswer, TypeOK, Channel!TypeOK
  <2>2. CASE Disturb(t)
    BY <2>2 DEF Disturb, Channel!Disturb, TypeOK, Channel!TypeOK
  <2> QED BY <2>1, <2>2
<1>3. TypeOK'
  <2>1. /\ incidents' \in Seq([fault : Faults, status : Statuses])
        /\ attempts' \in Seq([incident : DOMAIN incidents', dryRun : BOOLEAN,
                              success : {"null", "true", "false"}])
        /\ update' \in [incident : DOMAIN incidents' \cup {0}, seen : Statuses]
        /\ level2' \in BOOLEAN
    BY <1>1, Zenon DEF TypeOK
  <2>2. {updates', failures'} \subseteq Nat
    BY DEF Run, Disturb, Failure, TypeOK
  <2>3. /\ expired' \subseteq Tasks /\ broken' \subseteq Faults /\ late' \subseteq SUBSET Faults
        /\ warm' \subseteq DOMAIN attempts' /\ revived' \subseteq DOMAIN incidents'
    BY <1>1 DEF TypeOK
  <2> QED BY <1>2, <2>1, <2>2, <2>3, Zenon DEF TypeOK
<1>4. \A a : Dispatched(a)' = Dispatched(a)
  BY <1>1, Zenon DEF Dispatched
<1>5. Rows'
  BY <1>1, <1>2, <1>4 DEF Rows
<1>6. ConclusionAgrees'
  <2>1. \A a \in DOMAIN attempts : \A s \in Dispatched(a) : s \in Tasks
    BY RowFacts, TypeFacts
  <2> QED BY <1>1, <1>2, <1>4, <2>1 DEF ConclusionAgrees
<1>7. Newest' /\ Begun' /\ DryRunFirst'
  BY <1>1 DEF Newest, Begun, DryRunFirst
<1> QED BY <1>3, <1>5, <1>6, <1>7

LEMMA Invariance == IInv /\ [Next]_vars => IInv'
<1> SUFFICES ASSUME IInv, [Next]_vars PROVE IInv'
  OBVIOUS
<1>1. CASE Heartbeat
  <2>1. PICK S \in SUBSET Answered : \E W \in SUBSET S : Handle(broken, S, W)
    BY <1>1, Zenon DEF Heartbeat
  <2>2. PICK W \in SUBSET S : Handle(broken, S, W)
    BY <2>1, Zenon
  <2>3. PICK seen \in SUBSET Faults : seen = broken
    BY DEF IInv, TypeOK
  <2>4. Handle(seen, S, W)
    BY <2>2, <2>3
  <2>5. late' \subseteq late /\ UNCHANGED <<expired, broken, level2, update, countVars>>
    BY <1>1 DEF Heartbeat
  <2> QED BY <2>4, <2>5, HandleStep
<1>2. CASE HandleLate
  <2>1. PICK seen \in late :
          late' = late \ {seen} /\ \E S \in SUBSET Answered : \E W \in SUBSET S : Handle(seen, S, W)
    BY <1>2, Zenon DEF HandleLate
  <2>2. PICK S \in SUBSET Answered : \E W \in SUBSET S : Handle(seen, S, W)
    BY <2>1, Zenon
  <2>3. PICK W \in SUBSET S : Handle(seen, S, W)
    BY <2>2, Zenon
  <2>4. late' \subseteq late /\ UNCHANGED <<expired, broken, level2, update, countVars>>
    BY <1>2, <2>1 DEF HandleLate
  <2>5. seen \in SUBSET Faults
    BY DEF IInv, TypeOK
  <2> QED BY <2>3, <2>4, <2>5, HandleStep
<1>3. CASE \E t \in Tasks : Run(t) \/ Disturb(t)
  BY <1>3, HostStep
<1>4. CASE CommitUpdate
  BY <1>4, CommitStep
<1> QED BY <1>1, <1>2, <1>3, <1>4, QuietStep DEF Next

LEMMA Invariant == Spec => []IInv
BY InitInv, Invariance, PTL DEF Spec

-----------------------------------------------------------------------------
(* The theorems.                                                             *)

\* Every reachable state is well typed: the rows of Incident and RepairAttempt.
THEOREM TypeCorrect == Spec => []TypeOK
<1>1. IInv => TypeOK
  BY DEF IInv
<1> QED BY <1>1, Invariant, PTL

\* Nothing is repaired in earnest before a dry run of the same incident has
\* passed, however heartbeats and operators interleave: _maybe_dispatch.
THEOREM NoRepairUntried == Spec => []DryRunFirst
<1>1. IInv => DryRunFirst
  BY DEF IInv
<1> QED BY <1>1, Invariant, PTL

\* An attempt is concluded when its tasks are, and well only if the host has
\* performed them all: record_agent_results.
THEOREM ConcludedByTasks == Spec => []ConclusionAgrees
<1>1. IInv => ConclusionAgrees
  BY DEF IInv
<1> QED BY <1>1, Invariant, PTL

\* A heartbeat that sees the fault of an unresolved incident leaves what the
\* operators have made of it, unless they have revived it: _active_incident.
THEOREM OperatorsWorkKept == Spec => WorkKept
<1> DEFINE Kept == \A i \in DOMAIN incidents \ revived :
                     /\ incidents[i].status # "resolved"
                     /\ broken # {} /\ incidents[i].fault = Min(broken)
                     /\ incidents'[i] # incidents[i]
                     => ~Heartbeat
<1>1. IInv /\ [Next]_vars => [Kept]_vars
  <2> SUFFICES ASSUME IInv, Heartbeat, NEW i \in DOMAIN incidents \ revived,
                      incidents[i].status # "resolved",
                      broken # {}, incidents[i].fault = Min(broken)
               PROVE  incidents'[i] = incidents[i]
    OBVIOUS
  <2>1. TypeOK /\ DOMAIN incidents = 1 .. Len(incidents) /\ Len(incidents) \in Nat
    BY TypeFacts DEF IInv
  <2>2. i = Len(incidents)
    BY DEF IInv, Newest
  <2>3. i \in Unresolved(Min(broken))
    BY DEF Unresolved
  <2>4. Current(broken) \in DOMAIN incidents /\ i <= Current(broken)
    BY <2>1, <2>3, CurrentFacts DEF TypeOK
  <2>5. Current(broken) = i
    BY <2>1, <2>2, <2>4
  <2>6. incidents' = Reconciled(broken)
    BY Zenon DEF Heartbeat, Handle
  <2> QED BY <2>1, <2>5, <2>6, ReconciledFacts DEF TypeOK
<1> QED BY <1>1, Invariant, PTL DEF Spec, WorkKept
=============================================================================
