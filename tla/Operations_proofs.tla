-------------------------- MODULE Operations_proofs -------------------------
(***************************************************************************)
(* What the controller owes to those who operate it: alerts they are told  *)
(* of, for any number of messages, attempts and failures and any settings; *)
(* and backups that are what they are said to be, for any number of        *)
(* uploads, attestations and restores, and for any retention policy that   *)
(* keeps at least one snapshot.                                            *)
(***************************************************************************)
EXTENDS RecoveryPoints, Alerting, FiniteSetTheorems, SequenceTheorems,
        WellFoundedInduction, TLAPS

USE DEF jobVars, pointVars, keepVars, restoreVars, worldVars, alertVars, sentVars

\* RecoveryPoints.

-----------------------------------------------------------------------------
(* The inductive invariant.  The parties share no lock, so that each of the  *)
(* properties rests on what the others leave alone.                          *)

\* The steps of the job: a row is written for a snapshot that has none yet,
\* and the newest snapshot is in the repository.
Sequence ==
  /\ job.at \notin {"idle", "staged"} => uploaded > 0
  /\ job.at = "staged" => uploaded < MaxSnapshots
  /\ uploaded > 0 => uploaded \in repository
  /\ \A s \in Snapshots : points[s] # None => s <= uploaded
  /\ job.at \in {"uploaded", "checked", "restored"} => points[uploaded] = None
  /\ markers.upload <= uploaded
  /\ job.at = "marked" => markers.upload = uploaded

\* What the job holds for verified, and what an attestation names, is proved.
\* A row is verified once, and its version then is 1.
Honest ==
  /\ job.verified => job.at \in {"restored", "recorded", "marked"} /\ uploaded \in proved
  /\ \A a \in Attests : attested[a] # None => attested[a] \in proved
  /\ \A s \in Snapshots :
       points[s] # None => (points[s].version = 1 <=> points[s].digest # None)

\* What is executed is what was planned.
Plans ==
  /\ approved \subseteq 1 .. uploaded
  /\ forgetting \subseteq Removals(approved)
  /\ \A r \in Restores :
       /\ restores[r].at # "idle" => restores[r].plan \in 1 .. uploaded
       /\ restores[r].at \in Working => restores[r].snapshot = restores[r].plan

\* The manifest a restore has hashed, or read, is still there, unless another
\* one has crossed it.
Kept(r) ==
  r \notin crossed =>
    /\ restores[r].at \in Verifying => target["manifest"] = restores[r].snapshot
    /\ restores[r].at = "read" => restores[r].manifest = restores[r].snapshot

IInv ==
  /\ TypeOK
  /\ Sequence
  /\ Honest
  /\ Plans
  /\ \A r \in Restores : Kept(r)
  /\ VerifiedRestored
  /\ AttestedOnce

LEMMA ConstantFacts ==
  /\ MaxSnapshots \in Nat /\ MaxSnapshots > 0 /\ Keep \in Nat /\ Keep > 0
  /\ None \notin Snapshots /\ None \notin Digest /\ None \notin Point
  /\ Job \notin Attests
BY ConstantsAssumption

LEMMA InitInv == Init => IInv
<1> SUFFICES ASSUME Init PROVE IInv
  OBVIOUS
<1> USE ConstantFacts
<1>1. TypeOK
  BY DEF Init, TypeOK, Idle, NoPlan, Nothing, Files
<1>2. Sequence /\ Honest
  BY DEF Init, Sequence, Honest, Idle
<1>3. Plans
  BY DEF Init, Plans, NoPlan, Working, Verifying
<1>4. VerifiedRestored /\ AttestedOnce
  BY DEF Init, VerifiedRestored, AttestedOnce
<1>5. \A r \in Restores : Kept(r)
  BY DEF Init, Kept, NoPlan, Verifying
<1> QED BY <1>1, <1>2, <1>3, <1>4, <1>5 DEF IInv

-----------------------------------------------------------------------------
(* Type correctness, which needs the other conjuncts.                        *)

JobSteps == {"idle", "staged", "uploaded", "checked", "restored", "recorded", "marked"}

LEMMA GoesToFacts ==
  ASSUME TypeOK, NEW step \in JobSteps, GoesTo(step)
  PROVE  /\ job' \in [at : JobSteps, verified : BOOLEAN]
         /\ job'.at = step /\ job'.verified = job.verified
BY DEF GoesTo, TypeOK, JobSteps

\* The row that the job writes.
LEMMA NewPointFacts ==
  ASSUME IInv, job.at = "restored"
  PROVE  /\ uploaded \in Snapshots
         /\ NewPoint \in Point
         /\ NewPoint.digest # None <=> job.verified
         /\ NewPoint.digest # None <=> NewPoint.version = 1
         /\ NewPoint.digest # None => NewPoint.digest.snapshot = uploaded
<1>1. uploaded \in Snapshots
  BY DEF IInv, Sequence, TypeOK, Snapshots
<1>2. [snapshot |-> uploaded, by |-> Job] \in Digest
  BY <1>1 DEF Digest
<1> QED BY <1>1, <1>2, ConstantFacts DEF NewPoint, Point

\* The row that a promotion writes.
LEMMA PromotedFacts ==
  ASSUME IInv, NEW a \in Attests, NEW s \in Snapshots, NEW version \in {0, 1},
         attested[a] # None, points[s] # None, Claims(s, a, version)
  PROVE  /\ version = 0
         /\ Attestation(a) = [snapshot |-> s, by |-> a]
         /\ Attestation(a) \in Digest /\ Attestation(a) # None
         /\ s \in proved
<1>1. Attestation(a) = [snapshot |-> s, by |-> a] /\ s \in proved
  BY DEF Claims, Attestation, IInv, Honest
<1>2. Attestation(a) \in Digest
  BY <1>1 DEF Digest
<1>3. version = 0
  BY DEF Claims, IInv, Honest
<1> QED BY <1>1, <1>2, <1>3, ConstantFacts

PlanRecord == [at : {"idle", "planned"} \cup Working, snapshot : 0 .. MaxSnapshots,
               plan : 0 .. MaxSnapshots, left : SUBSET Files, manifest : 0 .. MaxSnapshots]

\* What an operator's step makes of the record of a restore.
LEMMA PlannedFacts ==
  ASSUME TypeOK, NEW r \in Restores, NEW s \in Snapshots, PlanRestore(r, s)
  PROVE  \A q \in Restores :
           IF q = r THEN /\ restores'[q].at = "planned" /\ restores'[q].plan = s
                         /\ restores'[q].snapshot = 0 /\ restores'[q].left = {}
                    ELSE restores'[q] = restores[q]
BY DEF PlanRestore, NoPlan, TypeOK

LEMMA ExecutedFacts ==
  ASSUME TypeOK, NEW r \in Restores, NEW s \in Snapshots, Execute(r, s)
  PROVE  \A q \in Restores :
           IF q = r THEN /\ restores'[q].at = "writing" /\ restores'[q].plan = s
                         /\ restores'[q].snapshot = s /\ restores'[q].left = Files
                    ELSE restores'[q] = restores[q]
BY DEF Execute, Approved, TypeOK

LEMMA JobType == IInv /\ Backup => TypeOK'
<1> SUFFICES ASSUME IInv, Backup PROVE TypeOK'
  OBVIOUS
<1> USE ConstantFacts, GoesToFacts DEF IInv
<1>1. CASE Stage \/ Check
  BY <1>1 DEF Stage, Check, TypeOK, JobSteps
<1>2. CASE Upload
  <2>1. uploaded' = uploaded + 1 /\ uploaded' \in 0 .. MaxSnapshots
    BY <1>2 DEF Upload, Sequence, TypeOK
  <2>2. repository' \subseteq 1 .. uploaded' /\ proved' \subseteq 1 .. uploaded'
    BY <1>2, <2>1 DEF Upload, TypeOK
  <2> QED BY <1>2, <2>1, <2>2 DEF Upload, TypeOK, JobSteps
<1>3. ASSUME NEW accepts \in BOOLEAN, TryRestore(accepts) PROVE TypeOK'
  <2>1. uploaded \in 1 .. uploaded
    BY <1>3 DEF TryRestore, TypeOK
  <2>2. job' \in [at : JobSteps, verified : BOOLEAN]
    BY <1>3 DEF TryRestore, Verified, JobSteps
  <2> QED BY <1>3, <2>1, <2>2 DEF TryRestore, TypeOK, JobSteps
<1>4. CASE Record
  BY <1>4, NewPointFacts DEF Record, TypeOK, JobSteps
<1>5. CASE MarkUpload
  BY <1>5 DEF MarkUpload, TypeOK, JobSteps
<1>6. CASE MarkRecovery
  BY <1>6 DEF MarkRecovery, Idle, TypeOK
<1>7. CASE Break
  BY <1>7 DEF Break, Idle, TypeOK
<1> QED BY <1>1, <1>2, <1>3, <1>4, <1>5, <1>6, <1>7 DEF Backup

LEMMA VerificationType == IInv /\ Verification => TypeOK'
<1> SUFFICES ASSUME IInv, NEW a \in Attests, NEW s \in Snapshots,
                    Attest(a, s) \/ \E v \in {0, 1} : Verify(a, s, v) \/ VerifyUnheard(a, s, v)
             PROVE  TypeOK'
  BY DEF Verification
<1> USE DEF IInv
<1>1. CASE Attest(a, s)
  BY <1>1 DEF Attest, TypeOK
<1>2. ASSUME NEW v \in {0, 1}, attested[a] # None, points[s] # None, Claims(s, a, v)
      PROVE  [points EXCEPT ![s] = [version |-> v + 1, digest |-> Attestation(a)]]
               \in [Snapshots -> Point \cup {None}]
  BY <1>2, PromotedFacts DEF Point, TypeOK
<1>3. ASSUME NEW v \in {0, 1}, Verify(a, s, v) PROVE TypeOK'
  BY <1>2, <1>3 DEF Verify, TypeOK
<1>4. ASSUME NEW v \in {0, 1}, VerifyUnheard(a, s, v) PROVE TypeOK'
  BY <1>2, <1>4 DEF VerifyUnheard, TypeOK
<1> QED BY <1>1, <1>3, <1>4

LEMMA RetentionType == IInv /\ Retention => TypeOK'
<1> SUFFICES ASSUME IInv, Retention PROVE TypeOK'
  OBVIOUS
<1> USE DEF IInv
<1>1. CASE PlanRetention
  BY <1>1, ConstantFacts DEF PlanRetention, TypeOK, Snapshots
<1>2. CASE ApplyRetention
  BY <1>2 DEF ApplyRetention, SamePlan, Removals, TypeOK
<1>3. ASSUME NEW s \in Snapshots, Forget(s) PROVE TypeOK'
  BY <1>3 DEF Forget, TypeOK
<1>4. CASE StopForgetting
  BY <1>4 DEF StopForgetting, TypeOK
<1> QED BY <1>1, <1>2, <1>3, <1>4 DEF Retention

LEMMA RestorationType == IInv /\ Restoration => TypeOK'
<1> SUFFICES ASSUME IInv, Restoration PROVE TypeOK'
  OBVIOUS
<1> USE ConstantFacts DEF IInv
<1>1. ASSUME NEW r \in Restores, NEW s \in Snapshots, PlanRestore(r, s) PROVE TypeOK'
  <2>1. s \in 0 .. MaxSnapshots
    BY DEF Snapshots
  <2>2. [NoPlan EXCEPT !.at = "planned", !.plan = s] \in PlanRecord
    <3>1. NoPlan \in PlanRecord
      BY DEF NoPlan, PlanRecord
    <3> QED BY <2>1, <3>1 DEF PlanRecord
  <2>3. restores' \in [Restores -> PlanRecord]
    BY <1>1, <2>2 DEF PlanRestore, PlanRecord, TypeOK
  <2> QED BY <1>1, <2>3 DEF PlanRestore, TypeOK, PlanRecord
<1>2. ASSUME NEW r \in Restores, NEW s \in Snapshots, Execute(r, s) PROVE TypeOK'
  <2>1. s \in 0 .. MaxSnapshots
    BY DEF Snapshots
  <2>2. restores \in [Restores -> PlanRecord]
    BY DEF TypeOK, PlanRecord
  <2>3. [restores[r] EXCEPT !.at = "writing", !.snapshot = s, !.left = Files] \in PlanRecord
    BY <2>1, <2>2 DEF PlanRecord, Working
  <2>4. restores' \in [Restores -> PlanRecord]
    BY <1>2, <2>2, <2>3 DEF Execute
  <2> QED BY <1>2, <2>4 DEF Execute, TypeOK, PlanRecord
<1>3. ASSUME NEW r \in Restores, NEW f \in Files, Write(r, f) PROVE TypeOK'
  <2>1. crossed' \subseteq Restores
    BY <1>3 DEF Write, Others, TypeOK
  <2> QED BY <1>3, <2>1 DEF Write, TypeOK
<1>4. ASSUME NEW r \in Restores, HashManifest(r) \/ ReadManifest(r) PROVE TypeOK'
  <2>1. "manifest" \in Files
    BY DEF Files
  <2>2. restores' \in [Restores -> PlanRecord]
    BY <1>4, <2>1 DEF HashManifest, ReadManifest, PlanRecord, Working, Verifying, TypeOK
  <2> QED BY <1>4, <2>2 DEF HashManifest, ReadManifest, TypeOK, PlanRecord
<1>5. NoPlan \in PlanRecord
  BY DEF NoPlan, PlanRecord
<1>6. ASSUME NEW r \in Restores, Ends(r)
      PROVE  restores' \in [Restores -> PlanRecord] /\ crossed' \subseteq Restores
  BY <1>5, <1>6 DEF Ends, TypeOK, PlanRecord
<1>7. ASSUME NEW r \in Restores, Finish(r) PROVE TypeOK'
  <2>1. restores[r].plan \in 1 .. uploaded
    BY <1>7 DEF Finish, Plans
  <2>2. proved' \subseteq 1 .. uploaded
    BY <1>7, <2>1 DEF Finish, TypeOK
  <2> QED BY <1>6, <1>7, <2>2 DEF Finish, TypeOK, PlanRecord
<1>8. ASSUME NEW r \in Restores, Cut(r) PROVE TypeOK'
  BY <1>6, <1>8 DEF Cut, TypeOK, PlanRecord
<1>9. CASE Clear
  BY <1>9 DEF Clear, TypeOK, Nothing
<1> QED BY <1>1, <1>2, <1>3, <1>4, <1>7, <1>8, <1>9 DEF Restoration

LEMMA Typing == IInv /\ [Next]_vars => TypeOK'
<1>1. IInv /\ UNCHANGED vars => TypeOK'
  BY DEF IInv, TypeOK, vars
<1> QED BY <1>1, JobType, VerificationType, RetentionType, RestorationType DEF Next

-----------------------------------------------------------------------------
(* The other conjuncts.                                                      *)

\* The newest snapshot is not among those that a plan removes.
LEMMA RemovedAreOlder ==
  ASSUME TypeOK, NEW S \in SUBSET (1 .. uploaded), NEW s \in Removals(S)
  PROVE  s \in S /\ s < uploaded
<1> DEFINE Newer == {t \in S : t > s}
<1>1. s \in S /\ Cardinality(Newer) >= Keep
  BY DEF Removals
<1>2. Newer # {}
  <2> SUFFICES ASSUME Newer = {} PROVE FALSE
    OBVIOUS
  <2>1. Cardinality(Newer) = 0
    BY FS_EmptySet, Zenon
  <2> HIDE DEF Newer
  <2> QED BY <1>1, <2>1, ConstantFacts
<1>3. PICK t \in S : t > s
  BY <1>2
<1> QED BY <1>1, <1>3 DEF TypeOK

\* Who writes no row and moves no job takes at most old snapshots away.
LEMMA SequenceStep == IInv /\ [Next]_vars => Sequence'
<1> SUFFICES ASSUME IInv, [Next]_vars PROVE Sequence'
  OBVIOUS
<1> USE GoesToFacts DEF IInv
<1>1. CASE Stage \/ Check
  BY <1>1 DEF Stage, Check, Sequence, JobSteps
<1>2. CASE Upload
  <2>1. uploaded' = uploaded + 1 /\ uploaded' \in Snapshots /\ uploaded \in Nat
    BY <1>2, ConstantFacts DEF Upload, Sequence, TypeOK, Snapshots
  <2>2. points[uploaded'] = None
    BY <2>1 DEF Sequence
  <2>3. markers.upload \in Nat /\ \A s \in Snapshots : s \in Nat
    BY DEF TypeOK, Snapshots
  <2> QED BY <1>2, <2>1, <2>2, <2>3 DEF Upload, Sequence, JobSteps
<1>3. ASSUME NEW accepts \in BOOLEAN, TryRestore(accepts) PROVE Sequence'
  BY <1>3 DEF TryRestore, Sequence
<1>4. CASE Record
  <2>1. uploaded \in Snapshots /\ job'.at = "recorded"
    BY <1>4, NewPointFacts DEF Record, JobSteps
  <2>2. \A s \in Snapshots : points'[s] # None => s <= uploaded
    <3>1. uploaded <= uploaded
      BY DEF TypeOK
    <3> QED BY <1>4, <2>1, <3>1 DEF Record, Sequence, TypeOK
  <2> QED BY <1>4, <2>1, <2>2 DEF Record, Sequence
<1>5. CASE MarkUpload
  BY <1>5 DEF MarkUpload, Sequence, TypeOK, JobSteps
<1>6. CASE MarkRecovery \/ Break
  BY <1>6 DEF MarkRecovery, Break, Idle, Sequence, TypeOK
<1>7. ASSUME UNCHANGED <<repository, jobVars>>,
             \A s \in Snapshots : points'[s] = points[s] \/ (points[s] # None /\ points'[s] # None)
      PROVE  Sequence'
  <2>1. job.at \in {"uploaded", "checked", "restored"} => uploaded \in Snapshots
    BY DEF Sequence, TypeOK, Snapshots
  <2> QED BY <1>7, <2>1 DEF Sequence
<1>8. ASSUME NEW a \in Attests, NEW s \in Snapshots, NEW v \in {0, 1},
             Verify(a, s, v) \/ VerifyUnheard(a, s, v)
      PROVE  Sequence'
  <2>1. ASSUME points' = [points EXCEPT ![s] = [version |-> v + 1, digest |-> Attestation(a)]],
               points[s] # None
        PROVE  \A q \in Snapshots : points'[q] = points[q] \/ (points[q] # None /\ points'[q] # None)
    <3>1. points'[s] # None
      BY <1>8, <2>1, Typing, PromotedFacts, ConstantFacts DEF Verify, VerifyUnheard, TypeOK, Point
    <3> QED BY <2>1, <3>1 DEF TypeOK
  <2> QED BY <1>7, <1>8, <2>1 DEF Verify, VerifyUnheard
<1>9. ASSUME NEW s \in Snapshots, Forget(s) PROVE Sequence'
  <2>1. s < uploaded
    BY <1>9, RemovedAreOlder DEF Forget, Plans
  <2> QED BY <1>9, <2>1 DEF Forget, Sequence, TypeOK
<1>10. CASE \/ \E a \in Attests, s \in Snapshots : Attest(a, s)
            \/ PlanRetention \/ ApplyRetention \/ StopForgetting
            \/ Restoration
            \/ UNCHANGED vars
  BY <1>7, <1>10 DEF Attest, PlanRetention, ApplyRetention, StopForgetting, Restoration,
     PlanRestore, Execute, Write, HashManifest, ReadManifest,
     Finish, Cut, Ends, Clear, vars
<1> QED
  BY <1>1, <1>2, <1>3, <1>4, <1>5, <1>6, <1>8, <1>9, <1>10
     DEF Next, Backup, Verification, Retention

LEMMA HonestStep == IInv /\ [Next]_vars => Honest'
<1> SUFFICES ASSUME IInv, [Next]_vars PROVE Honest'
  OBVIOUS
<1> USE GoesToFacts DEF IInv
<1>1. CASE Stage \/ Check \/ Upload \/ MarkUpload
  <2>1. UNCHANGED <<points, attested, proved>> /\ job'.verified = job.verified
    BY <1>1 DEF Stage, Check, Upload, MarkUpload, JobSteps
  <2>2. job.verified => job'.at = "marked" /\ UNCHANGED uploaded
    BY <1>1 DEF Stage, Check, Upload, MarkUpload, JobSteps, Honest
  <2> QED BY <2>1, <2>2 DEF Honest
<1>2. ASSUME NEW accepts \in BOOLEAN, TryRestore(accepts) PROVE Honest'
  BY <1>2 DEF TryRestore, Verified, Honest
<1>3. CASE Record
  <2>1. \A s \in Snapshots : points'[s] # None =>
          (points'[s].version = 1 <=> points'[s].digest # None)
    BY <1>3, NewPointFacts DEF Record, Honest, TypeOK
  <2> QED BY <1>3, <2>1 DEF Record, Honest, JobSteps
<1>4. CASE MarkRecovery \/ Break
  BY <1>4 DEF MarkRecovery, Break, Idle, Honest
<1>5. ASSUME NEW a \in Attests, NEW s \in Snapshots, NEW v \in {0, 1},
             Verify(a, s, v) \/ VerifyUnheard(a, s, v)
      PROVE  Honest'
  <2>1. UNCHANGED <<uploaded, job, proved, attested>>
    BY <1>5 DEF Verify, VerifyUnheard
  <2>2. CASE UNCHANGED points
    BY <2>1, <2>2 DEF Honest
  <2>3. CASE Claims(s, a, v) /\ points' = [points EXCEPT ![s] = [version |-> v + 1,
                                                                 digest |-> Attestation(a)]]
    <3>1. points'[s].version = 1 /\ points'[s].digest # None
      BY <1>5, <2>3, PromotedFacts DEF Verify, VerifyUnheard, TypeOK
    <3>2. \A q \in Snapshots \ {s} : points'[q] = points[q]
      BY <2>3 DEF TypeOK
    <3>3. \A q \in Snapshots : points'[q] # None =>
            (points'[q].version = 1 <=> points'[q].digest # None)
      BY <3>1, <3>2 DEF Honest
    <3> QED BY <2>1, <3>3 DEF Honest
  <2> QED BY <1>5, <2>2, <2>3 DEF Verify, VerifyUnheard
<1>6. ASSUME NEW a \in Attests, NEW s \in Snapshots, Attest(a, s) PROVE Honest'
  BY <1>6 DEF Attest, Honest, TypeOK
<1>7. CASE UNCHANGED <<jobVars, pointVars, attested>> /\ proved \subseteq proved'
  BY <1>7 DEF Honest
<1>8. ASSUME Retention \/ Restoration \/ UNCHANGED vars
      PROVE  UNCHANGED <<jobVars, pointVars, attested>> /\ proved \subseteq proved'
  BY <1>8 DEF Retention, PlanRetention, ApplyRetention, Forget, StopForgetting, Restoration,
     PlanRestore, Execute, Write, HashManifest, ReadManifest,
     Finish, Cut, Ends, Clear, vars
<1> QED
  BY <1>1, <1>2, <1>3, <1>4, <1>5, <1>6, <1>7, <1>8 DEF Next, Backup, Verification

LEMMA PlansStep == IInv /\ [Next]_vars => Plans'
<1> SUFFICES ASSUME IInv, [Next]_vars PROVE Plans'
  OBVIOUS
<1> USE DEF IInv
<1>1. uploaded \in Nat
  BY DEF TypeOK
<1>2. CASE UNCHANGED <<approved, forgetting, restores>> /\ uploaded' \in {uploaded, uploaded + 1}
  BY <1>1, <1>2 DEF Plans, Removals
<1>3. ASSUME Backup \/ Verification \/ Clear \/ UNCHANGED vars
      PROVE  UNCHANGED <<approved, forgetting, restores>> /\ uploaded' \in {uploaded, uploaded + 1}
  BY <1>3 DEF Backup, Stage, Upload, Check, TryRestore, Record, MarkUpload, MarkRecovery, Break,
     Verification, Attest, Verify, VerifyUnheard, Clear, vars
<1>4. CASE PlanRetention
  BY <1>4 DEF PlanRetention, Plans, TypeOK
<1>5. CASE ApplyRetention
  BY <1>5 DEF ApplyRetention, SamePlan, Plans
<1>6. ASSUME NEW s \in Snapshots, Forget(s) PROVE Plans'
  BY <1>6 DEF Forget, Plans, Removals
<1>7. CASE StopForgetting
  BY <1>7 DEF StopForgetting, Plans
<1>8. ASSUME UNCHANGED <<uploaded, approved, forgetting>>, NEW r \in Restores,
             \A q \in Restores \ {r} : restores'[q] = restores[q],
             restores'[r].at # "idle" => restores'[r].plan \in 1 .. uploaded,
             restores'[r].at \in Working => restores'[r].snapshot = restores'[r].plan
      PROVE  Plans'
  BY <1>8 DEF Plans, Removals
<1>9. ASSUME NEW r \in Restores, NEW s \in Snapshots, PlanRestore(r, s) PROVE Plans'
  <2>1. s \in 1 .. uploaded
    BY <1>9 DEF PlanRestore, TypeOK
  <2>2. /\ \A q \in Restores \ {r} : restores'[q] = restores[q]
        /\ restores'[r].at = "planned" /\ restores'[r].plan = s
    BY <1>9, PlannedFacts
  <2>3. UNCHANGED <<uploaded, approved, forgetting>>
    BY <1>9 DEF PlanRestore
  <2> QED BY <1>8, <2>1, <2>2, <2>3 DEF Working, Verifying
<1>10. ASSUME NEW r \in Restores, NEW s \in Snapshots, Execute(r, s) PROVE Plans'
  <2>1. s \in 1 .. uploaded
    BY <1>10 DEF Execute, TypeOK
  <2>2. /\ \A q \in Restores \ {r} : restores'[q] = restores[q]
        /\ restores'[r].plan = s /\ restores'[r].snapshot = s
    BY <1>10, ExecutedFacts
  <2>3. UNCHANGED <<uploaded, approved, forgetting>>
    BY <1>10 DEF Execute
  <2> QED BY <1>8, <2>1, <2>2, <2>3
<1>11. ASSUME NEW r \in Restores, NEW f \in Files, Write(r, f) PROVE Plans'
  <2>1. /\ \A q \in Restores \ {r} : restores'[q] = restores[q]
        /\ restores'[r].at = restores[r].at /\ restores'[r].plan = restores[r].plan
        /\ restores'[r].snapshot = restores[r].snapshot
    BY <1>11 DEF Write, TypeOK
  <2> QED BY <1>8, <1>11, <2>1 DEF Write, Plans
<1>12. ASSUME NEW r \in Restores, HashManifest(r) \/ ReadManifest(r) PROVE Plans'
  <2>1. /\ \A q \in Restores \ {r} : restores'[q] = restores[q]
        /\ restores'[r].plan = restores[r].plan
        /\ restores'[r].snapshot = restores[r].snapshot
        /\ restores[r].at \in Working
    BY <1>12 DEF HashManifest, ReadManifest, Working, Verifying, TypeOK
  <2> QED BY <1>8, <1>12, <2>1 DEF HashManifest, ReadManifest, Plans, Working, Verifying
<1>13. ASSUME NEW r \in Restores, Finish(r) \/ Cut(r) PROVE Plans'
  <2>1. /\ \A q \in Restores \ {r} : restores'[q] = restores[q]
        /\ restores'[r].at = "idle"
    BY <1>13 DEF Finish, Cut, Ends, NoPlan, TypeOK
  <2> QED BY <1>8, <1>13, <2>1 DEF Finish, Cut, Working, Verifying
<1> QED
  BY <1>2, <1>3, <1>4, <1>5, <1>6, <1>7, <1>9, <1>10, <1>11, <1>12, <1>13
     DEF Next, Retention, Restoration

\* Who writes marks those whose manifest he may have replaced.
LEMMA KeptStep == IInv /\ [Next]_vars => \A r \in Restores : Kept(r)'
<1> SUFFICES ASSUME IInv, [Next]_vars, NEW r \in Restores PROVE Kept(r)'
  OBVIOUS
<1> USE DEF IInv
<1>1. Kept(r)
  OBVIOUS
<1>2. CASE UNCHANGED restoreVars
  BY <1>1, <1>2 DEF Kept, restoreVars
<1>3. ASSUME Backup \/ Verification \/ Retention \/ UNCHANGED vars PROVE UNCHANGED restoreVars
  BY <1>3 DEF Backup, Stage, Upload, Check, TryRestore, Record, MarkUpload, MarkRecovery, Break,
     Verification, Attest, Verify, VerifyUnheard, Retention, PlanRetention, ApplyRetention,
     Forget, StopForgetting, restoreVars, vars
<1>4. ASSUME restores'[r].at \notin Verifying PROVE Kept(r)'
  BY <1>4 DEF Kept, Verifying
<1>5. ASSUME NEW q \in Restores, NEW s \in Snapshots, PlanRestore(q, s) \/ Execute(q, s)
      PROVE  Kept(r)'
  <2>1. CASE q = r
    BY <1>4, <1>5, <2>1, PlannedFacts, ExecutedFacts DEF Verifying
  <2>2. CASE q # r
    <3>1. restores'[r] = restores[r] /\ UNCHANGED <<target, crossed>>
      BY <1>5, <2>2, PlannedFacts, ExecutedFacts DEF PlanRestore, Execute
    <3> QED BY <1>1, <3>1 DEF Kept
  <2> QED BY <2>1, <2>2
<1>6. ASSUME NEW q \in Restores, NEW f \in Files, Write(q, f), r \notin crossed' PROVE Kept(r)'
  <2>1. /\ restores'[r].at = restores[r].at /\ restores'[r].snapshot = restores[r].snapshot
        /\ restores'[r].manifest = restores[r].manifest
    BY <1>6 DEF Write, TypeOK
  <2>2. r \notin crossed
    BY <1>6 DEF Write
  <2>3. restores[r].at \in Verifying => restores[q].snapshot = restores[r].snapshot
    BY <1>6 DEF Write, Others
  <2>4. target'["manifest"] \in {target["manifest"], restores[q].snapshot}
    BY <1>6 DEF Write, TypeOK, Files
  <2> QED BY <1>1, <2>1, <2>2, <2>3, <2>4 DEF Kept
<1>7. ASSUME NEW q \in Restores, HashManifest(q) \/ ReadManifest(q) PROVE Kept(r)'
  <2>1. UNCHANGED <<target, crossed>>
    BY <1>7 DEF HashManifest, ReadManifest
  <2>2. CASE q # r
    <3>1. restores'[r] = restores[r]
      BY <1>7, <2>2 DEF HashManifest, ReadManifest, TypeOK
    <3> QED BY <1>1, <2>1, <3>1 DEF Kept
  <2>3. CASE q = r /\ HashManifest(r)
    <3>1. /\ restores'[r].at = "hashed" /\ restores'[r].snapshot = restores[r].snapshot
          /\ target["manifest"] = restores[r].snapshot
      BY <2>3 DEF HashManifest, TypeOK
    <3> QED BY <2>1, <3>1 DEF Kept, Verifying
  <2>4. CASE q = r /\ ReadManifest(r)
    <3>1. /\ restores[r].at \in Verifying /\ restores'[r].snapshot = restores[r].snapshot
          /\ restores'[r].manifest = target["manifest"]
      BY <2>4 DEF ReadManifest, Verifying, TypeOK
    <3> QED BY <1>1, <2>1, <3>1 DEF Kept
  <2> QED BY <1>7, <2>2, <2>3, <2>4
<1>8. ASSUME NEW q \in Restores, Finish(q) \/ Cut(q) PROVE Kept(r)'
  <2>1. Ends(q) /\ UNCHANGED target
    BY <1>8 DEF Finish, Cut
  <2>2. CASE q = r
    <3>1. restores'[r].at = "idle"
      BY <2>1, <2>2 DEF Ends, NoPlan, TypeOK
    <3> QED BY <1>4, <3>1 DEF Verifying
  <2>3. CASE q # r
    <3>1. restores'[r] = restores[r] /\ (r \in crossed' <=> r \in crossed)
      BY <2>1, <2>3 DEF Ends, TypeOK
    <3> QED BY <1>1, <2>1, <3>1 DEF Kept
  <2> QED BY <2>2, <2>3
<1>9. CASE Clear
  <2>1. restores'[r].at \notin Verifying
    BY <1>9 DEF Clear, Working
  <2> QED BY <1>4, <2>1
<1>10. ASSUME r \in crossed' PROVE Kept(r)'
  BY <1>10 DEF Kept
<1> QED
  BY <1>2, <1>3, <1>5, <1>6, <1>7, <1>8, <1>9, <1>10 DEF Next, Restoration

\* A row is written by the job, when there is none, or promoted, when it has no
\* digest; every other step leaves the rows alone.
LEMMA RowSteps ==
  ASSUME IInv, [Next]_vars
  PROVE  \/ Record
         \/ \E a \in Attests, s \in Snapshots, v \in {0, 1} :
              /\ Verify(a, s, v) \/ VerifyUnheard(a, s, v)
              /\ UNCHANGED proved
         \/ UNCHANGED pointVars /\ proved \subseteq proved'
<1> DEFINE Rest == UNCHANGED pointVars /\ proved \subseteq proved'
<1>1. ASSUME Backup PROVE Record \/ Rest
  BY <1>1 DEF Backup, Stage, Upload, Check, TryRestore, MarkUpload, MarkRecovery, Break
<1>2. ASSUME Verification
      PROVE  \/ \E a \in Attests, s \in Snapshots, v \in {0, 1} :
                  /\ Verify(a, s, v) \/ VerifyUnheard(a, s, v)
                  /\ UNCHANGED proved
             \/ Rest
  BY <1>2 DEF Verification, Attest, Verify, VerifyUnheard
<1>3. ASSUME Retention PROVE Rest
  BY <1>3 DEF Retention, PlanRetention, ApplyRetention, Forget, StopForgetting
<1>4. ASSUME Restoration PROVE Rest
  BY <1>4 DEF Restoration, PlanRestore, Execute, Write, HashManifest, ReadManifest,
     Finish, Cut, Ends, Clear
<1>5. ASSUME UNCHANGED vars PROVE Rest
  BY <1>5 DEF vars
<1> QED BY <1>1, <1>2, <1>3, <1>4, <1>5 DEF Next

\* A promotion puts its own digest on the row and touches no other.
LEMMA PromotionStep ==
  ASSUME IInv, NEW a \in Attests, NEW s \in Snapshots, NEW v \in {0, 1},
         Verify(a, s, v) \/ VerifyUnheard(a, s, v)
  PROVE  /\ told' \subseteq told \cup {<<s, a>>}
         /\ \/ /\ points[s] # None /\ points[s].digest = None
               /\ points'[s] # None /\ points'[s].digest = [snapshot |-> s, by |-> a]
               /\ s \in proved
               /\ \A q \in Snapshots \ {s} : points'[q] = points[q]
            \/ /\ UNCHANGED points
               /\ points[s] # None /\ points[s].digest = [snapshot |-> s, by |-> a]
<1> USE DEF IInv
<1>1. told' \subseteq told \cup {<<s, a>>} /\ attested[a] # None /\ points[s] # None
  BY DEF Verify, VerifyUnheard
<1>2. CASE /\ Claims(s, a, v)
           /\ points' = [points EXCEPT ![s] = [version |-> v + 1, digest |-> Attestation(a)]]
  <2>1. [version |-> v + 1, digest |-> Attestation(a)] \in Point
    BY <1>1, <1>2, PromotedFacts DEF Point
  <2>2. points'[s] # None /\ points'[s].digest = Attestation(a)
    BY <1>2, <2>1, ConstantFacts DEF TypeOK
  <2>3. \A q \in Snapshots \ {s} : points'[q] = points[q]
    BY <1>2 DEF TypeOK
  <2>4. points[s].digest = None
    BY <1>2 DEF Claims
  <2> QED BY <1>1, <1>2, <2>2, <2>3, <2>4, PromotedFacts
<1>3. CASE Repeats(s, a) /\ UNCHANGED points
  <2>1. points[s].digest = Attestation(a)
    BY <1>3 DEF Repeats
  <2>2. Attestation(a) \in Digest
    BY <1>1 DEF Attestation, Digest, TypeOK
  <2>3. points[s].digest.snapshot = s
    BY <1>1, <2>1, <2>2, ConstantFacts DEF VerifiedRestored
  <2>4. points[s].digest = [snapshot |-> s, by |-> a]
    BY <2>1, <2>3 DEF Attestation
  <2> QED BY <1>1, <1>3, <2>4
<1> QED BY <1>2, <1>3 DEF Verify, VerifyUnheard

LEMMA VerifiedStep == IInv /\ [Next]_vars => VerifiedRestored'
<1> SUFFICES ASSUME IInv, [Next]_vars PROVE VerifiedRestored'
  OBVIOUS
<1> USE DEF IInv
<1>1. ASSUME NEW s \in Snapshots, points'[s] # None, points'[s].digest # None
      PROVE  s \in proved' /\ points'[s].digest.snapshot = s
  <2>1. points[s] # None /\ points[s].digest # None => s \in proved /\ points[s].digest.snapshot = s
    BY DEF VerifiedRestored
  <2>2. CASE Record
    BY <1>1, <2>1, <2>2, NewPointFacts DEF Record, Honest, TypeOK
  <2>3. ASSUME NEW a \in Attests, NEW q \in Snapshots, NEW v \in {0, 1},
               Verify(a, q, v) \/ VerifyUnheard(a, q, v), UNCHANGED proved
        PROVE  s \in proved' /\ points'[s].digest.snapshot = s
    <3>1. \/ /\ s = q /\ s \in proved
             /\ points'[q] # None /\ points'[q].digest = [snapshot |-> q, by |-> a]
          \/ points'[s] = points[s]
      BY <2>3, PromotionStep
    <3> QED BY <1>1, <2>1, <2>3, <3>1
  <2>4. CASE UNCHANGED pointVars /\ proved \subseteq proved'
    BY <1>1, <2>1, <2>4
  <2> QED BY <2>2, <2>3, <2>4, RowSteps
<1>2. markers'.recovery \in proved' \cup {0} /\ markers'.recovery <= markers'.upload
  <2>1. markers.recovery \in proved \cup {0} /\ markers.recovery <= markers.upload
        /\ markers.recovery \in Nat /\ markers.upload \in Nat /\ uploaded \in Nat
    BY DEF VerifiedRestored, TypeOK
  <2>2. CASE MarkUpload
    BY <2>1, <2>2 DEF MarkUpload, Sequence, TypeOK
  <2>3. CASE MarkRecovery
    BY <2>1, <2>3 DEF MarkRecovery, Sequence, Honest, TypeOK
  <2>4. CASE UNCHANGED markers /\ proved \subseteq proved'
    BY <2>1, <2>4
  <2>5. ASSUME ~MarkUpload, ~MarkRecovery PROVE UNCHANGED markers /\ proved \subseteq proved'
    BY <2>5 DEF Next, Backup, Stage, Upload, Check, TryRestore, Record, Break, Verification,
       Attest, Verify, VerifyUnheard, Retention, PlanRetention, ApplyRetention, Forget,
       StopForgetting, Restoration, PlanRestore, Execute, Write, HashManifest, ReadManifest,
     Finish, Cut, Ends, Clear, vars
  <2> QED BY <2>2, <2>3, <2>4, <2>5
<1> QED BY <1>1, <1>2 DEF VerifiedRestored

LEMMA AttestedStep == IInv /\ [Next]_vars => AttestedOnce'
<1> SUFFICES ASSUME IInv, [Next]_vars, NEW t \in told'
             PROVE  points'[t[1]] # None /\ points'[t[1]].digest = [snapshot |-> t[1], by |-> t[2]]
  BY DEF AttestedOnce
<1> USE DEF IInv
<1>1. t \in told => /\ t[1] \in Snapshots /\ points[t[1]] # None
                    /\ points[t[1]].digest = [snapshot |-> t[1], by |-> t[2]]
                    /\ points[t[1]].digest # None
  <2> SUFFICES ASSUME t \in told
               PROVE  /\ t[1] \in Snapshots /\ points[t[1]] # None
                      /\ points[t[1]].digest = [snapshot |-> t[1], by |-> t[2]]
                      /\ points[t[1]].digest # None
    OBVIOUS
  <2>1. t[1] \in Snapshots /\ t[2] \in Attests
    BY DEF TypeOK
  <2>2. [snapshot |-> t[1], by |-> t[2]] \in Digest
    BY <2>1 DEF Digest
  <2> QED BY <2>1, <2>2, ConstantFacts DEF AttestedOnce
<1>2. CASE Record
  <2>1. t \in told /\ points[uploaded] = None
    BY <1>2 DEF Record, Sequence
  <2>2. points'[t[1]] = points[t[1]]
    BY <1>1, <1>2, <2>1 DEF Record, TypeOK
  <2> QED BY <1>1, <2>1, <2>2
<1>3. ASSUME NEW a \in Attests, NEW s \in Snapshots, NEW v \in {0, 1},
             Verify(a, s, v) \/ VerifyUnheard(a, s, v)
      PROVE  points'[t[1]] # None /\ points'[t[1]].digest = [snapshot |-> t[1], by |-> t[2]]
  <2>1. CASE t = <<s, a>>
    <3>1. points'[s] # None /\ points'[s].digest = [snapshot |-> s, by |-> a]
      BY <1>3, PromotionStep
    <3>2. t[1] = s /\ t[2] = a
      BY <2>1
    <3> QED BY <3>1, <3>2
  <2>2. CASE t \in told
    <3>1. points'[t[1]] = points[t[1]]
      BY <1>1, <1>3, <2>2, PromotionStep
    <3> QED BY <1>1, <2>2, <3>1
  <2>3. t \in told \cup {<<s, a>>}
    BY <1>3, PromotionStep
  <2> QED BY <2>1, <2>2, <2>3
<1>4. CASE UNCHANGED pointVars
  BY <1>1, <1>4
<1> QED BY <1>2, <1>3, <1>4, RowSteps

LEMMA Invariance == Spec => []IInv
<1>1. Init => IInv
  BY InitInv
<1>2. IInv /\ [Next]_vars => IInv'
  BY Typing, SequenceStep, HonestStep, PlansStep, KeptStep, VerifiedStep, AttestedStep DEF IInv
<1> QED BY <1>1, <1>2, PTL DEF Spec

-----------------------------------------------------------------------------
(* The properties. *)

\* Every variable keeps its type, and a row has one of two versions.
THEOREM TypeCorrect == Spec => []TypeOK
<1>1. IInv => TypeOK
  BY DEF IInv
<1> QED BY <1>1, Invariance, PTL

\* Only one attestation of a recovery point is ever answered with success, and
\* it is the one on the row, whatever answers are lost and repeated and however
\* many attestations there are.
THEOREM OneAttestation == Spec => []AttestedOnce
<1>1. IInv => AttestedOnce
  BY DEF IInv
<1> QED BY <1>1, Invariance, PTL

\* A verified row and the marker of a verified recovery stand for a snapshot
\* that was restored and found usable, wherever the job breaks.
THEOREM VerifiedIsRestored == Spec => []VerifiedRestored
<1>1. IInv => VerifiedRestored
  BY DEF IInv
<1> QED BY <1>1, Invariance, PTL

\* What leaves the repository was in the plan approved last, and the newest
\* snapshot stays.
THEOREM OnlyForgottenAsApproved == Spec => ForgottenAsApproved
<1>1. IInv => (uploaded > 0 => uploaded \in repository)
  BY DEF IInv, Sequence
<1>2. IInv /\ [Next]_vars => [repository \ repository' \subseteq Removals(approved)]_repository
  <2> SUFFICES ASSUME IInv, [Next]_vars PROVE repository \ repository' \subseteq Removals(approved)
    OBVIOUS
  <2>1. ASSUME NEW s \in Snapshots, Forget(s)
        PROVE  repository \ repository' \subseteq Removals(approved)
    BY <2>1 DEF Forget, IInv, Plans
  <2>2. \/ \E s \in Snapshots : Forget(s)
        \/ repository \subseteq repository'
    BY DEF Next, Backup, Stage, Upload, Check, TryRestore, Record, MarkUpload, MarkRecovery,
       Break, Verification, Attest, Verify, VerifyUnheard, Retention, PlanRetention,
       ApplyRetention, StopForgetting, Restoration, PlanRestore, Execute, Write, HashManifest,
       ReadManifest, Finish, Cut, Ends, Clear, vars
  <2> QED BY <2>1, <2>2
<1> QED BY <1>1, <1>2, Invariance, PTL DEF Spec, ForgottenAsApproved

\* A restore ends well only with every file of the approved snapshot in the
\* target, whoever wrote there before, and whoever writes there while it verifies
\* unless he writes another snapshot.
THEOREM DoneAsApproved == Spec => RestoredAsApproved
<1>1. IInv => \A r \in Restores : Finish(r)
        => r \in crossed \/ \A f \in Files : target[f] = restores[r].plan
  <2> SUFFICES ASSUME IInv, NEW r \in Restores, Finish(r), r \notin crossed, NEW f \in Files
               PROVE  target[f] = restores[r].plan
    OBVIOUS
  <2>1. restores[r].at = "read" /\ target["artifact"] = restores[r].manifest
    BY DEF Finish, Matches
  <2>2. target["manifest"] = restores[r].snapshot /\ restores[r].manifest = restores[r].snapshot
    BY <2>1 DEF IInv, Kept, Verifying
  <2>3. restores[r].snapshot = restores[r].plan
    BY <2>1 DEF IInv, Plans, Working, Verifying
  <2> QED BY <2>1, <2>2, <2>3 DEF Files
<1> QED BY <1>1, Invariance, PTL DEF Spec, RestoredAsApproved

-----------------------------------------------------------------------------
(* Alerts.  What an observation makes of an alert, and what a cycle of the   *)
(* loop may find of the rows it reads, whatever is added to them meanwhile.  *)

\* Who acknowledged, or has a failure that reached its threshold, was told.
Tells(a) ==
  /\ a.state = "acknowledged" => a.told \/ a.raced
  /\ a.fails = FailureThreshold /\ a.state \notin {"silenced", "closed"}
       => a.told \/ a.raced

\* A row that still waits may be tried again.
Tries(rows) == \A n \in DOMAIN rows : Waiting(rows[n]) => rows[n].attempts <= MaxAttempts

\* Only what waits is sent, and the rows at the start of a cycle stay.
Cycle ==
  /\ loop.batch \subseteq DOMAIN deliveries
  /\ \A n \in loop.batch : Waiting(deliveries[n])
  /\ loop.pc = "send" => Len(loop.rows) <= Len(deliveries)
  /\ loop.pc # "send" => loop.batch = {}
  /\ Len(loop.rows) <= MaxDeliveries
  /\ loop.pc = "probe" => source = "check"
  /\ source = "host" => loop.pc = "idle"

\* A delivery that nothing has disturbed.
Undisturbed(n) == n \in DOMAIN deliveries \ disturbed
Unsent(n)      == Undisturbed(n) /\ Waiting(deliveries[n])

\* What was sent undisturbed is delivered, and what is still to be sent comes
\* after it: it is due, and in the batch unless it is newer than that.
Undamaged ==
  \A n \in DOMAIN deliveries \ disturbed :
    \/ deliveries[n].status = "delivered"
    \/ deliveries[n].status = "pending" /\ deliveries[n].due
Arrived ==
  \A pair \in inbox :
    /\ Undisturbed(pair[2]) /\ deliveries[pair[2]].status = "delivered"
    /\ \A n \in DOMAIN deliveries : Unsent(n) => pair[2] < n
Ahead ==
  loop.pc = "send" =>
    \A n \in DOMAIN deliveries :
      Unsent(n) => n \in loop.batch \/ \A m \in loop.batch : m < n

AlertingInv ==
  /\ AlertingTypeOK
  /\ Tells(alert) /\ Tells(loop.alert)
  /\ Tries(deliveries) /\ Tries(loop.rows)
  /\ Cycle
  /\ Undamaged
  /\ Arrived
  /\ Ahead
  /\ InOrderOnce

LEMMA LeastExists ==
  ASSUME NEW S \in SUBSET Nat, S # {}
  PROVE  Min(S) \in S /\ \A m \in S : Min(S) <= m
<1>1. PICK n \in S : \A m \in S : ~(<<m, n>> \in OpToRel(<, Nat))
  <2>1. IsWellFoundedOn(OpToRel(<, Nat), Nat)
    BY NatLessThanWellFounded
  <2> QED BY <2>1, WFMin
<1>2. \A m \in S : n <= m
  <2> TAKE m \in S
  <2>1. <<m, n>> \in OpToRel(<, Nat) <=> <<m, n>> \in Nat \X Nat /\ <<m, n>>[1] < <<m, n>>[2]
    BY Zenon DEF OpToRel
  <2>2. ~(m < n)
    BY <1>1, <2>1
  <2> QED BY <2>2
<1> QED BY <1>1, <1>2 DEF Min

LEMMA AlertingFacts ==
  /\ FailureThreshold \in Nat /\ FailureThreshold > 0
  /\ RecoveryThreshold \in Nat /\ RecoveryThreshold > 0
  /\ MaxAttempts \in Nat /\ MaxAttempts > 0
  /\ StaleAfter \in Nat /\ StaleAfter > 0
  /\ Interval \in Nat /\ Interval > 0
  /\ OfflineAfter \in Nat /\ MaxDeliveries \in Nat /\ MaxFaults \in Nat
  /\ StaleAfter < OfflineAfter
BY ThresholdAssumption, AlertingAssumption

LEMMA UpToTyped ==
  ASSUME NEW bound \in Nat, NEW n \in Nat
  PROVE  UpTo(bound, n) \in 0 .. bound
BY DEF UpTo

LEMMA ObservedTyped ==
  ASSUME NEW a \in Alerts, NEW success \in BOOLEAN, NEW q \in BOOLEAN
  PROVE  Observed(a, success, q) \in Alerts
<1> USE AlertingFacts
<1>1. Failed(a) \in 0 .. FailureThreshold /\ Succeeded(a) \in 0 .. RecoveryThreshold
  <2>1. a.fails + 1 \in Nat /\ a.succs + 1 \in Nat
    BY DEF Alerts
  <2> QED BY <2>1, UpToTyped DEF Failed, Succeeded
<1>2. AfterFailure(a, q) \in AlertStates /\ AfterSuccess(a) \in AlertStates
  BY DEF AfterFailure, AfterSuccess, Alerts, AlertStates
<1> QED BY <1>1, <1>2 DEF Observed, Alerts

\* A failure is told at its threshold, and who knows of it goes on knowing.
LEMMA ObservedTells ==
  ASSUME NEW a \in Alerts, NEW success \in BOOLEAN, NEW q \in BOOLEAN, Tells(a)
  PROVE  Tells(Observed(a, success, q))
<1> USE AlertingFacts
<1> DEFINE b == Observed(a, success, q)
<1>1. CASE success
  <2>1. b.fails = 0 /\ (b.state = "acknowledged" => a.state = "acknowledged")
    BY <1>1 DEF Observed, AfterSuccess
  <2>2. b.state = "acknowledged" => b.told \/ b.raced
    BY <1>1, <2>1 DEF Observed, Tells, Alerts
  <2> QED BY <2>1, <2>2 DEF Tells
<1>2. CASE ~success
  <2>1. b.state = AfterFailure(a, q) /\ b.fails = Failed(a)
    BY <1>2 DEF Observed
  <2>2. b.state = "firing" => b.told
    BY <1>2 DEF Observed
  <2>3. b.state = "acknowledged" => a.state = "acknowledged" /\ b.told = a.told /\ b.raced = a.raced
    BY <1>2 DEF Observed, AfterFailure, Alerts
  <2>4. b.fails = FailureThreshold => b.state \in {"silenced", "firing", "acknowledged"}
    BY <2>1 DEF AfterFailure, Known, Reached
  <2> QED BY <2>1, <2>2, <2>3, <2>4 DEF Tells
<1> QED BY <1>1, <1>2

LEMMA RowsGrow ==
  ASSUME NEW rows \in Seq(Delivery), NEW d \in Delivery
  PROVE  /\ Append(rows, d) \in Seq(Delivery)
         /\ Len(Append(rows, d)) = Len(rows) + 1
         /\ DOMAIN rows = 1 .. Len(rows)
         /\ DOMAIN Append(rows, d) = 1 .. Len(rows) + 1
         /\ Append(rows, d)[Len(rows) + 1] = d
         /\ \A n \in DOMAIN rows : Append(rows, d)[n] = rows[n]
OBVIOUS

\* One observation: the alert as observed, and at most one delivery more, which
\* is due.
LEMMA ObserveFacts ==
  ASSUME AlertingInv, NEW success \in BOOLEAN, Observe(success)
  PROVE  /\ alert' = Observed(alert, success, quiet)
         /\ alert' \in Alerts /\ Tells(alert')
         /\ \/ deliveries' = deliveries
            \/ /\ Len(deliveries) < MaxDeliveries
               /\ \E event \in {"firing", "resolved", "reminder"} :
                    deliveries' = Scheduled(event)
<1> USE DEF AlertingInv, AlertingTypeOK
<1>1. alert' = Observed(alert, success, quiet)
  BY DEF Observe
<1>2. quiet \in BOOLEAN /\ alert \in Alerts /\ Tells(alert)
  OBVIOUS
<1>3. \/ deliveries' = deliveries
      \/ /\ Len(deliveries) < MaxDeliveries
         /\ \E event \in {"firing", "resolved", "reminder"} : deliveries' = Scheduled(event)
  BY DEF Observe, Event
<1> QED BY <1>1, <1>2, <1>3, ObservedTyped, ObservedTells

\* What a new row changes for the rows, the batch and the order.
LEMMA NewRowFacts ==
  ASSUME AlertingInv, NEW event \in {"firing", "resolved", "reminder"},
         Len(deliveries) < MaxDeliveries, deliveries' = Scheduled(event)
  PROVE  /\ deliveries' \in Seq(Delivery) /\ Len(deliveries') = Len(deliveries) + 1
         /\ Len(deliveries') <= MaxDeliveries
         /\ DOMAIN deliveries = 1 .. Len(deliveries)
         /\ DOMAIN deliveries' = 1 .. Len(deliveries) + 1
         /\ deliveries'[Len(deliveries) + 1].status = "pending"
         /\ deliveries'[Len(deliveries) + 1].due
         /\ deliveries'[Len(deliveries) + 1].attempts = 0
         /\ \A n \in DOMAIN deliveries : deliveries'[n] = deliveries[n]
<1> DEFINE d == [event |-> event, status |-> "pending", attempts |-> 0, due |-> TRUE]
<1>1. d \in Delivery
  BY AlertingFacts DEF Delivery
<1>2. deliveries \in Seq(Delivery) /\ deliveries' = Append(deliveries, d)
  BY DEF AlertingInv, AlertingTypeOK, Scheduled
<1>3. Len(deliveries) \in Nat /\ MaxDeliveries \in Nat
  BY <1>2, AlertingFacts
<1> HIDE DEF d
<1>4. /\ deliveries' \in Seq(Delivery) /\ Len(deliveries') = Len(deliveries) + 1
      /\ DOMAIN deliveries = 1 .. Len(deliveries)
      /\ DOMAIN deliveries' = 1 .. Len(deliveries) + 1
      /\ deliveries'[Len(deliveries) + 1] = d
      /\ \A n \in DOMAIN deliveries : deliveries'[n] = deliveries[n]
  BY <1>1, <1>2, RowsGrow
<1> QED BY <1>3, <1>4 DEF d

\* What a row that is added, or none, leaves true.
LEMMA ObserveRows ==
  ASSUME AlertingInv, NEW success \in BOOLEAN, Observe(success),
         disturbed' = disturbed, inbox' = inbox
  PROVE  /\ deliveries' \in Seq(Delivery) /\ Len(deliveries') <= MaxDeliveries
         /\ Len(deliveries) <= Len(deliveries')
         /\ DOMAIN deliveries \subseteq DOMAIN deliveries'
         /\ \A n \in DOMAIN deliveries : deliveries'[n] = deliveries[n]
         /\ \A n \in DOMAIN deliveries' \ DOMAIN deliveries :
              \A m \in DOMAIN deliveries : m < n
         /\ Tries(deliveries)'
         /\ Undamaged' /\ Arrived'
<1> USE AlertingFacts
<1>1. /\ deliveries \in Seq(Delivery) /\ Len(deliveries) \in Nat
      /\ Len(deliveries) <= MaxDeliveries
      /\ Tries(deliveries) /\ Undamaged /\ Arrived
  BY DEF AlertingInv, AlertingTypeOK
<1>2. CASE deliveries' = deliveries
  BY <1>1, <1>2 DEF Tries, Undamaged, Arrived, Undisturbed, Unsent
<1>3. ASSUME NEW event \in {"firing", "resolved", "reminder"},
             Len(deliveries) < MaxDeliveries, deliveries' = Scheduled(event)
      PROVE  /\ deliveries' \in Seq(Delivery) /\ Len(deliveries') <= MaxDeliveries
             /\ Len(deliveries) <= Len(deliveries')
             /\ DOMAIN deliveries \subseteq DOMAIN deliveries'
             /\ \A n \in DOMAIN deliveries : deliveries'[n] = deliveries[n]
             /\ \A n \in DOMAIN deliveries' \ DOMAIN deliveries :
                  \A m \in DOMAIN deliveries : m < n
             /\ Tries(deliveries)'
             /\ Undamaged' /\ Arrived'
  <2>1. /\ deliveries' \in Seq(Delivery) /\ Len(deliveries') = Len(deliveries) + 1
        /\ Len(deliveries') <= MaxDeliveries
        /\ DOMAIN deliveries = 1 .. Len(deliveries)
        /\ DOMAIN deliveries' = 1 .. Len(deliveries) + 1
        /\ deliveries'[Len(deliveries) + 1].status = "pending"
        /\ deliveries'[Len(deliveries) + 1].due
        /\ deliveries'[Len(deliveries) + 1].attempts = 0
        /\ \A n \in DOMAIN deliveries : deliveries'[n] = deliveries[n]
    BY <1>3, NewRowFacts
  <2>2. \A n \in DOMAIN deliveries' : n \in DOMAIN deliveries \/ n = Len(deliveries) + 1
    BY <1>1, <2>1
  <2>3. \A m \in DOMAIN deliveries : m < Len(deliveries) + 1
    BY <1>1, <2>1
  <2>4. Tries(deliveries)'
    BY <1>1, <2>1, <2>2 DEF Tries
  <2>5. Undamaged'
    BY <1>1, <2>1, <2>2 DEF Undamaged
  <2>6. Arrived'
    BY <1>1, <2>1, <2>2, <2>3 DEF Arrived, Undisturbed, Unsent
  <2> QED BY <1>1, <2>1, <2>2, <2>3, <2>4, <2>5, <2>6
<1> QED BY <1>2, <1>3, ObserveFacts

\* The cycle that starts to send has every undisturbed message in its batch.
LEMMA OpenedFacts ==
  ASSUME NEW rows \in Seq(Delivery), Len(rows) <= MaxDeliveries
  PROVE  /\ Opened(rows).pc = "send" /\ Opened(rows).rows = deliveries
         /\ Opened(rows).alert = IF source = "check" THEN alert ELSE NewAlert
         /\ Opened(rows).batch \in SUBSET Numbers
         /\ \A n \in Numbers :
              n \in Opened(rows).batch <=> n \in DOMAIN rows /\ Waiting(rows[n]) /\ rows[n].due
<1> USE AlertingFacts
<1>1. DOMAIN rows \subseteq Numbers
  BY DEF Numbers
<1> QED BY <1>1 DEF Opened, Due

LEMMA NewAlertFacts == NewAlert \in Alerts /\ Tells(NewAlert)
BY AlertingFacts DEF NewAlert, Alerts, AlertStates, Tells

LEMMA NoCycleFacts ==
  NoCycle \in [pc : {"idle", "probe", "send"}, batch : SUBSET Numbers,
              alert : Alerts, rows : Seq(Delivery)]
BY NewAlertFacts DEF NoCycle

LEMMA ProbeFacts ==
  [NoCycle EXCEPT !.pc = "probe"]
    \in [pc : {"idle", "probe", "send"}, batch : SUBSET Numbers,
        alert : Alerts, rows : Seq(Delivery)]
<1>1. NoCycle \in [pc : {"idle", "probe", "send"}, batch : SUBSET Numbers,
                   alert : Alerts, rows : Seq(Delivery)]
  BY NoCycleFacts
<1> QED BY <1>1

LEMMA AlertingInit_ == AlertingInit => AlertingInv
<1> SUFFICES ASSUME AlertingInit PROVE AlertingInv
  OBVIOUS
<1> USE AlertingFacts, NewAlertFacts
<1>1. AlertingTypeOK
  <2>1. host \in [status : {"healthy", "stale", "offline"}, age : 0 .. OldAge,
                 timer : 0 .. Interval + 1, gap : BOOLEAN]
    BY DEF AlertingInit, OldAge
  <2>2. request \in [kind : {"none", "acknowledge", "silence", "close"}, seen : AlertStates]
    BY DEF AlertingInit, NoRequest, AlertStates
  <2>3. deliveries \in Seq(Delivery) /\ Len(deliveries) <= MaxDeliveries
    BY DEF AlertingInit
  <2>4. loop = NoCycle /\ alert = NewAlert
    BY DEF AlertingInit
  <2>5. {quiet, recent} \subseteq BOOLEAN
    BY DEF AlertingInit
  <2>6. source \in Sources /\ inbox = {} /\ disturbed = {} /\ faults = 0
    BY DEF AlertingInit
  <2> QED BY <2>1, <2>2, <2>3, <2>4, <2>5, <2>6, NoCycleFacts DEF AlertingTypeOK
<1>2. Tells(alert) /\ Tells(loop.alert)
  BY DEF AlertingInit, NoCycle
<1>3. Tries(deliveries) /\ Tries(loop.rows) /\ Cycle
  BY DEF AlertingInit, NoCycle, Tries, Cycle
<1>4. Undamaged /\ Arrived /\ Ahead /\ InOrderOnce
  BY DEF AlertingInit, NoCycle, Undamaged, Arrived, Ahead, InOrderOnce
<1> QED BY <1>1, <1>2, <1>3, <1>4 DEF AlertingInv

\* Whatever does not touch the rows, the loop or the inbox.
LEMMA RowsKept ==
  ASSUME AlertingInv, deliveries' = deliveries, loop' = loop, source' = source,
         disturbed' = disturbed, inbox' = inbox
  PROVE  /\ Tells(loop.alert)' /\ Tries(deliveries)' /\ Tries(loop.rows)'
         /\ Cycle' /\ Undamaged' /\ Arrived' /\ Ahead' /\ InOrderOnce'
<1> USE DEF AlertingInv
<1>1. Tells(loop.alert)' /\ Tries(deliveries)' /\ Tries(loop.rows)' /\ Cycle'
  BY DEF Tells, Tries, Cycle
<1>2. Undamaged' /\ Arrived' /\ Ahead' /\ InOrderOnce'
  BY DEF Undamaged, Arrived, Ahead, InOrderOnce, Undisturbed, Unsent
<1> QED BY <1>1, <1>2

LEMMA StartProbeInv == AlertingInv /\ StartProbe => AlertingInv'
<1> SUFFICES ASSUME AlertingInv, StartProbe PROVE AlertingInv'
  OBVIOUS
<1> USE AlertingFacts, NewAlertFacts DEF AlertingInv
<1>1. AlertingTypeOK'
  BY ProbeFacts DEF AlertingTypeOK, StartProbe
<1>2. Tells(alert)' /\ Tells(loop.alert)' /\ Tries(deliveries)' /\ Tries(loop.rows)' /\ Cycle'
  BY DEF AlertingTypeOK, StartProbe, NoCycle, Tells, Tries, Cycle
<1>3. Undamaged' /\ Arrived' /\ Ahead' /\ InOrderOnce'
  BY DEF StartProbe, NoCycle, Undamaged, Arrived, Ahead, InOrderOnce, Undisturbed, Unsent
<1> QED BY <1>1, <1>2, <1>3

LEMMA PersistResultInv == AlertingInv /\ PersistResult => AlertingInv'
<1> SUFFICES ASSUME AlertingInv, PersistResult PROVE AlertingInv'
  OBVIOUS
<1> USE AlertingFacts, NewAlertFacts
<1>1. PICK success \in BOOLEAN : Observe(success)
  BY DEF PersistResult
<1>2. UNCHANGED <<worldVars, sentVars, host, request, faults>> /\ loop.pc = "probe"
  BY DEF PersistResult
<1>3. alert' \in Alerts /\ Tells(alert)'
  BY <1>1, ObserveFacts
<1>4. /\ deliveries' \in Seq(Delivery) /\ Len(deliveries') <= MaxDeliveries
      /\ Len(deliveries) <= Len(deliveries')
      /\ Tries(deliveries)' /\ Undamaged' /\ Arrived'
  BY <1>1, <1>2, ObserveRows
<1>5. /\ loop'.pc = "send" /\ loop'.rows = deliveries
      /\ loop'.alert = IF source = "check" THEN alert ELSE NewAlert
      /\ loop'.batch \in SUBSET Numbers
      /\ \A n \in Numbers : n \in loop'.batch
           <=> n \in DOMAIN deliveries' /\ Waiting(deliveries'[n]) /\ deliveries'[n].due
  BY <1>4, OpenedFacts DEF PersistResult
<1>6. AlertingTypeOK'
  <2>1. loop' = [pc |-> "send", batch |-> Due(deliveries'), rows |-> deliveries,
                 alert |-> IF source = "check" THEN alert ELSE NewAlert]
    BY DEF PersistResult, Opened
  <2> QED BY <1>2, <1>3, <1>4, <1>5, <2>1 DEF AlertingInv, AlertingTypeOK
<1>7. DOMAIN deliveries' \subseteq Numbers
  BY <1>4 DEF Numbers
<1>8. Tells(loop.alert)' /\ Tries(loop.rows)'
  BY <1>5 DEF AlertingInv, AlertingTypeOK
<1>9. Cycle'
  <2>1. source = "check"
    BY <1>2 DEF AlertingInv, Cycle
  <2> QED BY <1>2, <1>4, <1>5, <2>1 DEF Cycle, AlertingInv, AlertingTypeOK
<1>10. Ahead'
  BY <1>4, <1>5, <1>7 DEF Ahead, Unsent, Undisturbed, Undamaged, Waiting
<1>11. InOrderOnce'
  BY <1>2 DEF AlertingInv, InOrderOnce
<1> QED BY <1>3, <1>4, <1>6, <1>8, <1>9, <1>10, <1>11 DEF AlertingInv

LEMMA SkipChecksInv == AlertingInv /\ SkipChecks => AlertingInv'
<1> SUFFICES ASSUME AlertingInv, SkipChecks PROVE AlertingInv'
  OBVIOUS
<1> USE AlertingFacts, NewAlertFacts
<1>1. /\ UNCHANGED <<worldVars, alertVars, sentVars, host, request, faults>>
      /\ loop.pc = "idle" /\ loop' = Opened(deliveries) /\ source # "host"
  BY DEF SkipChecks
<1>2. deliveries \in Seq(Delivery) /\ Len(deliveries) <= MaxDeliveries
  BY DEF AlertingInv, AlertingTypeOK
<1>3. /\ loop'.pc = "send" /\ loop'.rows = deliveries
      /\ loop'.alert = IF source = "check" THEN alert ELSE NewAlert
      /\ loop'.batch \in SUBSET Numbers
      /\ \A n \in Numbers : n \in loop'.batch
           <=> n \in DOMAIN deliveries /\ Waiting(deliveries[n]) /\ deliveries[n].due
  BY <1>1, <1>2, OpenedFacts
<1>4. AlertingTypeOK'
  <2>1. loop' = [pc |-> "send", batch |-> Due(deliveries), rows |-> deliveries,
                 alert |-> IF source = "check" THEN alert ELSE NewAlert]
    BY <1>1 DEF Opened
  <2> QED BY <1>1, <1>2, <1>3, <2>1 DEF AlertingInv, AlertingTypeOK
<1>5. Tells(alert)' /\ Tells(loop.alert)' /\ Tries(deliveries)' /\ Tries(loop.rows)'
  BY <1>1, <1>3 DEF AlertingInv, Tells, Tries
<1>6. DOMAIN deliveries \subseteq Numbers
  BY <1>2 DEF Numbers
<1>7. Cycle'
  BY <1>1, <1>2, <1>3, <1>6 DEF Cycle, AlertingInv, AlertingTypeOK
<1>8. Undamaged' /\ Arrived' /\ InOrderOnce'
  BY <1>1 DEF AlertingInv, Undamaged, Arrived, InOrderOnce, Undisturbed, Unsent
<1>9. Ahead'
  BY <1>1, <1>3, <1>6 DEF AlertingInv, Ahead, Unsent, Undisturbed, Undamaged, Waiting
<1> QED BY <1>4, <1>5, <1>7, <1>8, <1>9 DEF AlertingInv

\* The message that is sent next: the oldest of the batch, and before anything
\* undisturbed that has not been sent.
LEMMA NextMessage ==
  ASSUME AlertingInv, loop.pc = "send", loop.batch # {}
  PROVE  LET n == OldestOf(loop.batch) IN
         /\ n \in loop.batch /\ n \in DOMAIN deliveries /\ n \in Numbers
         /\ Waiting(deliveries[n])
         /\ \A m \in DOMAIN deliveries : Unsent(m) /\ m # n => n < m
         /\ \A pair \in inbox : pair[2] # n
<1> USE DEF AlertingInv
<1> DEFINE n == OldestOf(loop.batch)
<1>1. loop.batch \in SUBSET Nat /\ loop.batch \subseteq Numbers
  BY DEF AlertingTypeOK, Numbers
<1>2. n \in loop.batch /\ \A m \in loop.batch : n <= m
  BY <1>1, LeastExists DEF OldestOf
<1>3. n \in DOMAIN deliveries /\ Waiting(deliveries[n])
  BY <1>2 DEF Cycle
<1>4. ASSUME NEW m \in DOMAIN deliveries, Unsent(m), m # n
      PROVE  n < m
  <2>1. m \in loop.batch \/ \A k \in loop.batch : k < m
    BY <1>4 DEF Ahead
  <2>2. n \in Nat
    BY <1>1, <1>2
  <2>3. CASE m \in loop.batch
    BY <1>1, <1>2, <1>4, <2>2, <2>3
  <2> QED BY <1>2, <2>1, <2>3
<1>5. \A pair \in inbox : pair[2] # n
  BY <1>3 DEF Arrived, Waiting
<1> HIDE DEF n
<1>6. n \in Numbers
  BY <1>1, <1>2
<1> QED BY <1>2, <1>3, <1>4, <1>5, <1>6 DEF n

\* A row that is put off, or whose attempt failed, changes only itself.
LEMMA CalmFacts ==
  ASSUME AlertingInv, NEW S \in SUBSET Numbers, inbox' = Calm(S),
         disturbed' = disturbed \cup S,
         NEW rows \in Seq(Delivery), deliveries' = rows,
         \A n \in DOMAIN rows \ disturbed' : n \in DOMAIN deliveries /\ rows[n] = deliveries[n],
         \A n \in DOMAIN deliveries \ disturbed' : n \in DOMAIN rows
  PROVE  /\ inbox' \subseteq (Numbers \cup {0}) \X Numbers /\ disturbed' \subseteq Numbers
         /\ Undamaged' /\ Arrived' /\ InOrderOnce'
         /\ \A n \in DOMAIN rows : Unsent(n)' => Unsent(n)
<1> USE DEF AlertingInv
<1>1. inbox' \subseteq inbox /\ \A pair \in inbox' : pair[2] \notin S
  BY DEF Calm
<1>2. \A n \in DOMAIN rows : Unsent(n)' => Unsent(n)
  BY DEF Unsent, Undisturbed
<1>3. Undamaged'
  BY DEF Undamaged
<1>4. Arrived'
  <2> SUFFICES ASSUME NEW pair \in inbox'
               PROVE  /\ Undisturbed(pair[2])' /\ deliveries'[pair[2]].status = "delivered"
                      /\ \A n \in DOMAIN deliveries' : Unsent(n)' => pair[2] < n
    BY DEF Arrived
  <2>1. /\ pair \in inbox /\ pair[2] \notin S
        /\ Undisturbed(pair[2]) /\ deliveries[pair[2]].status = "delivered"
    BY <1>1 DEF Arrived
  <2>2. pair[2] \in DOMAIN rows /\ pair[2] \notin disturbed'
    BY <2>1 DEF Undisturbed
  <2>3. rows[pair[2]] = deliveries[pair[2]]
    BY <2>2
  <2>4. \A n \in DOMAIN deliveries : Unsent(n) => pair[2] < n
    BY <2>1 DEF Arrived
  <2> QED BY <1>2, <2>1, <2>2, <2>3, <2>4 DEF Undisturbed, Unsent
<1>5. InOrderOnce' /\ inbox' \subseteq (Numbers \cup {0}) \X Numbers /\ disturbed' \subseteq Numbers
  BY <1>1 DEF InOrderOnce, AlertingTypeOK
<1> QED BY <1>2, <1>3, <1>4, <1>5

\* The row of a message after an attempt.
LEMMA AttemptFacts ==
  ASSUME NEW d \in Delivery, Waiting(d), d.attempts <= MaxAttempts
  PROVE  LET e == [d EXCEPT !.due = FALSE] IN
         /\ e.attempts = d.attempts
         /\ [e EXCEPT !.status = "retrying"] \in Delivery
         /\ [e EXCEPT !.status = "retrying"].attempts <= MaxAttempts
         /\ \A status \in {GivenUp(d.attempts + 1), "delivered"} :
              LET f == [e EXCEPT !.attempts = d.attempts + 1, !.status = status] IN
              f \in Delivery /\ f.status = status
              /\ (Waiting(f) => f.attempts <= MaxAttempts)
<1> USE AlertingFacts
<1>1. d.attempts \in Nat /\ d.attempts + 1 \in 0 .. MaxAttempts + 1
  BY DEF Delivery
<1>2. GivenUp(d.attempts + 1) \in {"dead_letter", "retrying"}
  BY DEF GivenUp
<1>3. GivenUp(d.attempts + 1) = "retrying" => d.attempts + 1 <= MaxAttempts
  BY <1>1 DEF GivenUp
<1> DEFINE e == [d EXCEPT !.due = FALSE]
<1>4. e \in Delivery /\ e.attempts = d.attempts
  BY DEF Delivery
<1>5. [e EXCEPT !.status = "retrying"] \in Delivery
      /\ [e EXCEPT !.status = "retrying"].attempts <= MaxAttempts
  BY <1>4 DEF Delivery
<1>6. ASSUME NEW status \in {GivenUp(d.attempts + 1), "delivered"}
      PROVE  LET f == [e EXCEPT !.attempts = d.attempts + 1, !.status = status] IN
             f \in Delivery /\ f.status = status
             /\ (Waiting(f) => f.attempts <= MaxAttempts)
  <2> HIDE DEF e
  <2>1. status \in {"dead_letter", "retrying", "delivered"}
    BY <1>2
  <2> DEFINE f == [e EXCEPT !.attempts = d.attempts + 1, !.status = status]
  <2>2. f \in Delivery /\ f.status = status /\ f.attempts = d.attempts + 1
    BY <1>1, <1>4, <2>1 DEF Delivery
  <2>3. Waiting(f) => status = "retrying"
    BY <2>1, <2>2 DEF Waiting
  <2> QED BY <1>3, <1>6, <2>2, <2>3
<1> QED BY <1>4, <1>5, <1>6

LEMMA SendInv == AlertingInv /\ Send => AlertingInv'
<1> SUFFICES ASSUME AlertingInv, Send PROVE AlertingInv'
  OBVIOUS
<1> USE AlertingFacts
<1> DEFINE n == OldestOf(loop.batch)
           d == [deliveries[n] EXCEPT !.due = FALSE]
           attempts == d.attempts + 1
<1>1. /\ loop.pc = "send" /\ loop.batch # {}
      /\ UNCHANGED <<worldVars, alert, host, request, faults>>
      /\ loop' = [loop EXCEPT !.batch = @ \ {n}]
  BY DEF Send
<1>2. \/ recent /\ Disturbed(n, [d EXCEPT !.status = "retrying"])
      \/ Disturbed(n, [d EXCEPT !.attempts = attempts, !.status = GivenUp(attempts)])
      \/ /\ deliveries' = [deliveries EXCEPT ![n] =
              [d EXCEPT !.attempts = attempts, !.status = "delivered"]]
         /\ inbox' = IF n \in disturbed THEN inbox ELSE After(n)
         /\ recent' = TRUE
         /\ UNCHANGED disturbed
  BY DEF Send
<1>3. /\ n \in loop.batch /\ n \in DOMAIN deliveries /\ n \in Numbers
      /\ Waiting(deliveries[n])
      /\ \A m \in DOMAIN deliveries : Unsent(m) /\ m # n => n < m
      /\ \A pair \in inbox : pair[2] # n
  BY <1>1, NextMessage
<1>4. deliveries \in Seq(Delivery) /\ Len(deliveries) <= MaxDeliveries
  BY DEF AlertingInv, AlertingTypeOK
<1>5. deliveries[n] \in Delivery /\ deliveries[n].attempts <= MaxAttempts
  BY <1>3, <1>4 DEF AlertingInv, Tries
<1>6. /\ [d EXCEPT !.status = "retrying"] \in Delivery
      /\ [d EXCEPT !.status = "retrying"].attempts <= MaxAttempts
      /\ \A status \in {GivenUp(attempts), "delivered"} :
           LET f == [d EXCEPT !.attempts = attempts, !.status = status] IN
           f \in Delivery /\ f.status = status
           /\ (Waiting(f) => f.attempts <= MaxAttempts)
  BY <1>3, <1>5, AttemptFacts
<1> HIDE DEF n
<1>7. ASSUME NEW row \in Delivery, deliveries' = [deliveries EXCEPT ![n] = row],
             Waiting(row) => row.attempts <= MaxAttempts
      PROVE  /\ deliveries' \in Seq(Delivery) /\ Len(deliveries') = Len(deliveries)
             /\ DOMAIN deliveries' = DOMAIN deliveries
             /\ deliveries'[n] = row
             /\ \A m \in DOMAIN deliveries : m # n => deliveries'[m] = deliveries[m]
             /\ Tries(deliveries)'
  <2>1. /\ deliveries' \in Seq(Delivery) /\ Len(deliveries') = Len(deliveries)
        /\ DOMAIN deliveries' = DOMAIN deliveries
        /\ deliveries'[n] = row
        /\ \A m \in DOMAIN deliveries : m # n => deliveries'[m] = deliveries[m]
    BY <1>3, <1>4, <1>7
  <2> QED BY <1>7, <2>1 DEF AlertingInv, Tries
<1>8. /\ loop'.batch = loop.batch \ {n} /\ loop'.pc = "send"
      /\ loop'.rows = loop.rows /\ loop'.alert = loop.alert
      /\ loop' \in [pc : {"idle", "probe", "send"}, batch : SUBSET Numbers,
                    alert : Alerts, rows : Seq(Delivery)]
  <2>1. loop \in [pc : {"idle", "probe", "send"}, batch : SUBSET Numbers,
                  alert : Alerts, rows : Seq(Delivery)]
    BY DEF AlertingInv, AlertingTypeOK
  <2> QED BY <1>1, <2>1
<1>9. Tells(alert)' /\ Tells(loop.alert)' /\ Tries(loop.rows)'
  BY <1>1, <1>8 DEF AlertingInv, Tells, Tries
\* What is left to prove once it is known what became of the row.
<1>10. ASSUME NEW row \in Delivery, deliveries' = [deliveries EXCEPT ![n] = row],
              Waiting(row) => row.attempts <= MaxAttempts,
              recent' \in BOOLEAN,
              inbox' \subseteq (Numbers \cup {0}) \X Numbers /\ disturbed' \subseteq Numbers,
              Undamaged' /\ Arrived' /\ InOrderOnce',
              \A m \in DOMAIN deliveries : Unsent(m)' => Unsent(m) /\ m # n
       PROVE  AlertingInv'
  <2>1. /\ deliveries' \in Seq(Delivery) /\ Len(deliveries') = Len(deliveries)
        /\ DOMAIN deliveries' = DOMAIN deliveries
        /\ \A m \in DOMAIN deliveries : m # n => deliveries'[m] = deliveries[m]
        /\ Tries(deliveries)'
    BY <1>7, <1>10
  <2>2. AlertingTypeOK'
    BY <1>1, <1>4, <1>8, <1>10, <2>1 DEF AlertingInv, AlertingTypeOK
  <2>3. Cycle'
    BY <1>1, <1>8, <2>1 DEF AlertingInv, Cycle
  <2>4. Ahead'
    BY <1>1, <1>8, <1>10, <2>1 DEF AlertingInv, Ahead
  <2> QED BY <1>9, <1>10, <2>1, <2>2, <2>3, <2>4 DEF AlertingInv
<1>11. ASSUME NEW row \in Delivery, Waiting(row) => row.attempts <= MaxAttempts,
              Disturbed(n, row)
       PROVE  AlertingInv'
  <2>1. /\ deliveries' = [deliveries EXCEPT ![n] = row] /\ recent' = recent
        /\ inbox' = Calm({n}) /\ disturbed' = disturbed \cup {n}
    BY <1>11 DEF Disturbed
  <2>2. /\ deliveries' \in Seq(Delivery) /\ DOMAIN deliveries' = DOMAIN deliveries
        /\ \A m \in DOMAIN deliveries : m # n => deliveries'[m] = deliveries[m]
    BY <1>7, <1>11, <2>1
  <2>3. {n} \in SUBSET Numbers
    BY <1>3
  <2>4. /\ inbox' \subseteq (Numbers \cup {0}) \X Numbers /\ disturbed' \subseteq Numbers
        /\ Undamaged' /\ Arrived' /\ InOrderOnce'
        /\ \A m \in DOMAIN deliveries' : Unsent(m)' => Unsent(m)
    BY <2>1, <2>2, <2>3, CalmFacts
  <2>5. \A m \in DOMAIN deliveries : Unsent(m)' => m # n
    BY <2>1 DEF Unsent, Undisturbed
  <2>6. recent' \in BOOLEAN
    BY <2>1 DEF AlertingInv, AlertingTypeOK
  <2> QED BY <1>10, <1>11, <2>1, <2>2, <2>4, <2>5, <2>6
<1>12. CASE recent /\ Disturbed(n, [d EXCEPT !.status = "retrying"])
  BY <1>6, <1>11, <1>12
<1>13. CASE Disturbed(n, [d EXCEPT !.attempts = attempts, !.status = GivenUp(attempts)])
  BY <1>6, <1>11, <1>13
<1>14. CASE /\ deliveries' = [deliveries EXCEPT ![n] =
                 [d EXCEPT !.attempts = attempts, !.status = "delivered"]]
            /\ inbox' = IF n \in disturbed THEN inbox ELSE After(n)
            /\ recent' = TRUE
            /\ UNCHANGED disturbed
  <2> DEFINE row == [d EXCEPT !.attempts = attempts, !.status = "delivered"]
  <2>1. row \in Delivery /\ row.status = "delivered" /\ (Waiting(row) => row.attempts <= MaxAttempts)
    BY <1>6
  <2> HIDE DEF row
  <2>2. /\ deliveries' \in Seq(Delivery) /\ DOMAIN deliveries' = DOMAIN deliveries
        /\ deliveries'[n] = row
        /\ \A m \in DOMAIN deliveries : m # n => deliveries'[m] = deliveries[m]
    BY <1>7, <1>14, <2>1 DEF row
  <2>3. \A m \in DOMAIN deliveries : Unsent(m)' => Unsent(m) /\ m # n
    BY <1>14, <2>1, <2>2 DEF Unsent, Undisturbed, Waiting
  <2>4. Undamaged'
    BY <1>14, <2>1, <2>2 DEF AlertingInv, Undamaged
  <2>5. \A pair \in inbox' \ inbox : n \notin disturbed /\ pair[2] = n
    BY <1>14 DEF After
  <2>6. Arrived'
    <3> SUFFICES ASSUME NEW pair \in inbox'
                 PROVE  /\ Undisturbed(pair[2])' /\ deliveries'[pair[2]].status = "delivered"
                        /\ \A m \in DOMAIN deliveries' : Unsent(m)' => pair[2] < m
      BY DEF Arrived
    <3>1. CASE pair \in inbox
      <4>1. /\ pair[2] \in DOMAIN deliveries \ disturbed /\ pair[2] # n
            /\ deliveries[pair[2]].status = "delivered"
            /\ \A m \in DOMAIN deliveries : Unsent(m) => pair[2] < m
        BY <1>3, <3>1 DEF AlertingInv, Arrived, Undisturbed
      <4> QED BY <1>14, <2>2, <2>3, <4>1 DEF Undisturbed
    <3>2. CASE pair \notin inbox
      BY <1>3, <1>14, <2>1, <2>2, <2>3, <2>5, <3>2 DEF Undisturbed
    <3> QED BY <3>1, <3>2
  <2>7. \A pair \in inbox : n \notin disturbed => pair[2] < n
    BY <1>3 DEF AlertingInv, Arrived, Unsent, Undisturbed
  <2>8. InOrderOnce'
    BY <1>3, <1>14, <2>7 DEF AlertingInv, InOrderOnce, After, Numbers
  <2>9. inbox' \subseteq (Numbers \cup {0}) \X Numbers /\ disturbed' \subseteq Numbers
    BY <1>3, <1>14 DEF AlertingInv, AlertingTypeOK, After
  <2>10. recent' \in BOOLEAN
    BY <1>14
  <2>11. deliveries' = [deliveries EXCEPT ![n] = row]
    BY <1>14 DEF row
  <2> QED BY <1>10, <2>1, <2>3, <2>4, <2>6, <2>8, <2>9, <2>10, <2>11
<1> QED BY <1>2, <1>12, <1>13, <1>14

LEMMA CommitInv == AlertingInv /\ Commit => AlertingInv'
<1> SUFFICES ASSUME AlertingInv, Commit PROVE AlertingInv'
  OBVIOUS
<1> USE AlertingFacts, NewAlertFacts DEF AlertingInv
<1>1. AlertingTypeOK'
  BY NoCycleFacts DEF AlertingTypeOK, Commit
<1>2. Tells(alert)' /\ Tells(loop.alert)' /\ Tries(deliveries)' /\ Tries(loop.rows)' /\ Cycle'
  BY DEF AlertingTypeOK, Commit, NoCycle, Tells, Tries, Cycle
<1>3. Undamaged' /\ Arrived' /\ Ahead' /\ InOrderOnce'
  BY DEF Commit, NoCycle, Undamaged, Arrived, Ahead, InOrderOnce, Undisturbed, Unsent
<1> QED BY <1>1, <1>2, <1>3

\* The rows after a cycle was taken back: those at its start, and any added by
\* others.
LEMMA RestoredFacts ==
  ASSUME AlertingInv, loop.pc = "send"
  PROVE  /\ Restored \in Seq(Delivery) /\ Len(Restored) <= Len(deliveries)
         /\ Len(Restored) <= MaxDeliveries /\ Tries(Restored)
<1> USE AlertingFacts
<1> DEFINE rows == loop.rows
           k    == Len(loop.rows)
           more == IF source = "check" THEN <<>> ELSE SubSeq(deliveries, k + 1, Len(deliveries))
<1>1. /\ rows \in Seq(Delivery) /\ deliveries \in Seq(Delivery)
      /\ Tries(rows) /\ Tries(deliveries)
      /\ k <= Len(deliveries) /\ Len(deliveries) <= MaxDeliveries
  BY DEF AlertingInv, AlertingTypeOK, Cycle
<1>2. k \in Nat /\ Len(deliveries) \in Nat
  BY <1>1
<1>3. /\ more \in Seq(Delivery) /\ Len(more) <= Len(deliveries) - k
      /\ \A i \in DOMAIN more : k + i \in DOMAIN deliveries /\ more[i] = deliveries[k + i]
  <2>1. CASE source = "check"
    <3>1. more = <<>>
      BY <2>1
    <3> HIDE DEF more, k
    <3> QED BY <1>1, <1>2, <3>1
  <2>2. CASE source # "check"
    <3> DEFINE tail == SubSeq(deliveries, k + 1, Len(deliveries))
    <3>1. more = tail
      BY <2>2
    <3>2. /\ tail \in Seq(Delivery) /\ Len(tail) = Len(deliveries) - k
          /\ DOMAIN tail = 1 .. (Len(deliveries) - k)
          /\ \A i \in 1 .. (Len(deliveries) - k) : tail[i] = deliveries[k + i]
      <4> HIDE DEF k
      <4> QED BY <1>1, <1>2
    <3>3. DOMAIN deliveries = 1 .. Len(deliveries)
      BY <1>1
    <3> HIDE DEF tail, more, k
    <3>4. \A i \in 1 .. (Len(deliveries) - k) : k + i \in 1 .. Len(deliveries)
      BY <1>2
    <3> QED BY <1>1, <1>2, <3>1, <3>2, <3>3, <3>4
  <2> QED BY <2>1, <2>2
<1>4. Restored = rows \o more
  BY DEF Restored
<1> HIDE DEF rows, k, more
<1>5. /\ Restored \in Seq(Delivery) /\ Len(Restored) = Len(rows) + Len(more)
      /\ DOMAIN Restored = 1 .. Len(rows) + Len(more)
      /\ \A i \in 1 .. Len(rows) + Len(more) :
           Restored[i] = IF i <= Len(rows) THEN rows[i] ELSE more[i - Len(rows)]
  BY <1>1, <1>3, <1>4
<1>6. k = Len(rows)
  BY DEF k, rows
<1>7. Len(more) \in Nat
  BY <1>3
<1>8. Tries(Restored)
  <2> SUFFICES ASSUME NEW i \in DOMAIN Restored
               PROVE  Waiting(Restored[i]) => Restored[i].attempts <= MaxAttempts
    BY DEF Tries
  <2>1. CASE i <= Len(rows)
    <3>1. i \in DOMAIN rows /\ Restored[i] = rows[i]
      BY <1>1, <1>2, <1>5, <1>6, <1>7, <2>1
    <3> QED BY <1>1, <3>1 DEF Tries
  <2>2. CASE i > Len(rows)
    <3>1. i - Len(rows) \in DOMAIN more /\ Restored[i] = more[i - Len(rows)]
      BY <1>2, <1>3, <1>5, <1>6, <1>7, <2>2
    <3>2. Restored[i] \in {deliveries[j] : j \in DOMAIN deliveries}
      BY <1>3, <3>1
    <3> QED BY <1>1, <3>2 DEF Tries
  <2>3. i \in Nat /\ Len(rows) \in Nat
    BY <1>2, <1>5, <1>6, <1>7
  <2> QED BY <2>1, <2>2, <2>3
<1> QED BY <1>1, <1>2, <1>3, <1>5, <1>6, <1>7, <1>8

LEMMA CycleFailsInv == AlertingInv /\ CycleFails => AlertingInv'
<1> SUFFICES ASSUME AlertingInv, CycleFails PROVE AlertingInv'
  OBVIOUS
<1> USE AlertingFacts, NewAlertFacts
<1>1. /\ loop.pc # "idle" /\ faults < MaxFaults /\ faults' = faults + 1 /\ loop' = NoCycle
      /\ UNCHANGED <<worldVars, recent, host, request>>
  BY DEF CycleFails
<1>2. /\ loop' \in [pc : {"idle", "probe", "send"}, batch : SUBSET Numbers,
                    alert : Alerts, rows : Seq(Delivery)]
      /\ loop'.pc = "idle" /\ loop'.batch = {} /\ loop'.rows = <<>> /\ loop'.alert = NewAlert
  BY <1>1, NoCycleFacts DEF NoCycle
<1>3. Tells(loop.alert)' /\ Tries(loop.rows)' /\ Ahead' /\ Cycle'
  BY <1>2 DEF Tells, Tries, Ahead, Cycle
<1>4. CASE loop.pc = "send"
  <2> DEFINE back == {n \in DOMAIN deliveries :
                        n > Len(Restored) \/ deliveries[n] # Restored[n]}
  <2>1. /\ deliveries' = Restored /\ disturbed' = disturbed \cup back /\ inbox' = Calm(back)
        /\ alert' = IF source = "check" THEN loop.alert ELSE alert
    BY <1>4 DEF CycleFails
  <2>2. /\ Restored \in Seq(Delivery) /\ Len(Restored) <= Len(deliveries)
        /\ Len(Restored) <= MaxDeliveries /\ Tries(Restored)
    BY <1>4, RestoredFacts
  <2>3. deliveries \in Seq(Delivery) /\ Len(deliveries) <= MaxDeliveries
    BY DEF AlertingInv, AlertingTypeOK
  <2>4. Len(deliveries) \in Nat /\ Len(Restored) \in Nat
        /\ DOMAIN deliveries = 1 .. Len(deliveries) /\ DOMAIN Restored = 1 .. Len(Restored)
    BY <2>2, <2>3
  <2>5. DOMAIN Restored \subseteq DOMAIN deliveries /\ DOMAIN deliveries \subseteq Numbers
    BY <2>2, <2>3, <2>4 DEF Numbers
  <2>6. \A n \in DOMAIN deliveries \ back : n \in DOMAIN Restored /\ deliveries[n] = Restored[n]
    BY <2>4
  <2>7. back \in SUBSET Numbers
    BY <2>5
  <2> HIDE DEF back
  <2>8. /\ inbox' \subseteq (Numbers \cup {0}) \X Numbers /\ disturbed' \subseteq Numbers
        /\ Undamaged' /\ Arrived' /\ InOrderOnce'
    <3>1. \A n \in DOMAIN Restored \ disturbed' :
            n \in DOMAIN deliveries /\ Restored[n] = deliveries[n]
      BY <2>1, <2>5, <2>6
    <3>2. \A n \in DOMAIN deliveries \ disturbed' : n \in DOMAIN Restored
      BY <2>1, <2>6
    <3> QED BY <2>1, <2>2, <2>7, <3>1, <3>2, CalmFacts
  <2>9. alert' \in Alerts /\ Tells(alert)'
    BY <2>1 DEF AlertingInv, AlertingTypeOK, Tells
  <2>10. Tries(deliveries)'
    BY <2>1, <2>2 DEF Tries
  <2>11. AlertingTypeOK'
    <3>1. faults' \in 0 .. MaxFaults
      BY <1>1 DEF AlertingInv, AlertingTypeOK
    <3>2. deliveries' \in Seq(Delivery) /\ Len(deliveries') <= MaxDeliveries
      BY <2>1, <2>2
    <3> QED BY <1>1, <1>2, <2>8, <2>9, <3>1, <3>2
            DEF AlertingInv, AlertingTypeOK, worldVars
  <2> QED BY <1>3, <2>8, <2>9, <2>10, <2>11 DEF AlertingInv
<1>5. CASE loop.pc # "send"
  <2>1. UNCHANGED <<alertVars, disturbed, inbox>>
    BY <1>5 DEF CycleFails
  <2>2. AlertingTypeOK'
    BY <1>1, <1>2, <2>1 DEF AlertingInv, AlertingTypeOK
  <2>3. Tells(alert)' /\ Tries(deliveries)' /\ Undamaged' /\ Arrived' /\ InOrderOnce'
    BY <1>1, <2>1 DEF AlertingInv, Tells, Tries, Undamaged, Arrived, InOrderOnce, Undisturbed,
       Unsent
  <2> QED BY <1>3, <2>2, <2>3 DEF AlertingInv
<1> QED BY <1>4, <1>5

\* A row of which the status, once it is disturbed, or the delay changes.
LEMMA TouchedFacts ==
  ASSUME AlertingInv, loop.pc # "send", loop' = loop, UNCHANGED <<source, inbox, disturbed>>,
         NEW n \in DOMAIN deliveries, n \in disturbed, NEW row \in Delivery,
         Waiting(row) => row.attempts <= MaxAttempts,
         deliveries' = [deliveries EXCEPT ![n] = row]
  PROVE  /\ deliveries' \in Seq(Delivery) /\ Len(deliveries') = Len(deliveries)
         /\ Tells(loop.alert)' /\ Tries(deliveries)' /\ Tries(loop.rows)'
         /\ Cycle' /\ Undamaged' /\ Arrived' /\ Ahead' /\ InOrderOnce'
<1> USE DEF AlertingInv
<1>1. deliveries \in Seq(Delivery)
  BY DEF AlertingTypeOK
<1>2. /\ deliveries' \in Seq(Delivery) /\ Len(deliveries') = Len(deliveries)
      /\ DOMAIN deliveries' = DOMAIN deliveries
      /\ deliveries'[n] = row
      /\ \A m \in DOMAIN deliveries : m # n => deliveries'[m] = deliveries[m]
  BY <1>1
<1>3. Tells(loop.alert)' /\ Tries(loop.rows)' /\ Ahead' /\ InOrderOnce'
  BY DEF Tells, Tries, Ahead, InOrderOnce
<1>4. Cycle'
  BY <1>2 DEF Cycle
<1>5. Tries(deliveries)' /\ Undamaged'
  BY <1>2 DEF Tries, Undamaged
<1>6. Arrived'
  BY <1>2 DEF Arrived, Undisturbed, Unsent
<1> QED BY <1>2, <1>3, <1>4, <1>5, <1>6

LEMMA BecomesDueInv == AlertingInv /\ BecomesDue => AlertingInv'
<1> SUFFICES ASSUME AlertingInv, BecomesDue PROVE AlertingInv'
  OBVIOUS
<1>1. PICK n \in DOMAIN deliveries :
        /\ Waiting(deliveries[n]) /\ ~deliveries[n].due
        /\ deliveries' = [deliveries EXCEPT ![n].due = TRUE]
  BY DEF BecomesDue
<1>2. /\ loop.pc # "send" /\ recent' = FALSE
      /\ UNCHANGED <<worldVars, alert, inbox, disturbed, loop, host, request, faults>>
  BY DEF BecomesDue
<1> DEFINE row == [deliveries[n] EXCEPT !.due = TRUE]
<1>3. n \in disturbed
  BY <1>1 DEF AlertingInv, Undamaged, Waiting
<1>4. row \in Delivery /\ (Waiting(row) => row.attempts <= MaxAttempts)
  <2>1. deliveries[n] \in Delivery /\ deliveries[n].attempts <= MaxAttempts
    BY <1>1 DEF AlertingInv, AlertingTypeOK, Tries
  <2> QED BY <2>1 DEF Delivery
<1>5. deliveries' = [deliveries EXCEPT ![n] = row]
  BY <1>1
<1> HIDE DEF row
<1>6. /\ deliveries' \in Seq(Delivery) /\ Len(deliveries') = Len(deliveries)
      /\ Tells(loop.alert)' /\ Tries(deliveries)' /\ Tries(loop.rows)'
      /\ Cycle' /\ Undamaged' /\ Arrived' /\ Ahead' /\ InOrderOnce'
  BY <1>2, <1>3, <1>4, <1>5, TouchedFacts
<1>7. AlertingTypeOK'
  BY <1>2, <1>6 DEF AlertingInv, AlertingTypeOK
<1> QED BY <1>2, <1>6, <1>7 DEF AlertingInv, Tells

LEMMA RetryDeliveryInv == AlertingInv /\ RetryDelivery => AlertingInv'
<1> SUFFICES ASSUME AlertingInv, RetryDelivery PROVE AlertingInv'
  OBVIOUS
<1>1. PICK n \in DOMAIN deliveries :
        /\ deliveries[n].status = "dead_letter" /\ deliveries[n].attempts <= MaxAttempts
        /\ deliveries' = [deliveries EXCEPT ![n].status = "pending", ![n].due = TRUE]
  BY DEF RetryDelivery
<1>2. /\ loop.pc # "send"
      /\ UNCHANGED <<worldVars, alert, sentVars, loop, host, request, faults>>
  BY DEF RetryDelivery
<1> DEFINE row == [deliveries[n] EXCEPT !.status = "pending", !.due = TRUE]
<1>3. n \in disturbed
  BY <1>1 DEF AlertingInv, Undamaged
<1>4. row \in Delivery /\ (Waiting(row) => row.attempts <= MaxAttempts)
  <2>1. deliveries[n] \in Delivery /\ deliveries[n].attempts <= MaxAttempts
    BY <1>1 DEF AlertingInv, AlertingTypeOK
  <2> QED BY <2>1 DEF Delivery
<1>5. deliveries' = [deliveries EXCEPT ![n] = row]
  <2>1. deliveries \in Seq(Delivery)
    BY DEF AlertingInv, AlertingTypeOK
  <2> QED BY <1>1, <2>1
<1> HIDE DEF row
<1>6. /\ deliveries' \in Seq(Delivery) /\ Len(deliveries') = Len(deliveries)
      /\ Tells(loop.alert)' /\ Tries(deliveries)' /\ Tries(loop.rows)'
      /\ Cycle' /\ Undamaged' /\ Arrived' /\ Ahead' /\ InOrderOnce'
  BY <1>2, <1>3, <1>4, <1>5, TouchedFacts
<1>7. AlertingTypeOK'
  BY <1>2, <1>6 DEF AlertingInv, AlertingTypeOK
<1> QED BY <1>2, <1>6, <1>7 DEF AlertingInv, Tells

\* Who observes while the loop may be sending: only the newest row is added.
LEMMA ObservationInv ==
  ASSUME AlertingInv, NEW success \in BOOLEAN, Observe(success),
         UNCHANGED <<worldVars, sentVars, loop, request, faults>>, source # "check",
         host' \in [status : {"healthy", "stale", "offline"}, age : 0 .. OldAge,
                    timer : 0 .. Interval + 1, gap : BOOLEAN]
  PROVE  AlertingInv'
<1> USE AlertingFacts
<1>1. alert' \in Alerts /\ Tells(alert)'
  BY ObserveFacts
<1>2. /\ deliveries' \in Seq(Delivery) /\ Len(deliveries') <= MaxDeliveries
      /\ Len(deliveries) <= Len(deliveries')
      /\ DOMAIN deliveries \subseteq DOMAIN deliveries'
      /\ \A n \in DOMAIN deliveries : deliveries'[n] = deliveries[n]
      /\ \A n \in DOMAIN deliveries' \ DOMAIN deliveries :
           \A m \in DOMAIN deliveries : m < n
      /\ Tries(deliveries)' /\ Undamaged' /\ Arrived'
  BY ObserveRows
<1>3. AlertingTypeOK'
  BY <1>1, <1>2 DEF AlertingInv, AlertingTypeOK
<1>4. Tells(loop.alert)' /\ Tries(loop.rows)' /\ InOrderOnce'
  BY DEF AlertingInv, Tells, Tries, InOrderOnce
<1>5. Cycle'
  <2>1. Len(deliveries) \in Nat /\ Len(deliveries') \in Nat /\ Len(loop.rows) \in Nat
    BY <1>2 DEF AlertingInv, AlertingTypeOK
  <2> QED BY <1>2, <2>1 DEF AlertingInv, Cycle
<1>6. Ahead'
  BY <1>2 DEF AlertingInv, Ahead, Cycle, Unsent, Undisturbed
<1> QED BY <1>1, <1>2, <1>3, <1>4, <1>5, <1>6 DEF AlertingInv

LEMMA RecordResultInv == AlertingInv /\ RecordResult => AlertingInv'
<1> SUFFICES ASSUME AlertingInv, RecordResult PROVE AlertingInv'
  OBVIOUS
<1>1. PICK success \in BOOLEAN : Observe(success)
  BY DEF RecordResult
<1>2. UNCHANGED <<worldVars, sentVars, loop, host, request, faults>> /\ source = "agent"
  BY DEF RecordResult
<1>3. host' \in [status : {"healthy", "stale", "offline"}, age : 0 .. OldAge,
                 timer : 0 .. Interval + 1, gap : BOOLEAN]
  BY <1>2 DEF AlertingInv, AlertingTypeOK
<1> QED BY <1>1, <1>2, <1>3, ObservationInv

\* A step that leaves the alert, the rows, the loop and the inbox alone.
LEMMA QuietStep ==
  ASSUME AlertingInv, UNCHANGED <<source, alertVars, sentVars, loop>>, AlertingTypeOK'
  PROVE  AlertingInv'
BY RowsKept DEF AlertingInv, Tells

\* The record of a host, from what its fields may be.
HostStates == [status : {"healthy", "stale", "offline"}, age : 0 .. OldAge,
               timer : 0 .. Interval + 1, gap : BOOLEAN]

LEMMA HostTyped ==
  ASSUME NEW h \in HostStates, NEW status \in {"healthy", "stale", "offline"},
         NEW age \in 0 .. OldAge, NEW timer \in 0 .. Interval + 1, NEW gap \in BOOLEAN
  PROVE  [h EXCEPT !.status = status, !.age = age, !.timer = timer, !.gap = gap] \in HostStates
BY DEF HostStates

LEMMA HostFields ==
  ASSUME AlertingInv
  PROVE  /\ host \in HostStates
         /\ host.status \in {"healthy", "stale", "offline"} /\ host.age \in 0 .. OldAge
         /\ host.timer \in 0 .. Interval + 1 /\ host.gap \in BOOLEAN
         /\ host = [host EXCEPT !.status = host.status, !.age = host.age,
                                !.timer = host.timer, !.gap = host.gap]
BY DEF AlertingInv, AlertingTypeOK, HostStates

LEMMA RoundInv == AlertingInv /\ Round => AlertingInv'
<1> SUFFICES ASSUME AlertingInv, Round PROVE AlertingInv'
  OBVIOUS
<1> USE AlertingFacts
<1> DEFINE band == Band(host.age)
           status == IF band = "healthy" THEN host.status ELSE band
<1>1. /\ source = "host"
      /\ UNCHANGED <<worldVars, sentVars, loop, request, faults>>
      /\ host' = [host EXCEPT !.timer = 0, !.status = status]
  BY DEF Round
<1>2. band \in {"healthy", "stale", "offline"}
  BY DEF Band
<1>3. status \in {"healthy", "stale", "offline"} /\ 0 \in 0 .. Interval + 1
  BY <1>2, HostFields
<1>4. UNCHANGED alertVars \/ Observe(band = "healthy")
  BY DEF Round
<1> HIDE DEF band, status
<1>5. host' \in HostStates
  <2>1. host' = [host EXCEPT !.status = status, !.age = host.age, !.timer = 0, !.gap = host.gap]
    BY <1>1, HostFields DEF HostStates
  <2> QED BY <1>3, <2>1, HostFields, HostTyped
<1>6. CASE UNCHANGED alertVars
  <2>1. AlertingTypeOK'
    BY <1>1, <1>5, <1>6 DEF AlertingInv, AlertingTypeOK, HostStates
  <2> QED BY <1>1, <1>6, <2>1, QuietStep
<1>7. CASE Observe(band = "healthy")
  <2>1. (band = "healthy") \in BOOLEAN
    OBVIOUS
  <2> QED BY <1>1, <1>5, <1>7, <2>1, ObservationInv DEF HostStates
<1> QED BY <1>4, <1>6, <1>7

LEMMA HostInv == AlertingInv /\ (Heartbeat \/ Tick \/ Outage) => AlertingInv'
<1> SUFFICES ASSUME AlertingInv, Heartbeat \/ Tick \/ Outage PROVE AlertingInv'
  OBVIOUS
<1> USE AlertingFacts
<1>1. UNCHANGED <<worldVars, alertVars, sentVars, loop, request>>
  BY DEF Heartbeat, Tick, Outage
<1>2. OldAge \in Nat /\ 0 \in 0 .. OldAge /\ 0 \in 0 .. Interval + 1
  BY DEF OldAge
<1>3. host' \in HostStates /\ faults' \in 0 .. MaxFaults
  <2>1. faults \in 0 .. MaxFaults
    BY DEF AlertingInv, AlertingTypeOK
  <2>2. CASE Heartbeat
    <3>1. host' = [host EXCEPT !.status = "healthy", !.age = 0, !.gap = FALSE] /\ faults' = faults
      BY <2>2 DEF Heartbeat
    <3>2. host' = [host EXCEPT !.status = "healthy", !.age = 0, !.timer = host.timer, !.gap = FALSE]
      BY <3>1, HostFields DEF HostStates
    <3>3. host' \in HostStates
      BY <1>2, <3>2, HostFields, HostTyped
    <3> QED BY <2>1, <3>1, <3>3
  <2>3. CASE Tick
    <3>1. /\ host' = [host EXCEPT !.age = UpTo(OldAge, host.age + 1), !.timer = host.timer + 1]
          /\ host.timer <= Interval /\ faults' = faults
      BY <2>3 DEF Tick
    <3>2. UpTo(OldAge, host.age + 1) \in 0 .. OldAge
      <4>1. host.age + 1 \in Nat
        BY HostFields
      <4> QED BY <1>2, <4>1, UpToTyped
    <3>3. host.timer + 1 \in 0 .. Interval + 1
      BY <3>1, HostFields
    <3>4. host' = [host EXCEPT !.status = host.status, !.age = UpTo(OldAge, host.age + 1),
                               !.timer = host.timer + 1, !.gap = host.gap]
      BY <3>1, HostFields DEF HostStates
    <3>5. host' \in HostStates
      BY <3>2, <3>3, <3>4, HostFields, HostTyped
    <3> QED BY <2>1, <3>1, <3>5
  <2>4. CASE Outage
    <3>1. /\ \E age \in host.age .. OldAge :
               host' = [host EXCEPT !.timer = 0, !.age = age, !.gap = TRUE]
          /\ faults < MaxFaults /\ faults' = faults + 1
      BY <2>4 DEF Outage
    <3>2. PICK age \in host.age .. OldAge :
               host' = [host EXCEPT !.timer = 0, !.age = age, !.gap = TRUE]
      BY <3>1
    <3>3. age \in 0 .. OldAge
      BY <1>2, HostFields
    <3>4. host' = [host EXCEPT !.status = host.status, !.age = age, !.timer = 0, !.gap = TRUE]
      BY <3>2, HostFields DEF HostStates
    <3>5. host' \in HostStates
      BY <1>2, <3>3, <3>4, HostFields, HostTyped
    <3>6. faults' \in 0 .. MaxFaults
      BY <2>1, <3>1
    <3> QED BY <3>5, <3>6
  <2> QED BY <2>2, <2>3, <2>4
<1>4. AlertingTypeOK'
  BY <1>1, <1>3 DEF AlertingInv, AlertingTypeOK, HostStates
<1> QED BY <1>1, <1>4, QuietStep

LEMMA ReadAlertInv == AlertingInv /\ (ReadAlert \/ ToggleQuiet) => AlertingInv'
<1> SUFFICES ASSUME AlertingInv, ReadAlert \/ ToggleQuiet PROVE AlertingInv'
  OBVIOUS
<1>1. UNCHANGED <<source, alertVars, sentVars, loop, host, faults>>
  BY DEF ReadAlert, ToggleQuiet
<1>2. Committed.state \in AlertStates
  BY DEF Committed, AlertingInv, AlertingTypeOK, Alerts
<1>3. request' \in [kind : {"none", "acknowledge", "silence", "close"}, seen : AlertStates]
  <2>1. CASE ReadAlert
    BY <1>2, <2>1 DEF ReadAlert, NoRequest, AlertStates
  <2>2. CASE ToggleQuiet
    BY <2>2 DEF ToggleQuiet, AlertingInv, AlertingTypeOK
  <2> QED BY <2>1, <2>2
<1>4. quiet' \in BOOLEAN
  BY DEF ReadAlert, ToggleQuiet, AlertingInv, AlertingTypeOK
<1>5. AlertingTypeOK'
  BY <1>1, <1>3, <1>4 DEF AlertingInv, AlertingTypeOK
<1> QED BY <1>1, <1>5, QuietStep

LEMMA WriteAlertInv == AlertingInv /\ WriteAlert => AlertingInv'
<1> SUFFICES ASSUME AlertingInv, WriteAlert PROVE AlertingInv'
  OBVIOUS
<1> DEFINE acknowledges == request.kind = "acknowledge"
           knows == acknowledges /\ (alert.state = request.seen \/ alert.told)
<1>1. /\ alert' = [alert EXCEPT !.state = Written, !.told = knows,
                                !.raced = acknowledges /\ ~knows]
      /\ quiet' = (quiet \/ request.kind = "silence") /\ request' = NoRequest
      /\ request.kind # "none"
      /\ UNCHANGED <<source, deliveries, sentVars, loop, host, faults>>
  BY DEF WriteAlert
<1>2. request \in [kind : {"none", "acknowledge", "silence", "close"}, seen : AlertStates]
      /\ alert \in Alerts /\ quiet \in BOOLEAN
  BY DEF AlertingInv, AlertingTypeOK
<1>3. PICK kind \in {"acknowledge", "silence", "close", "none"} : request.kind = kind
  BY <1>2
<1>4. knows \in BOOLEAN /\ acknowledges \in BOOLEAN
  BY <1>2 DEF Alerts
<1> HIDE DEF knows, acknowledges
<1>5. /\ alert'.state = Written /\ alert'.told = knows /\ alert'.raced = (acknowledges /\ ~knows)
      /\ alert'.fails = alert.fails
  BY <1>1, <1>2 DEF Alerts
<1>6. Written \in {"acknowledged", "silenced", "closed"}
      /\ (Written = "acknowledged" => acknowledges)
  BY <1>1, <1>3 DEF Written, acknowledges
<1>7. alert' \in Alerts
  BY <1>1, <1>2, <1>4, <1>6 DEF Alerts, AlertStates
<1>8. Tells(alert)'
  BY <1>4, <1>5, <1>6 DEF Tells
<1>9. AlertingTypeOK'
  <2>1. NoRequest \in [kind : {"none", "acknowledge", "silence", "close"}, seen : AlertStates]
    BY DEF NoRequest, AlertStates
  <2>2. quiet' \in BOOLEAN
    BY <1>1, <1>2
  <2> QED BY <1>1, <1>7, <2>1, <2>2 DEF AlertingInv, AlertingTypeOK
<1>10. disturbed' = disturbed /\ inbox' = inbox
  BY <1>1
<1> QED BY <1>1, <1>8, <1>9, <1>10, RowsKept DEF AlertingInv

LEMMA AlertingNextInv == AlertingInv /\ [AlertingNext]_alertingVars => AlertingInv'
<1> SUFFICES ASSUME AlertingInv, [AlertingNext]_alertingVars PROVE AlertingInv'
  OBVIOUS
<1>1. CASE UNCHANGED alertingVars
  <2>1. AlertingTypeOK'
    BY <1>1 DEF alertingVars, AlertingInv, AlertingTypeOK
  <2> QED BY <1>1, <2>1, QuietStep DEF alertingVars
<1>2. CASE AlertingNext
  BY <1>2, StartProbeInv, PersistResultInv, SkipChecksInv, SendInv, CommitInv, CycleFailsInv,
     BecomesDueInv, RecordResultInv, RoundInv, HostInv, ReadAlertInv, WriteAlertInv,
     RetryDeliveryInv
     DEF AlertingNext, ServiceLoop
<1> QED BY <1>1, <1>2

LEMMA AlertingInvariance == AlertingSpec => []AlertingInv
BY AlertingInit_, AlertingNextInv, PTL DEF AlertingSpec

\* The types of alerts, deliveries, the loop and the requests of operators.
THEOREM AlertingTypeCorrect == AlertingSpec => []AlertingTypeOK
<1>1. AlertingInv => AlertingTypeOK
  BY DEF AlertingInv
<1> QED BY <1>1, AlertingInvariance, PTL

\* Whatever observe_alert, failing cycles and operators do to an alert, a failure
\* at its threshold that is not silenced is known to an operator.
THEOREM FailuresTold == AlertingSpec => []Told
<1>1. AlertingInv => Told
  <2> SUFFICES ASSUME AlertingInv, Committed.fails = FailureThreshold,
                      Committed.state \notin {"silenced", "closed"}
               PROVE  Committed.told \/ Committed.raced
    BY DEF Told
  <2>1. Tells(Committed)
    BY DEF AlertingInv, Committed, Tells
  <2> QED BY <2>1 DEF Tells
<1> QED BY <1>1, AlertingInvariance, PTL

\* Undisturbed messages arrive once, in the order of their creation.
THEOREM MessagesInOrder == AlertingSpec => []InOrderOnce
<1>1. AlertingInv => InOrderOnce
  BY DEF AlertingInv
<1> QED BY <1>1, AlertingInvariance, PTL

-----------------------------------------------------------------------------
(* Hosts that go offline.  The age at the last round tells how many rounds   *)
(* have failed.                                                              *)

Rounds ==
  /\ host.status = "offline" =>
       /\ host.age > OfflineAfter
       /\ \/ alert.fails = FailureThreshold
          \/ StaleAfter + alert.fails * (Interval + 1) > OfflineAfter
  /\ host.status # "offline" /\ alert.fails < FailureThreshold =>
       host.age - host.timer <= StaleAfter + alert.fails * (Interval + 1)

HostRounds == source = "host" /\ ~host.gap => Rounds

LEMMA RoundKeeps ==
  ASSUME AlertingInv, HostRounds, Round
  PROVE  HostRounds'
<1> USE AlertingFacts
<1> DEFINE band == Band(host.age)
           f    == alert.fails
<1>1. /\ source = "host" /\ source' = source
      /\ host' = [host EXCEPT !.timer = 0, !.status = IF band = "healthy" THEN @ ELSE band]
      /\ IF band = "offline" /\ host.status = "offline"
         THEN UNCHANGED alertVars
         ELSE Observe(band = "healthy")
  BY DEF Round
<1>2. host \in HostStates /\ alert \in Alerts
  BY HostFields DEF AlertingInv, AlertingTypeOK
<1>3. /\ host.age \in Nat /\ host.timer \in 0 .. Interval + 1
      /\ f \in 0 .. FailureThreshold
  BY <1>2, HostFields DEF Alerts
<1>4. /\ host'.age = host.age /\ host'.timer = 0 /\ host'.gap = host.gap
      /\ host'.status = IF band = "healthy" THEN host.status ELSE band
  BY <1>1, <1>2 DEF HostStates
<1> SUFFICES ASSUME ~host.gap PROVE Rounds'
  BY <1>4 DEF HostRounds
<1>5. Rounds
  BY <1>1 DEF HostRounds
<1>6. CASE band = "offline" /\ host.status = "offline"
  <2>1. alert' = alert /\ host'.status = host.status
    BY <1>1, <1>4, <1>6
  <2> QED BY <1>4, <1>5, <1>6, <2>1 DEF Rounds
<1>7. CASE band = "healthy"
  <2>1. alert' = Observed(alert, TRUE, quiet)
    BY <1>1, <1>7 DEF Observe
  <2>2. alert'.fails = 0
    BY <2>1 DEF Observed
  <2>3. host.age <= StaleAfter
    BY <1>7 DEF Band
  <2>4. host'.status # "offline"
    BY <1>3, <1>4, <1>5, <1>7, <2>3 DEF Rounds
  <2>5. alert'.fails * (Interval + 1) = 0
    BY <2>2
  <2> QED BY <1>3, <1>4, <2>3, <2>4, <2>5 DEF Rounds
<1>8. CASE band # "healthy" /\ ~(band = "offline" /\ host.status = "offline")
  <2>1. alert' = Observed(alert, FALSE, quiet)
    BY <1>1, <1>8 DEF Observe
  <2>2. alert'.fails = Failed(alert)
    BY <2>1 DEF Observed
  <2>3. alert'.fails = IF f + 1 >= FailureThreshold THEN FailureThreshold ELSE f + 1
    BY <1>3, <2>2 DEF Failed, UpTo
  <2>4. band = "offline" => host.age > OfflineAfter
    BY <1>3 DEF Band
  <2>5. CASE f + 1 < FailureThreshold
    <3>1. alert'.fails = f + 1
      BY <1>3, <2>3, <2>5
    <3>2. /\ f * (Interval + 1) \in Nat
          /\ alert'.fails * (Interval + 1) = f * (Interval + 1) + (Interval + 1)
      BY <1>3, <3>1
    <3>3. host.age - host.timer <= StaleAfter + f * (Interval + 1)
      <4>1. host.status # "offline"
        BY <1>3, <1>5, <1>8 DEF Rounds, Band
      <4> QED BY <1>3, <1>5, <2>5, <4>1 DEF Rounds
    <3>4. host'.age <= StaleAfter + alert'.fails * (Interval + 1)
      BY <1>3, <1>4, <3>2, <3>3
    <3>5. host'.status = "offline" => host'.age > OfflineAfter
      BY <1>3, <1>4, <1>8, <2>4
    <3> QED BY <1>3, <1>4, <3>2, <3>4, <3>5 DEF Rounds
  <2>6. CASE f + 1 >= FailureThreshold
    BY <1>3, <1>4, <1>8, <2>3, <2>4, <2>6 DEF Rounds
  <2> QED BY <1>3, <2>5, <2>6
<1> QED BY <1>6, <1>7, <1>8

LEMMA HostKeeps ==
  ASSUME AlertingInv, HostRounds, Heartbeat \/ Tick \/ Outage
  PROVE  HostRounds'
<1> USE AlertingFacts
<1>1. source' = source /\ alert' = alert
  BY DEF Heartbeat, Tick, Outage
<1>2. host \in HostStates /\ alert.fails \in Nat
  <2>1. host \in HostStates
    BY HostFields
  <2>2. alert \in Alerts
    BY DEF AlertingInv, AlertingTypeOK
  <2>3. alert.fails \in Nat
    BY <2>2 DEF Alerts
  <2> QED BY <2>1, <2>3
<1>3. host.age \in 0 .. OldAge /\ host.timer \in Nat /\ OldAge \in Nat
  BY HostFields DEF OldAge
<1>4. alert.fails * (Interval + 1) \in Nat
  BY <1>2
<1>5. CASE Heartbeat
  <2>1. host'.status = "healthy" /\ host'.age = 0 /\ host'.timer = host.timer
    BY <1>2, <1>5 DEF Heartbeat, HostStates
  <2> QED BY <1>1, <1>3, <1>4, <2>1 DEF HostRounds, Rounds
<1>6. CASE Tick
  <2>1. /\ host'.status = host.status /\ host'.timer = host.timer + 1 /\ host'.gap = host.gap
        /\ host'.age = UpTo(OldAge, host.age + 1)
    BY <1>2, <1>6 DEF Tick, HostStates
  <2>2. host'.age \in Nat /\ host.age <= host'.age /\ host'.age <= host.age + 1
    BY <1>3, <2>1 DEF UpTo
  <2> QED BY <1>1, <1>3, <1>4, <2>1, <2>2 DEF HostRounds, Rounds
<1>7. CASE Outage
  <2>1. host'.gap
    BY <1>2, <1>7 DEF Outage, HostStates
  <2> QED BY <2>1 DEF HostRounds
<1> QED BY <1>5, <1>6, <1>7

\* Nothing else counts the failures of a host or looks at its heartbeats.
LEMMA OthersKeep ==
  ASSUME AlertingInv, HostRounds,
         \/ UNCHANGED alertingVars
         \/ ServiceLoop \/ CycleFails \/ BecomesDue \/ RecordResult
         \/ ReadAlert \/ WriteAlert \/ RetryDelivery \/ ToggleQuiet
  PROVE  HostRounds'
<1> SUFFICES ASSUME source' = "host" PROVE HostRounds'
  BY DEF HostRounds
<1>1. source' = source
  BY DEF alertingVars, ServiceLoop, StartProbe, PersistResult, SkipChecks, Send, Commit,
         CycleFails, BecomesDue, RecordResult, ReadAlert, WriteAlert, RetryDelivery, ToggleQuiet
<1>2. source = "host" /\ loop.pc = "idle"
  BY <1>1 DEF AlertingInv, Cycle
<1>3. host' = host
  BY DEF alertingVars, ServiceLoop, StartProbe, PersistResult, SkipChecks, Send, Commit,
         CycleFails, BecomesDue, RecordResult, ReadAlert, WriteAlert, RetryDelivery, ToggleQuiet
<1>4. alert'.fails = alert.fails
  <2>1. CASE WriteAlert
    BY <2>1 DEF WriteAlert, AlertingInv, AlertingTypeOK, Alerts
  <2>2. CASE ~WriteAlert
    <3>1. alert' = alert
      BY <1>2, <2>2 DEF alertingVars, ServiceLoop, StartProbe, PersistResult, SkipChecks, Send,
         Commit, CycleFails, BecomesDue, RecordResult, ReadAlert, RetryDelivery, ToggleQuiet
    <3> QED BY <3>1
  <2> QED BY <2>1, <2>2
<1> QED BY <1>1, <1>3, <1>4 DEF HostRounds, Rounds

LEMMA HostRoundsInit == AlertingInit => HostRounds
<1> SUFFICES ASSUME AlertingInit PROVE HostRounds
  OBVIOUS
<1>1. host.status = "healthy" /\ host.age = 0 /\ host.timer = 0
  BY DEF AlertingInit
<1>2. alert.fails = 0
  BY DEF AlertingInit, NewAlert
<1> QED BY <1>1, <1>2, AlertingFacts DEF HostRounds, Rounds

LEMMA HostRoundsNext ==
  AlertingInv /\ HostRounds /\ [AlertingNext]_alertingVars => HostRounds'
BY RoundKeeps, HostKeeps, OthersKeep DEF AlertingNext

\* mark_stale_agents_offline: whatever the settings, a host declared offline has
\* failed until its alert fires, or as often as the rounds between stale and
\* offline allow.
THEOREM OfflineIsCounted == AlertingSpec => []OfflineCounted
<1>1. AlertingInv /\ HostRounds => OfflineCounted
  BY DEF HostRounds, Rounds, OfflineCounted
<1>2. AlertingInv /\ HostRounds /\ [AlertingNext]_alertingVars => HostRounds'
  BY HostRoundsNext
<1> QED BY <1>1, <1>2, HostRoundsInit, AlertingInvariance, PTL DEF AlertingSpec
=============================================================================
