--------------------------- MODULE RecoveryPoints ---------------------------
(***************************************************************************)
(* Backups of the controller: the scheduled backup, the recovery points    *)
(* it records, their verification by attestation, retention and restores.  *)
(*                                                                         *)
(*   controller/guardian/backup.py, backup_cli.py, recovery_cli.py, api.py *)
(*   scripts/run-systemd-backup.sh, systemd-backup-markers.py              *)
(*                                                                         *)
(* Four parties work on one Restic repository and one database without a   *)
(* lock in common: the backup job (one at a time, it holds a file lock),   *)
(* owners who attest restores, an operator who applies a retention plan,   *)
(* and operators who restore.  Snapshots are numbered in the order of      *)
(* their upload; contents of different snapshots differ.                   *)
(***************************************************************************)
EXTENDS Naturals, FiniteSets

CONSTANTS
  MaxSnapshots,  \* bound: uploads
  Keep,          \* what the retention policy keeps
  Attests,       \* attestations of an isolated restore
  Restores,      \* restores operators plan and execute
  Job,           \* the verifier of the backup job itself, "guardian-backup"
  None           \* the absence of a value

Snapshots == 1..MaxSnapshots
Files     == {"manifest", "artifact"}

\* Restores that have found the target empty: the files are written, then the
\* manifest has been hashed, and then read.
Verifying == {"hashed", "read"}
Working   == {"writing"} \cup Verifying

\* A RecoveryPoint row: verified exactly if it has a digest; the digest
\* binds the row, its snapshot and manifest, and the attestation.
Digest == [snapshot : Snapshots, by : Attests \cup {Job}]
Point  == [version : {0, 1}, digest : Digest \cup {None}]

ASSUME ConstantsAssumption ==
  /\ MaxSnapshots \in Nat \ {0} /\ Keep \in Nat \ {0}
  /\ Job \notin Attests /\ None \notin Attests \cup {Job}
  /\ None \notin Snapshots \cup Digest \cup Point

VARIABLES
  repository,  \* snapshots in the repository
  uploaded,    \* snapshots 1..uploaded have been uploaded
  job,         \* how far the backup is; whether its validator accepted
  points,      \* the recovery_points rows, by snapshot
  markers,     \* the snapshots which the two freshness markers name
  attested,    \* the snapshot of an attestation
  told,        \* history: which attestations were answered with success
  approved,    \* the repository in the retention plan which is approved
  forgetting,  \* snapshots an apply under way has still to forget
  restores,    \* restores planned or under way
  target,      \* the directory restored into: the snapshot each file is of
  crossed,     \* history: restores whose files another one of a different snapshot
               \* wrote over after they had found the approved manifest
  proved       \* history: snapshots restored whole and found usable

jobVars     == <<uploaded, job, markers>>
pointVars   == <<points, told>>
keepVars    == <<approved, forgetting>>
restoreVars == <<restores, target, crossed>>
vars == <<repository, jobVars, pointVars, attested, keepVars, restoreVars, proved>>

TypeOK ==
  /\ repository \subseteq 1..uploaded /\ uploaded \in 0..MaxSnapshots
  /\ job \in [at : {"idle", "staged", "uploaded", "checked", "restored", "recorded", "marked"},
              verified : BOOLEAN]
  /\ points \in [Snapshots -> Point \cup {None}]
  /\ markers \in [upload : 0..MaxSnapshots, recovery : 0..MaxSnapshots]
  /\ attested \in [Attests -> Snapshots \cup {None}]
  /\ told \subseteq Snapshots \X Attests
  /\ approved \subseteq Snapshots /\ forgetting \subseteq approved
  /\ restores \in [Restores -> [at : {"idle", "planned"} \cup Working,
                                snapshot : 0..MaxSnapshots, plan : 0..MaxSnapshots,
                                left : SUBSET Files, manifest : 0..MaxSnapshots]]
  /\ target \in [Files -> 0..MaxSnapshots]      \* 0: there is no such file
  /\ crossed \subseteq Restores
  /\ proved \subseteq 1..uploaded

Idle    == [at |-> "idle", verified |-> FALSE]
NoPlan  == [at |-> "idle", snapshot |-> 0, plan |-> 0, left |-> {}, manifest |-> 0]
Nothing == [f \in Files |-> 0]

Init ==
  /\ repository = {} /\ uploaded = 0 /\ job = Idle
  /\ points = [s \in Snapshots |-> None]
  /\ markers = [upload |-> 0, recovery |-> 0]
  /\ attested = [a \in Attests |-> None] /\ told = {}
  /\ approved = {} /\ forgetting = {}
  /\ restores = [r \in Restores |-> NoPlan]
  /\ target = Nothing /\ crossed = {} /\ proved = {}

-----------------------------------------------------------------------------
\* The backup job: guardian-backup controller under the script's lock

GoesTo(step) == job' = [job EXCEPT !.at = step]

\* Sources and a dump of the database are staged, the manifest is written.
Stage ==
  /\ job.at = "idle" /\ uploaded < MaxSnapshots
  /\ GoesTo("staged")
  /\ UNCHANGED <<repository, uploaded, markers, pointVars, attested, keepVars, restoreVars,
                 proved>>

\* From here on the snapshot counts in the repository, whatever becomes of it.
Upload ==
  /\ job.at = "staged"
  /\ uploaded' = uploaded + 1
  /\ repository' = repository \cup {uploaded'}
  /\ GoesTo("uploaded")
  /\ UNCHANGED <<markers, pointVars, attested, keepVars, restoreVars, proved>>

Check ==
  /\ job.at = "uploaded"
  /\ GoesTo("checked")
  /\ UNCHANGED <<repository, uploaded, markers, pointVars, attested, keepVars, restoreVars,
                 proved>>

\* Variant: a restore that equals its manifest will do.
VerifiedAlways(accepts) == TRUE

\* verify_snapshot: a restore of its own, compared with the manifest, and
\* the validator, which only SQLite has: without one nothing is verified.
Verified(accepts) == accepts

TryRestore(accepts) ==
  /\ job.at = "checked" /\ uploaded \in repository
  /\ job' = [at |-> "restored", verified |-> Verified(accepts)]
  /\ proved' = IF accepts THEN proved \cup {uploaded} ELSE proved
  /\ UNCHANGED <<repository, uploaded, markers, pointVars, attested, keepVars, restoreVars>>

\* record_recovery_point: the row of a snapshot no row exists for
NewPoint ==
  IF job.verified
  THEN [version |-> 1, digest |-> [snapshot |-> uploaded, by |-> Job]]
  ELSE [version |-> 0, digest |-> None]

\* The row is committed, or there is no such host or the database fails;
\* the job goes on in each case, a failure only changes its exit status.
Record ==
  /\ job.at = "restored"
  /\ \/ points' = [points EXCEPT ![uploaded] = NewPoint]
     \/ UNCHANGED points
  /\ GoesTo("recorded")
  /\ UNCHANGED <<repository, uploaded, markers, told, attested, keepVars, restoreVars, proved>>

MarkUpload ==
  /\ job.at = "recorded"
  /\ markers' = [markers EXCEPT !.upload = uploaded]
  /\ GoesTo("marked")
  /\ UNCHANGED <<repository, uploaded, pointVars, attested, keepVars, restoreVars, proved>>

MarkRecovery ==
  /\ job.at = "marked"
  /\ markers' = IF job.verified THEN [markers EXCEPT !.recovery = uploaded] ELSE markers
  /\ job' = Idle
  /\ UNCHANGED <<repository, uploaded, pointVars, attested, keepVars, restoreVars, proved>>

\* A BackupError, a timeout of a command, or the end of the process: what
\* has been done stays, and no run takes it up again.
Break ==
  /\ job.at # "idle"
  /\ job' = Idle
  /\ UNCHANGED <<repository, uploaded, markers, pointVars, attested, keepVars, restoreVars,
                 proved>>

-----------------------------------------------------------------------------
\* Verification by attestation: verify_recovery_point, promote_recovery_point

\* Somebody states that a snapshot was restored in isolation; whether it was
\* is not for the controller to see, an honest one has a proof.
Attest(a, s) ==
  /\ attested[a] = None /\ s \in proved
  /\ attested' = [attested EXCEPT ![a] = s]
  /\ UNCHANGED <<repository, jobVars, pointVars, keepVars, restoreVars, proved>>

Attestation(a) == [snapshot |-> attested[a], by |-> a]

\* The conditional UPDATE.  The id in the path and the snapshot in the body
\* need not agree, and the version is what the owner has seen some time ago.
Claims(s, a, version) ==
  /\ points[s].digest = None
  /\ points[s].version = version
  /\ attested[a] = s

\* Variant: any verified row will do.
RepeatsAny(s, a) == points[s].digest # None

\* The update matches nothing, yet this very attestation is on the row.
Repeats(s, a) == points[s].digest = Attestation(a)

Verify(a, s, version) ==
  /\ attested[a] # None /\ points[s] # None
  /\ \/ /\ Claims(s, a, version)
        /\ points' = [points EXCEPT ![s] = [version |-> version + 1,
                                            digest |-> Attestation(a)]]
        /\ told' = told \cup {<<s, a>>}
     \/ /\ ~Claims(s, a, version) /\ Repeats(s, a)
        /\ told' = told \cup {<<s, a>>}
        /\ UNCHANGED points
  /\ UNCHANGED <<repository, jobVars, attested, keepVars, restoreVars, proved>>

\* The update is done, and the answer or the connection is lost: the owner
\* sends the same attestation again.
VerifyUnheard(a, s, version) ==
  /\ attested[a] # None /\ points[s] # None /\ Claims(s, a, version)
  /\ points' = [points EXCEPT ![s] = [version |-> version + 1, digest |-> Attestation(a)]]
  /\ UNCHANGED <<repository, jobVars, told, attested, keepVars, restoreVars, proved>>

-----------------------------------------------------------------------------
\* Retention: retention_plan, apply_retention

\* restic forget --dry-run: of snapshots S those with Keep newer ones go.
Removals(S) == {s \in S : Cardinality({t \in S : t > s}) >= Keep}

\* An operator has the plan printed, and approved.
PlanRetention ==
  /\ forgetting = {} /\ approved # repository
  /\ approved' = repository
  /\ UNCHANGED <<repository, jobVars, pointVars, attested, forgetting, restoreVars, proved>>

\* Variant: what is forgotten is the plan of today.
SamePlanAlways == approved # {}

\* The plan is made again; its digest is over all snapshots kept and removed.
SamePlan == repository = approved

ApplyRetention ==
  /\ forgetting = {} /\ SamePlan /\ Removals(repository) # {}
  /\ forgetting' = Removals(repository)
  /\ UNCHANGED <<repository, jobVars, pointVars, attested, approved, restoreVars, proved>>

\* restic forget with the identifiers, one after another
Forget(s) ==
  /\ s \in forgetting
  /\ repository' = repository \ {s}
  /\ forgetting' = forgetting \ {s}
  /\ UNCHANGED <<jobVars, pointVars, attested, approved, restoreVars, proved>>

StopForgetting ==
  /\ forgetting # {}
  /\ forgetting' = {}
  /\ UNCHANGED <<repository, jobVars, pointVars, attested, approved, restoreVars, proved>>

-----------------------------------------------------------------------------
\* Restores: RecoveryPlanner.plan, RecoveryPlanner.restore

PlanRestore(r, s) ==
  /\ restores[r].at \notin Working /\ s \in repository
  /\ restores' = [restores EXCEPT ![r] = [NoPlan EXCEPT !.at = "planned", !.plan = s]]
  /\ UNCHANGED <<repository, jobVars, pointVars, attested, keepVars, target, crossed, proved>>

\* The snapshot given at execution is planned again, and has to give the
\* digest which was approved.
Approved(r, s) == s = restores[r].plan

Execute(r, s) ==
  /\ restores[r].at = "planned" /\ s \in repository
  /\ Approved(r, s)
  /\ target = Nothing
  /\ restores' = [restores EXCEPT ![r] = [@ EXCEPT !.at = "writing", !.snapshot = s,
                                                !.left = Files]]
  /\ UNCHANGED <<repository, jobVars, pointVars, attested, keepVars, target, crossed, proved>>

\* Restores that have begun to verify another snapshot than s
Others(r, s) ==
  {x \in Restores \ {r} : restores[x].at \in Verifying /\ restores[x].snapshot # s}

\* restic restore; forgetting a snapshot does not stop it, data go with prune.
Write(r, f) ==
  /\ f \in restores[r].left
  /\ target' = [target EXCEPT ![f] = restores[r].snapshot]
  /\ restores' = [restores EXCEPT ![r].left = @ \ {f}]
  /\ crossed' = crossed \cup Others(r, restores[r].snapshot)
  /\ UNCHANGED <<repository, jobVars, pointVars, attested, keepVars, proved>>

\* load_and_verify_manifest: the manifest is hashed, opened once more and read,
\* and the other files are compared with what it says.  Nothing keeps another
\* restore, which has found the target empty as well, from writing in between.
HashManifest(r) ==
  /\ restores[r].at = "writing" /\ restores[r].left = {}
  /\ target["manifest"] = restores[r].snapshot
  /\ restores' = [restores EXCEPT ![r].at = "hashed"]
  /\ UNCHANGED <<repository, jobVars, pointVars, attested, keepVars, target, crossed, proved>>

ReadManifest(r) ==
  /\ restores[r].at = "hashed"
  /\ restores' = [restores EXCEPT ![r].at = "read", ![r].manifest = target["manifest"]]
  /\ UNCHANGED <<repository, jobVars, pointVars, attested, keepVars, target, crossed, proved>>

\* Variant: the artifacts are not looked at.
MatchesAny(manifest) == TRUE
Matches(manifest) == target["artifact"] = manifest

Ends(r) ==
  /\ restores' = [restores EXCEPT ![r] = NoPlan]
  /\ crossed' = crossed \ {r}

Finish(r) ==
  /\ restores[r].at = "read" /\ Matches(restores[r].manifest)
  /\ Ends(r)
  /\ proved' = IF \A f \in Files : target[f] = restores[r].plan
                 THEN proved \cup {restores[r].plan} ELSE proved
  /\ UNCHANGED <<repository, jobVars, pointVars, attested, keepVars, target>>

\* The command or a check fails, or it is ended; what it has written stays.
Cut(r) ==
  /\ restores[r].at \in Working
  /\ Ends(r)
  /\ UNCHANGED <<repository, jobVars, pointVars, attested, keepVars, target, proved>>

\* An operator takes the directory away.
Clear ==
  /\ target # Nothing /\ \A r \in Restores : restores[r].at \notin Working
  /\ target' = Nothing
  /\ UNCHANGED <<repository, jobVars, pointVars, attested, keepVars, restores, crossed,
                 proved>>

-----------------------------------------------------------------------------
Backup == Stage \/ Upload \/ Check \/ (\E b \in BOOLEAN : TryRestore(b)) \/ Record
            \/ MarkUpload \/ MarkRecovery \/ Break

Verification ==
  \E a \in Attests, s \in Snapshots :
    \/ Attest(a, s)
    \/ \E v \in {0, 1} : Verify(a, s, v) \/ VerifyUnheard(a, s, v)

Retention ==
  PlanRetention \/ ApplyRetention \/ (\E s \in Snapshots : Forget(s)) \/ StopForgetting

Restoration ==
  \/ \E r \in Restores, s \in Snapshots : PlanRestore(r, s) \/ Execute(r, s)
  \/ \E r \in Restores, f \in Files : Write(r, f)
  \/ \E r \in Restores : HashManifest(r) \/ ReadManifest(r) \/ Finish(r) \/ Cut(r)
  \/ Clear

Next == Backup \/ Verification \/ Retention \/ Restoration

Spec == Init /\ [][Next]_vars

-----------------------------------------------------------------------------
\* Of the attestations of one recovery point only one is ever answered with
\* success, repeated requests included, and the row carries that one for
\* good: promote_recovery_point claims the row in one UPDATE, and takes only
\* the digest it stored for a repetition.
AttestedOnce ==
  \A t \in told : /\ points[t[1]] # None
                  /\ points[t[1]].digest = [snapshot |-> t[1], by |-> t[2]]

\* A recovery point, or the marker of a verified recovery, stands for a
\* snapshot that was restored and found usable, by the job or in isolation;
\* the verified marker never runs ahead of the upload marker: a backup
\* without a validator stays pending, and markers follow in that order.
VerifiedRestored ==
  /\ \A s \in Snapshots :
       points[s] # None /\ points[s].digest # None
         => s \in proved /\ points[s].digest.snapshot = s
  /\ markers.recovery \in proved \cup {0}
  /\ markers.recovery <= markers.upload

\* Snapshots leave the repository only as the plan said that was approved
\* last, uploads in between notwithstanding, and the newest snapshot there
\* ever was stays: apply_retention plans again and compares the digests.
ForgottenAsApproved ==
  /\ [][repository \ repository' \subseteq Removals(approved)]_repository
  /\ [](uploaded > 0 => uploaded \in repository)

\* A restore ends well only with exactly the files of the approved snapshot in
\* the target, whoever else restored into it before, unless a restore of another
\* snapshot writes while it verifies: RecoveryPlanner.restore compares the digest
\* before, and load_and_verify_manifest the files after, one by one.
RestoredAsApproved ==
  [][\A r \in Restores : Finish(r)
       => r \in crossed \/ \A f \in Files : target[f] = restores[r].plan]_restores

=============================================================================
