--------------------------- MODULE ControllerHost ---------------------------
(***************************************************************************)
(* Installing, upgrading and rolling back the controller on its host, and  *)
(* the recovery of a transaction that did not end:                         *)
(*                                                                         *)
(*   scripts/install-controller.sh      scripts/upgrade-controller.sh      *)
(*   scripts/rollback-controller.sh     scripts/lifecycle-journal.py       *)
(*   scripts/recover-controller-lifecycle.sh                               *)
(*                                                                         *)
(* A script is the sequence of the steps it still has to take.  Each step  *)
(* may fail, be killed or be cut off by a reboot; what is on disk stays,   *)
(* the journal included.  A release is a number in the order of building,  *)
(* heads[r] the revision of the database it needs, 0 no release.           *)
(***************************************************************************)
EXTENDS LifecycleJournal, Sequences

CONSTANTS
  MaxReleases,   \* bound on the releases that are built
  MaxSchema,     \* bound on the revisions of the database
  MaxBreakdowns  \* bound on failures, kills and reboots

ASSUME HostAssumption ==
  MaxReleases \in Nat /\ MaxSchema \in Nat \ {0} /\ MaxBreakdowns \in Nat

\* The unit files are replaced one by one: the service, and those of backups.
UnitFiles == {"controller", "backup"}

VARIABLES
  heads,      \* the releases built
  link,       \* /opt/vps-guardian/current
  units,      \* the release whose unit files are installed
  db,         \* the revision of the database
  running,    \* the release the controller process runs, 0 when it is down
  active,     \* the timers of the backups run
  startup,    \* what systemd starts after a reboot
  committed,  \* the releases with a COMMITTED marker
  journal,
  script,     \* the script that holds the lock
  rebooted,   \* history: the controller runs since a reboot within a transaction
  breakdowns

diskVars == <<link, units, committed>>
runVars  == <<running, active, startup, rebooted>>
controllerVars == <<heads, diskVars, db, runVars, journal, script, breakdowns>>

Releases   == 1..Len(heads)
NoScript   == [todo |-> <<>>, recovery |-> FALSE]
Unfinished == journal # NoJournal /\ journal.phase \notin Terminal

-----------------------------------------------------------------------------
(* The scripts *)

Activation ==
  <<"controller", "backup", "units_updated", "link", "candidate_activated",
    "start", "ready", "verified">>

InstallPlan ==
  <<"prepared", "migrate", "database_updated">> \o Activation
    \o <<"timers", "mark", "committed", "clear">>

\* Variant: the database is migrated under the old controller.
UpgradePlanLive ==
  <<"hold", "prepared", "check", "migrate", "stop", "quiesced", "database_updated">>
    \o Activation \o <<"timers", "mark", "committed", "clear">>

UpgradePlan ==
  <<"hold", "prepared", "check", "stop", "quiesced", "migrate", "database_updated">>
    \o Activation \o <<"timers", "mark", "committed", "clear">>

RollbackPlan ==
  <<"hold", "prepared", "stop", "quiesced", "compatible">>
    \o Activation \o <<"timers", "committed", "clear">>

\* Back to nothing.
AbortPlan ==
  <<"unrelated", "unchanged", "disable", "link", "controller", "backup", "unmark",
    "aborted", "clear">>

\* Variant: the unit files of the candidate stay.
RestorePlanUnitsKept ==
  <<"unrelated", "link", "compatible", "start", "ready", "timers",
    "previous_restored", "clear">>

\* Back to the previous release.
RestorePlan ==
  <<"unrelated", "controller", "backup", "link", "compatible", "start", "ready",
    "timers", "previous_restored", "clear">>

\* Variant: a recovery that was cut off starts from the beginning.
EntryAgain(phase) ==
  IF phase = "recovery_required" THEN <<"quiet", "recovery_started">>
  ELSE <<"recovery_required", "quiet", "recovery_started">>

\* How a recovery begins, by the phase it finds.
Entry(phase) ==
  CASE phase = "recovery_started"  -> <<"quiet">>
    [] phase = "recovery_required" -> <<"quiet", "recovery_started">>
    [] OTHER -> <<"recovery_required", "quiet", "recovery_started">>

RecoveryPlan ==
  IF journal.phase \in Terminal THEN <<"clear">>
  ELSE Entry(journal.phase)
         \o (IF journal.op = "install" THEN AbortPlan ELSE RestorePlan)

Recovery == [todo |-> RecoveryPlan, recovery |-> TRUE]

\* The release the script leads to.
Target == IF script.recovery THEN journal.previous ELSE journal.candidate

-----------------------------------------------------------------------------

ControllerInit ==
  /\ heads = <<>> /\ link = 0 /\ db = 0
  /\ units = [f \in UnitFiles |-> 0]
  /\ running = 0 /\ active = FALSE /\ startup = {} /\ committed = {}
  /\ journal = NoJournal /\ script = NoScript
  /\ rebooted = FALSE /\ breakdowns = 0

\* The checks before the journal, which is the first thing that lasts: no script
\* runs and nothing is left of an earlier one.
Begin(op, previous, candidate, plan) ==
  /\ script = NoScript /\ CanInitialize(journal)
  /\ journal' = Created(op, previous, candidate, units, active)
  /\ Valid(journal')
  /\ script' = [todo |-> plan, recovery |-> FALSE]
  /\ UNCHANGED <<diskVars, db, runVars, breakdowns>>

Built(revision) ==
  /\ Len(heads) < MaxReleases
  /\ heads' = Append(heads, revision)

StartInstall(revision) ==
  /\ link = 0 /\ \A f \in UnitFiles : units[f] = 0
  /\ Built(revision)
  /\ Begin("install", 0, Len(heads) + 1, InstallPlan)

StartUpgrade(revision) ==
  /\ link # 0
  /\ Built(revision)
  /\ Begin("upgrade", link, Len(heads) + 1, UpgradePlan)

StartRollback(release) ==
  /\ release \in committed \ {link} /\ running # 0
  /\ Begin("rollback", link, release, RollbackPlan)
  /\ UNCHANGED heads

\* A script that finds the journal of its own operation only recovers.
Resume ==
  /\ script = NoScript /\ journal # NoJournal
  /\ script' = Recovery
  /\ UNCHANGED <<heads, diskVars, db, runVars, journal, breakdowns>>

StopRuntime ==
  /\ running' = 0 /\ active' = FALSE /\ rebooted' = FALSE
  /\ UNCHANGED startup

\* The script of another operation finds the journal, finished or not.
Stray ==
  /\ script = NoScript /\ journal # NoJournal
  /\ StopRuntime
  /\ UNCHANGED <<heads, diskVars, db, journal, script, breakdowns>>

-----------------------------------------------------------------------------
(* The steps *)

At(step) == script.todo # <<>> /\ Head(script.todo) = step

\* What a step tests before it changes anything, or is there to test.
Passes(step) ==
  CASE step \in Phases -> CanUpdate(journal, step)
    [] step = "clear" -> CanClear(journal)
    [] step = "check" -> running # 0 /\ db = heads[running]
    [] step = "migrate" -> db <= heads[Target]
    [] step = "compatible" -> db = heads[Target]
    [] step = "ready" -> running = Target /\ db = heads[Target]
    [] step = "unrelated" -> link \in {journal.previous, journal.candidate}
    [] step = "unchanged" -> \A f \in UnitFiles : units[f] \in {0, journal.candidate}
    [] OTHER -> TRUE

Takes(step) ==
  /\ At(step) /\ Passes(step)
  /\ script' = [script EXCEPT !.todo = Tail(@)]
  /\ UNCHANGED <<heads, breakdowns>>

Test ==
  /\ \E step \in {"check", "compatible", "ready", "unrelated", "unchanged"} : Takes(step)
  /\ UNCHANGED <<diskVars, db, runVars, journal>>

Record(phase) ==
  /\ Takes(phase)
  /\ journal' = Updated(journal, phase)
  /\ UNCHANGED <<diskVars, db, runVars>>

\* The timers stop before the transaction, if they run.
Hold ==
  /\ Takes("hold")
  /\ active' = (active /\ ~journal.timer)
  /\ UNCHANGED <<diskVars, db, running, startup, rebooted, journal>>

Stop ==
  /\ Takes("stop")
  /\ running' = 0 /\ rebooted' = FALSE
  /\ UNCHANGED <<diskVars, db, active, startup, journal>>

Migrate ==
  /\ Takes("migrate")
  /\ db' = heads[Target]
  /\ UNCHANGED <<diskVars, runVars, journal>>

Deploy(file) ==
  /\ Takes(file)
  /\ units' = [units EXCEPT ![file] = IF script.recovery THEN journal.units[file]
                                      ELSE journal.candidate]
  /\ UNCHANGED <<link, committed, db, runVars, journal>>

\* An installation that is undone has no previous release: the link goes.
SwitchCurrent ==
  /\ Takes("link")
  /\ link' = Target
  /\ UNCHANGED <<units, committed, db, runVars, journal>>

Start ==
  /\ Takes("start")
  /\ running' = link /\ rebooted' = FALSE
  /\ startup' = IF journal.op = "install" THEN startup \union {"controller"} ELSE startup
  /\ UNCHANGED <<diskVars, db, active, journal>>

\* Variant: the state of the timers is not looked at.
TimersWantedAlways == TRUE

\* An installation starts the timers, the others put them back.
TimersWanted == journal.op = "install" \/ journal.timer

Timers ==
  /\ Takes("timers")
  /\ active'  = (TimersWanted \/ (active /\ ~script.recovery))
  /\ startup' = IF TimersWanted THEN startup \union {"backup"} ELSE startup
  /\ UNCHANGED <<diskVars, db, running, rebooted, journal>>

WriteMarker ==
  /\ Takes("mark")
  /\ committed' = committed \union {journal.candidate}
  /\ UNCHANGED <<link, units, db, runVars, journal>>

RemoveMarker ==
  /\ Takes("unmark")
  /\ committed' = committed \ {journal.candidate}
  /\ UNCHANGED <<link, units, db, runVars, journal>>

Quiet ==
  /\ Takes("quiet") /\ StopRuntime
  /\ UNCHANGED <<diskVars, db, journal>>

Disable ==
  /\ Takes("disable")
  /\ startup' = {}
  /\ UNCHANGED <<diskVars, db, running, active, rebooted, journal>>

Clear ==
  /\ At("clear") /\ CanClear(journal)
  /\ journal' = NoJournal /\ script' = NoScript
  /\ UNCHANGED <<heads, diskVars, db, runVars, breakdowns>>

Step ==
  \/ Test \/ Hold \/ Stop \/ Migrate \/ SwitchCurrent \/ Start \/ Timers
  \/ WriteMarker \/ RemoveMarker \/ Quiet \/ Disable \/ Clear
  \/ \E phase \in Phases : Record(phase)
  \/ \E file \in UnitFiles : Deploy(file)

-----------------------------------------------------------------------------
(* Failures *)

\* A script that fails recovers in its EXIT trap; a recovery that fails stops
\* the runtime and keeps the journal, unless only the journal is left to clear.
GiveUp ==
  /\ IF script.recovery THEN script' = NoScript ELSE script' = Recovery
  /\ IF script.recovery /\ ~At("clear") THEN StopRuntime ELSE UNCHANGED runVars
  /\ UNCHANGED <<heads, diskVars, db, journal>>

Refuse ==
  /\ script # NoScript /\ ~Passes(Head(script.todo))
  /\ GiveUp
  /\ UNCHANGED breakdowns

Breakdown ==
  /\ breakdowns < MaxBreakdowns
  /\ breakdowns' = breakdowns + 1

StepFails == script # NoScript /\ GiveUp /\ Breakdown

Kill ==
  /\ script # NoScript /\ Breakdown
  /\ script' = NoScript
  /\ UNCHANGED <<heads, diskVars, db, runVars, journal>>

\* systemd starts what is set to start; nothing in the units looks at the journal.
Reboot ==
  /\ Breakdown
  /\ script' = NoScript
  /\ running' = IF "controller" \in startup /\ units["controller"] # 0 THEN link ELSE 0
  /\ active'  = ("backup" \in startup /\ units["backup"] # 0)
  /\ rebooted' = (Unfinished /\ running' # 0)
  /\ UNCHANGED <<heads, diskVars, db, startup, journal>>

-----------------------------------------------------------------------------
(* The operator *)

\* "database recovery is required": the backup of the previous release's schema.
RestoreDatabase ==
  /\ script = NoScript /\ Unfinished /\ running = 0
  /\ journal.op # "install" /\ db # heads[journal.previous]
  /\ db' = heads[journal.previous]
  /\ UNCHANGED <<heads, diskVars, runVars, journal, script, breakdowns>>

SwitchTimers(on, boot) ==
  /\ script = NoScript /\ journal = NoJournal /\ units["backup"] # 0
  /\ active' = on
  /\ startup' = IF boot THEN startup \union {"backup"} ELSE startup \ {"backup"}
  /\ UNCHANGED <<heads, diskVars, db, running, rebooted, journal, script, breakdowns>>

ControllerNext ==
  \/ \E revision \in 1..MaxSchema : StartInstall(revision) \/ StartUpgrade(revision)
  \/ \E release \in Releases : StartRollback(release)
  \/ Resume \/ Stray
  \/ Step \/ Refuse \/ StepFails \/ Kill \/ Reboot
  \/ RestoreDatabase
  \/ \E on, boot \in BOOLEAN : SwitchTimers(on, boot)

ControllerSpec == ControllerInit /\ [][ControllerNext]_controllerVars

\* A script goes on; the operator repeats the call until the journal is gone,
\* and restores the database when the recovery asks for it.
ControllerFairSpec ==
  /\ ControllerSpec
  /\ WF_controllerVars(Step \/ Refuse)
  /\ WF_controllerVars(Resume)
  /\ SF_controllerVars(RestoreDatabase)

-----------------------------------------------------------------------------
(* Properties *)

\* Values of every variable, and steps that belong to the transaction.
Release == Releases \union {0}
Steps   == Phases \union UnitFiles
             \union {"hold", "check", "stop", "migrate", "compatible", "link", "start", "ready",
                     "timers", "mark", "clear", "quiet", "unrelated", "unchanged", "disable",
                     "unmark"}
Journal == [op : Operations, phase : Phases, previous : Release, candidate : Releases,
            units : [UnitFiles -> Release], timer : BOOLEAN]

ControllerTypeOK ==
  /\ heads \in Seq(1..MaxSchema) /\ Len(heads) <= MaxReleases
  /\ {link, running} \subseteq Release
  /\ units \in [UnitFiles -> Release]
  /\ db \in 0..MaxSchema /\ committed \subseteq Releases
  /\ startup \subseteq UnitFiles
  /\ {active, rebooted} \subseteq BOOLEAN
  /\ script \in [todo : Seq(Steps), recovery : BOOLEAN]
  /\ (script = NoScript) = (script.todo = <<>>)
  /\ script # NoScript => journal # NoJournal
  /\ journal # NoJournal => journal \in Journal /\ Valid(journal)
  /\ breakdowns \in 0..MaxBreakdowns

\* Outside a transaction, and from its last phase on, the host is one release:
\* its link, all its unit files, its schema and its process, whatever failed,
\* was killed or rebooted on the way.
Whole ==
  ~Unfinished =>
    /\ \A f \in UnitFiles : units[f] = link
    /\ link # 0 => db = heads[link]
    /\ running \in {0, link}

\* A controller runs on the schema of its own release only, except that systemd
\* starts the previous one after a reboot within a transaction.
Schema == running # 0 => db = heads[running] \/ rebooted

\* A transaction ends as its last phase says: the candidate runs and is marked,
\* or the previous release runs again, with its timers as they were found, or
\* nothing of an installation is left.
Outcome ==
  [][Unfinished /\ journal'.phase \in Terminal =>
       CASE journal'.phase = "committed" ->
              /\ {link', running'} = {journal.candidate}
              /\ journal.candidate \in committed'
              /\ active' = (journal.op = "install" \/ journal.timer)
         [] journal'.phase = "previous_restored" ->
              /\ {link', running'} = {journal.previous}
              /\ active' = journal.timer
         [] OTHER ->
              /\ {link', running'} = {0} /\ ~active' /\ startup' = {}
              /\ journal.candidate \notin committed']_controllerVars

\* Every transaction ends, in one way or the other, and leaves no journal.
Recovers == (journal # NoJournal) ~> (journal = NoJournal)
=============================================================================
