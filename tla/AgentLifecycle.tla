---------------------------- MODULE AgentLifecycle ---------------------------
(***************************************************************************)
(* One host from its first enrolment to its decommission: the one-time     *)
(* enrollment tokens and the installer that redeems them, the maintenance  *)
(* sessions and the script that carries them out, and between them the     *)
(* identities of the agent (AgentIdentity).                                *)
(*                                                                         *)
(*   controller/guardian/enrollment.py, maintenance.py, api.py,            *)
(*   agent/bootstrap.go, scripts/install-agent.sh, maintain-agent.sh       *)
(*                                                                         *)
(* A step of a script may fail at any time, and so may a report, before or *)
(* after the controller has handled it.  A token, a credential or a        *)
(* session that expires is one that is not used any more, or a report that *)
(* fails: expiry needs no action of its own.                               *)
(***************************************************************************)
EXTENDS AgentIdentity, Sequences, SequencesExt

CONSTANTS
  MaxTokens,    \* bound on enrollment tokens
  MaxSessions,  \* bound on maintenance sessions
  Kinds         \* the kinds of maintenance an operator may ask for, by session

AllKinds == {"repair", "reinstall", "rotate_identity", "decommission"}

ASSUME LifecycleAssumption ==
  /\ {MaxTokens, MaxSessions} \subseteq Nat
  /\ Kinds \in [1 .. MaxSessions -> SUBSET AllKinds]

VARIABLES
  token,       \* EnrollmentToken rows, in the order of their creation
  installer,   \* install-agent.sh
  session,     \* AgentMaintenanceSession rows
  maintainer,  \* maintain-agent.sh
  stranded     \* history: sessions whose script has gone without a word

lifecycleVars == <<identityVars, token, installer, session, maintainer, stranded>>

Tokens   == 1 .. MaxTokens
Sessions == 1 .. MaxSessions

\* ENROLLMENT_STEPS.  The five reports of the installer before its bootstrap
\* make one step, and so do the last two steps.
Steps     == <<"waiting", "agent_verified", "certificate_issued",
               "service_installed", "service_started", "completed">>
Closed    == {"completed", "failed", "revoked"}
TokenState == ToSet(Steps) \cup {"none", "failed", "revoked"}
StepOf(s) == CHOOSE i \in DOMAIN Steps : Steps[i] = s

NoInstall == [pc |-> "off", token |-> 0, gen |-> 0, changed |-> FALSE,
              was |-> 0, ran |-> FALSE]

\* STATUS_SEQUENCE
Progress == <<"waiting", "started", "artifact_verified", "service_stopped",
              "identity_rotated", "service_started", "heartbeat_verified",
              "confirmation_pending">>
Terminal == {"completed", "failed", "rolled_back", "expired", "revoked"}
Sequence(st) == IF st \in Terminal THEN 9
                ELSE CHOOSE i \in DOMAIN Progress : Progress[i] = st

\* Variant: no failure is foreseen for a repair or a reinstallation.
AllowedOnSuccess(kind) ==
  ToSet(Progress) \cup {"completed"}
    \cup (IF kind = "decommission" THEN {"failed"} ELSE {})
ALLOWED_BY_KIND(kind) ==
  CASE kind = "repair" ->
         {"started", "artifact_verified", "service_stopped", "service_started",
          "heartbeat_verified", "completed", "failed", "rolled_back"}
    [] kind = "reinstall" ->
         ToSet(Progress) \cup {"completed", "failed", "rolled_back"}
    [] kind = "rotate_identity" ->
         (ToSet(Progress) \ {"service_stopped"})
           \cup {"completed", "failed", "rolled_back"}
    [] kind = "decommission" ->
         {"started", "artifact_verified", "service_stopped",
          "confirmation_pending", "completed", "failed"}

\* What maintain-agent.sh does and reports, in order.
Script(kind) ==
  CASE kind = "repair" ->
         <<"artifact_verified", "service_stopped", "service_started",
           "heartbeat_verified", "completed">>
    [] kind \in {"reinstall", "rotate_identity"} ->
         <<"artifact_verified", "service_stopped", "identity_rotated",
           "service_started", "heartbeat_verified", "confirmation_pending">>
    [] kind = "decommission" ->
         <<"artifact_verified", "service_stopped", "confirmation_pending">>

NoSession == [kind |-> "none", status |-> "none", version |-> 0, old |-> 0,
              beat |-> FALSE]
NoScript  == [pc |-> "off", session |-> 0, at |-> 0, was |-> 0, ran |-> FALSE,
              changed |-> FALSE, activated |-> FALSE]

LifecycleTypeOK ==
  /\ IdentityTypeOK /\ FateTypeOK
  /\ token \in [Tokens -> [status : TokenState, used : BOOLEAN]]
  /\ installer \in [pc : {"off", "verify", "bootstrap", "install", "start", "fail"},
                    token : 0 .. MaxTokens, gen : 0 .. MaxVersion,
                    changed : BOOLEAN, was : 0 .. MaxVersion, ran : BOOLEAN]
  /\ session \in [Sessions ->
       [kind : AllKinds \cup {"none"},
        status : ToSet(Progress) \cup Terminal \cup {"none"},
        version : 0 .. MaxVersion, old : 0 .. MaxVersion,
        beat : BOOLEAN]]
  /\ maintainer \in [pc : {"off", "do", "report", "fail"}, session : 0 .. MaxSessions,
                     at : 0 .. 6, was : 0 .. MaxVersion, ran : BOOLEAN,
                     changed : BOOLEAN, activated : BOOLEAN]
  /\ stranded \subseteq Sessions

LifecycleInit ==
  /\ IdentityInit
  /\ token = [i \in Tokens |-> [status |-> "none", used |-> FALSE]]
  /\ installer = NoInstall
  /\ session = [i \in Sessions |-> NoSession]
  /\ maintainer = NoScript
  /\ stranded = {}

enrollVars == <<token, installer>>
maintVars  == <<session, maintainer, stranded>>
InstallerOff  == installer.pc = "off"
MaintainerOff == maintainer.pc = "off"

-----------------------------------------------------------------------------
(* Enrollment tokens.                                                      *)

SetToken(i, st) == token' = [token EXCEPT ![i].status = st]

\* authenticate_enrollment_token
Redeemable(i) ==
  enabled /\ ~token[i].used /\ token[i].status \notin {"revoked", "failed"}

\* authenticate_progress_token
Continues(i) ==
  enabled /\ token[i].used /\ token[i].status \notin Closed

\* advance_enrollment
Advances(i, st) == StepOf(st) >= StepOf(token[i].status)

\* Tokens that are still unused are revoked.
IssueToken ==
  /\ ~Enrolled
  /\ \E i \in Tokens :
       /\ token[i].status = "none"
       /\ \A j \in 1 .. i - 1 : token[j].status # "none"
       /\ token' = [j \in Tokens |->
            IF j = i THEN [token[i] EXCEPT !.status = "waiting"]
            ELSE IF token[j].status # "none" /\ ~token[j].used
                 THEN [token[j] EXCEPT !.status = "revoked"]
            ELSE token[j]]
  /\ UNCHANGED <<identityVars, installer, maintVars>>

RevokeToken ==
  /\ \E i \in Tokens :
       /\ token[i].status \notin {"none", "revoked"}
       /\ ~token[i].used
       /\ SetToken(i, "revoked")
  /\ UNCHANGED <<identityVars, installer, maintVars>>

-----------------------------------------------------------------------------
(* install-agent.sh.                                                       *)

StartInstaller ==
  /\ InstallerOff /\ MaintainerOff
  /\ \E i \in Tokens :
       /\ token[i].status = "waiting"
       /\ installer' = [NoInstall EXCEPT !.pc = "verify", !.token = i]
  /\ UNCHANGED <<identityVars, token, maintVars>>

\* A failure of the script itself, or of the network before the controller.
InstallerFails ==
  /\ installer.pc \in {"verify", "bootstrap", "install", "start"}
  /\ installer' = [installer EXCEPT !.pc = "fail"]
  /\ UNCHANGED <<identityVars, token, maintVars>>

ReportVerified ==
  /\ installer.pc = "verify"
  /\ IF Redeemable(installer.token)
     THEN /\ SetToken(installer.token, "agent_verified")
          /\ installer' = [installer EXCEPT !.pc = "bootstrap"]
     ELSE installer' = [installer EXCEPT !.pc = "fail"] /\ UNCHANGED token
  /\ UNCHANGED <<identityVars, maintVars>>

\* bootstrap_agent: redeem the token, add the identity; the unique index on
\* active identities refuses a second one and the token stays unused.
CanBootstrap ==
  /\ Redeemable(installer.token) /\ ~Enrolled /\ Active = {}
  /\ agent.version < MaxVersion

Bootstrap ==
  /\ installer.pc = "bootstrap"
  /\ CanBootstrap
  /\ agent' = [version |-> Next1, revoked |-> FALSE]
  /\ identity' = [identity EXCEPT ![Next1] = "active"]
  /\ token' = [token EXCEPT ![installer.token] =
                 [@ EXCEPT !.status = "certificate_issued", !.used = TRUE]]
  /\ enrolled' = enrolled \cup {Next1}
  /\ \/ /\ installer' = [installer EXCEPT !.pc = "install", !.gen = Next1]
        /\ UNCHANGED missed
     \/ /\ installer' = [installer EXCEPT !.pc = "fail"]
        /\ Misses({Next1})
  /\ UNCHANGED <<pending, crl, enabled, hostVars, maintVars>>

RefuseBootstrap ==
  /\ installer.pc = "bootstrap"
  /\ ~CanBootstrap
  /\ installer' = [installer EXCEPT !.pc = "fail"]
  /\ UNCHANGED <<identityVars, token, maintVars>>

\* The files go to the directory generation-1 and a new link to it takes the
\* place of the old one; but where that leads to another directory, mv puts the
\* new link into it and the old one stays.
Linked == IF local \in enrolled \cup {0} THEN installer.gen ELSE local

\* Stop the old service, install files and link, report service_installed.
Install ==
  /\ installer.pc = "install"
  /\ Stopped
  /\ local' = Linked
  /\ Misses({Arrived, IF Linked = local THEN installer.gen ELSE local})
  /\ LET i == installer.token
         accepted == Continues(i) /\ Advances(i, "service_installed")
     IN /\ IF accepted THEN SetToken(i, "service_installed") ELSE UNCHANGED token
        /\ installer' = [installer EXCEPT !.pc = IF accepted THEN "start" ELSE "fail",
                           !.changed = TRUE, !.was = local, !.ran = running]
  /\ UNCHANGED <<controllerVars, enrolled, maintVars>>

StartService ==
  /\ installer.pc = "start" /\ ~running
  /\ running' = TRUE
  /\ UNCHANGED <<controllerVars, local, daemon, fateVars, enrollVars, maintVars>>

\* The report of service_started ends the script.
ReportStarted ==
  /\ installer.pc = "start" /\ running
  /\ LET i == installer.token IN
       IF Continues(i) /\ Advances(i, "service_started")
       THEN SetToken(i, "service_started") /\ installer' = NoInstall
       ELSE installer' = [installer EXCEPT !.pc = "fail"] /\ UNCHANGED token
  /\ UNCHANGED <<identityVars, maintVars>>

\* rollback: what was there before is restored, and the failure reported with
\* the credential at hand; the report may not get through.
RollBackInstall ==
  /\ installer.pc = "fail"
  /\ LET i == installer.token
         credential == IF installer.gen = 0 THEN Redeemable(i) ELSE Continues(i)
     IN (credential /\ SetToken(i, "failed")) \/ UNCHANGED token
  /\ IF installer.changed
     THEN /\ local' = installer.was
          /\ running' = installer.ran
          /\ daemon' = Idle
          /\ Misses({Leads})
     ELSE UNCHANGED hostVars /\ Misses({installer.gen})
  /\ installer' = NoInstall
  /\ UNCHANGED <<controllerVars, enrolled, maintVars>>

InstallerStep ==
  \/ InstallerFails \/ ReportVerified \/ Bootstrap \/ RefuseBootstrap
  \/ Install \/ StartService \/ ReportStarted \/ RollBackInstall

-----------------------------------------------------------------------------
(* The accepted heartbeat.                                                 *)

\* complete_host_enrollment: the latest redeemed token not completed.
Completed ==
  LET open == {i \in Tokens : token[i].used /\ token[i].status # "completed"}
  IN IF open = {} \/ token[Max(open)].status = "failed" THEN token
     ELSE [token EXCEPT ![Max(open)].status = "completed"]

Heartbeat ==
  /\ CanBeat
  /\ token' = Completed
  /\ session' = [i \in Sessions |->
                   [session[i] EXCEPT !.beat = @ \/ session[i].status \in
                      ToSet(Tail(Progress))]]
  /\ UNCHANGED hostVars \/ StartRenewal
  /\ UNCHANGED <<controllerVars, fateVars, installer, maintainer, stranded>>

-----------------------------------------------------------------------------
(* Maintenance sessions.                                                   *)

InProgress == ToSet(Tail(Progress))

\* The newest open session of the host must not have been started.
IssueSession ==
  /\ Enrolled /\ enabled
  /\ LET open == {i \in Sessions : session[i].status \in ToSet(Progress)}
     IN open # {} => session[Max(open)].status = "waiting"
  /\ \E i \in Sessions : \E kind \in Kinds[i], old \in Active :
       /\ session[i].status = "none"
       /\ \A j \in 1 .. i - 1 : session[j].status # "none"
       /\ session' = [j \in Sessions |->
            IF j = i THEN [NoSession EXCEPT !.kind = kind, !.status = "waiting",
                             !.version = agent.version, !.old = old]
            ELSE IF session[j].status = "waiting"
                 THEN [session[j] EXCEPT !.status = "revoked"]
            ELSE session[j]]
  /\ UNCHANGED <<identityVars, enrollVars, maintainer, stranded>>

\* The certificate must be the one that was active when the session was
\* issued.  Without the answer the script has no credential to report with.
StartMaintenance ==
  /\ MaintainerOff /\ InstallerOff
  /\ \E i \in Sessions :
       /\ session[i].status = "waiting"
       /\ local = session[i].old /\ local \notin crl
       /\ session' = [session EXCEPT ![i].status = "started"]
       /\ \/ /\ maintainer' = [NoScript EXCEPT !.pc = "do", !.session = i, !.at = 1]
             /\ UNCHANGED stranded
          \/ /\ stranded' = stranded \cup {i}
             /\ UNCHANGED maintainer
  /\ UNCHANGED <<identityVars, enrollVars>>

\* A report the controller accepts.
Accepts(i, st) ==
  /\ session[i].status \notin Terminal
  /\ st \in ALLOWED_BY_KIND(session[i].kind)
  /\ st \notin {"failed", "rolled_back"} => Sequence(st) > Sequence(session[i].status)
  /\ st = "heartbeat_verified" =>
       /\ session[i].beat
       /\ session[i].kind \in {"reinstall", "rotate_identity"} =>
            agent.version > session[i].version /\ Active \notin {{}, {session[i].old}}
  /\ st = "completed" => session[i].kind = "repair"

Replaced(old) == identity[old] = "revoked"

\* Revocation needs the publication of the old identity, and that only.
Finalize ==
  /\ \E i \in Sessions :
       LET old == session[i].old IN
       /\ session[i].status = "confirmation_pending"
       /\ IF session[i].kind = "decommission"
          THEN /\ old \in crl
               /\ identity' = [identity EXCEPT ![old] = "revoked"]
               /\ agent' = [agent EXCEPT !.revoked = TRUE]
               /\ enabled' = FALSE
          ELSE /\ Replaced(old)
               /\ UNCHANGED <<identity, agent, enabled>>
       /\ session' = [session EXCEPT ![i].status = "completed"]
  /\ UNCHANGED <<pending, crl, hostVars, fateVars, enrollVars, maintainer, stranded>>

-----------------------------------------------------------------------------
(* maintain-agent.sh.                                                      *)

Kind == session[maintainer.session].kind
Due  == Script(Kind)[maintainer.at]
Doing(st) == maintainer.pc = "do" /\ Due = st
Done == maintainer' = [maintainer EXCEPT !.pc = "report"]

StopService ==
  /\ Doing("service_stopped")
  /\ Stopped /\ Misses({Arrived})
  /\ maintainer' = [maintainer EXCEPT !.pc = "report", !.changed = TRUE,
                                      !.was = local, !.ran = running]
  /\ UNCHANGED <<controllerVars, local, enrolled, enrollVars, session, stranded>>

\* guardian-agent rotate-identity: renewal and switch of the link.
RotateIdentity ==
  /\ Doing("identity_rotated")
  /\ CanRenew(local, session[maintainer.session].version) /\ Renewed(local)
  /\ \/ /\ local' = Next1
        /\ maintainer' = [maintainer EXCEPT !.pc = "report", !.activated = TRUE]
        /\ UNCHANGED missed
     \/ /\ maintainer' = [maintainer EXCEPT !.pc = "fail"]
        /\ Misses({Next1})
        /\ UNCHANGED local
  /\ UNCHANGED <<pending, crl, enabled, running, daemon, enrolled, enrollVars, session, stranded>>

RestartService ==
  /\ Doing("service_started")
  /\ running' = TRUE
  /\ Done
  /\ UNCHANGED <<controllerVars, local, daemon, fateVars, enrollVars, session, stranded>>

\* The binary, the unit and the configuration with the identities are removed.
RemoveAgent ==
  /\ Doing("confirmation_pending") /\ Kind = "decommission"
  /\ local' = 0
  /\ Misses({local})
  /\ Done
  /\ UNCHANGED <<controllerVars, running, daemon, enrolled, enrollVars, session, stranded>>

\* Downloads, their verification and waiting for a heartbeat change nothing.
Reporting ==
  \/ maintainer.pc = "report"
  \/ /\ maintainer.pc = "do"
     /\ \/ Due \in {"artifact_verified", "heartbeat_verified", "completed"}
        \/ Due = "confirmation_pending" /\ Kind # "decommission"

\* A report that is refused is covered by ScriptFails.  When only the answer is
\* lost the script fails too: the report would be refused a second time.
Report ==
  /\ Reporting
  /\ Accepts(maintainer.session, Due)
  /\ session' = [session EXCEPT ![maintainer.session].status = Due]
  /\ \/ maintainer' = IF maintainer.at = Len(Script(Kind)) THEN NoScript
                      ELSE [maintainer EXCEPT !.pc = "do", !.at = @ + 1]
     \/ maintainer' = [maintainer EXCEPT !.pc = "fail"]
  /\ UNCHANGED <<identityVars, enrollVars, stranded>>

ScriptFails ==
  /\ maintainer.pc \in {"do", "report"}
  /\ maintainer' = [maintainer EXCEPT !.pc = "fail"]
  /\ UNCHANGED <<identityVars, enrollVars, session, stranded>>

\* Once the new identity is in use it is kept.
\* Variant: whatever was changed is restored.
RestoresAll == maintainer.changed /\ Kind # "decommission"
Restores == maintainer.changed /\ Kind # "decommission" /\ ~maintainer.activated

\* rollback.  A configuration put back under a daemon that has renewed in the
\* meantime is out of date.  The verdict may not get through.
RollBack ==
  /\ maintainer.pc = "fail"
  /\ IF Restores
     THEN /\ local' = maintainer.was /\ running' = (running \/ maintainer.ran)
          /\ IF running /\ local # maintainer.was THEN Misses({local}) ELSE UNCHANGED missed
     ELSE running' = (running \/ maintainer.activated) /\ UNCHANGED <<local, missed>>
  /\ LET i == maintainer.session
         verdict == IF Restores THEN "rolled_back" ELSE "failed"
     IN \/ /\ session' = IF Accepts(i, verdict)
                         THEN [session EXCEPT ![i].status = verdict] ELSE session
           /\ UNCHANGED stranded
        \/ stranded' = stranded \cup {i} /\ UNCHANGED session
  /\ maintainer' = NoScript
  /\ UNCHANGED <<controllerVars, daemon, enrolled, enrollVars>>

MaintainerStep ==
  \/ StopService \/ RotateIdentity \/ RestartService \/ RemoveAgent
  \/ Report \/ ScriptFails \/ RollBack

\* What the installer has got and not yet put in place.
InHand == IF installer.changed THEN 0 ELSE installer.gen

\* The host stops and starts again: the scripts are gone without a roll back.
Reboot ==
  /\ installer' = NoInstall /\ maintainer' = NoScript
  /\ daemon' = Idle
  /\ running' \in {FALSE, local # 0}
  /\ Misses({Arrived, InHand})
  /\ stranded' = IF MaintainerOff THEN stranded ELSE stranded \cup {maintainer.session}
  /\ UNCHANGED <<controllerVars, local, enrolled, token, session>>

LifecycleNext ==
  \/ (OwnerStep \/ InstallPending \/ DaemonStep) /\ UNCHANGED <<enrollVars, maintVars>>
  \/ IssueToken \/ RevokeToken \/ StartInstaller \/ InstallerStep
  \/ Heartbeat \/ IssueSession \/ StartMaintenance \/ Finalize
  \/ MaintainerStep \/ Reboot

LifecycleSpec == LifecycleInit /\ [][LifecycleNext]_lifecycleVars

-----------------------------------------------------------------------------
(* Properties.                                                             *)

\* An agent that is not revoked has exactly one active identity and at most
\* one pending, whatever renewals, activations, sessions and enrolments did.
OneActive ==
  /\ Enrolled => Cardinality(Active) = 1
  /\ Cardinality(Has("pending")) <= 1

\* The host presents the identity that is active, is about to, or has it in the
\* hands of its installer; what it missed is that identity and no other, because
\* this one's answer was lost, the link could not be replaced or an operator gave
\* it up.  And a session in progress, which blocks later maintenance, has its
\* script at work, waits for the operator or is the one whose script has gone
\* without a word.  Lost reports, failing scripts, roll backs and reboots in any
\* order make no other case (the split brain that rollback wants to avoid).
InStep ==
  /\ Active \subseteq missed \cup {Leads, InHand}
  /\ \A i \in Sessions \ stranded :
       session[i].status \in InProgress \ {"confirmation_pending"} =>
         ~MaintainerOff /\ maintainer.session = i

\* maintain-agent.sh reports what the controller accepts of a session of its
\* kind; only a heartbeat may have to be waited for.
ReportsFit ==
  Reporting /\ Due # "heartbeat_verified"
    => Accepts(maintainer.session, Due)
=============================================================================
