---------------------------- MODULE AgentIdentity ----------------------------
(***************************************************************************)
(* The identities of one agent on the controller, and the agent's own      *)
(* link to the generation it presents.                                     *)
(*                                                                         *)
(*   controller/guardian/api.py, agent_security.py, agent/identity.go      *)
(*                                                                         *)
(* A generation stands for its key, its certificate and its serial.  What  *)
(* an owner sends as expected_version is the version he has just read: a   *)
(* request with an older one is refused and changes nothing.               *)
(***************************************************************************)
EXTENDS Integers, FiniteSets

CONSTANT MaxVersion    \* bound on identity_version

ASSUME VersionAssumption == MaxVersion \in Nat \ {0}

VARIABLES
  agent,       \* the Agent row: identity_version (0: no row), revoked_at
  identity,    \* AgentIdentity rows by generation
  pending,     \* the pending identity: successful_heartbeats, not expired
  crl,         \* generations with a recorded publication of their serial
  enabled,     \* Host.enabled
  local,       \* generation the link "current" of the agent leads to, 0: none
  running,     \* the agent's service runs
  daemon,      \* a renewal of the running agent
  enrolled,    \* generations that an installer asked for: their files are in
               \* the directory generation-1, those of the others beside it
  missed       \* history: generations the host was given and has not kept

controllerVars == <<agent, identity, pending, crl, enabled>>
hostVars       == <<local, running, daemon>>
fateVars       == <<enrolled, missed>>
identityVars   == <<controllerVars, hostVars, fateVars>>

Gens     == 1 .. MaxVersion
States   == {"none", "pending", "active", "retiring", "retired", "revoked"}
Idle     == [pc |-> "idle", version |-> 0]
NoPending == [beats |-> 0, live |-> FALSE]
Has(st)  == {g \in Gens : identity[g] = st}
Active   == Has("active")
Enrolled == agent.version > 0 /\ ~agent.revoked

\* A renewal whose answer has arrived, and where the link will lead then.
Arrived == IF daemon.pc = "switch" THEN daemon.version ELSE 0
Leads   == IF daemon.pc = "switch" THEN daemon.version ELSE local

\* The host does not get these generations, or gives them up (0 is none).
Misses(gens) == missed' = missed \cup (gens \ {0})

IdentityTypeOK ==
  /\ agent \in [version : 0 .. MaxVersion, revoked : BOOLEAN]
  /\ identity \in [Gens -> States]
  /\ pending \in [beats : 0 .. 2, live : BOOLEAN]
  /\ crl \subseteq Gens
  /\ {enabled, running} \subseteq BOOLEAN
  /\ local \in 0 .. MaxVersion
  /\ daemon \in [pc : {"idle", "renew", "switch"}, version : 0 .. MaxVersion]

FateTypeOK == {enrolled, missed} \subseteq SUBSET Gens

IdentityInit ==
  /\ agent = [version |-> 0, revoked |-> FALSE]
  /\ identity = [g \in Gens |-> "none"]
  /\ pending = NoPending
  /\ crl = {}
  /\ enabled = TRUE
  /\ local = 0
  /\ running = FALSE
  /\ daemon = Idle
  /\ enrolled = {} /\ missed = {}

-----------------------------------------------------------------------------
(* Rules of the controller.                                                *)

\* lock_active_agent and verify_agent_request let a request through.
Speaks(g) ==
  /\ Enrolled
  /\ g \in Gens \ crl
  /\ \/ identity[g] \in {"active", "retiring"}
     \/ identity[g] = "pending" /\ pending.live

\* claim_agent_identity_version
CanClaim     == Enrolled /\ agent.version < MaxVersion
Next1        == agent.version + 1
ClaimVersion == agent' = [agent EXCEPT !.version = @ + 1]

CanRenew(g, version) ==
  /\ Speaks(g) /\ identity[g] = "active"
  /\ CanClaim /\ agent.version = version

\* One statement retires the presented identity and adds the next.
Renewed(g) ==
  /\ ClaimVersion
  /\ identity' = [identity EXCEPT ![g] = "retiring", ![Next1] = "active"]

-----------------------------------------------------------------------------
(* What an owner does to identities.                                       *)

\* A pending identity that has expired makes way for the new one.
Prepare ==
  /\ CanClaim
  /\ Has("pending") # {} => ~pending.live
  /\ ClaimVersion
  /\ identity' = [g \in Gens |-> IF g = Next1 THEN "pending"
                                 ELSE IF identity[g] = "pending" THEN "retired"
                                 ELSE identity[g]]
  /\ pending' = [beats |-> 0, live |-> TRUE]
  /\ UNCHANGED <<crl, enabled, hostVars, fateVars>>

PendingExpires ==
  /\ Has("pending") # {} /\ pending.live
  /\ pending' = [pending EXCEPT !.live = FALSE]
  /\ UNCHANGED <<agent, identity, crl, enabled, hostVars, fateVars>>

\* Two heartbeats do not tell what the host presents by now, nor that it is
\* about to present another.
Crossed(g) ==
  /\ IF local = g /\ daemon = Idle THEN UNCHANGED missed ELSE Misses({g})
  /\ UNCHANGED enrolled

\* Variant: the identity that was active stays so.
ActivateBeside ==
  /\ CanClaim
  /\ pending.live /\ pending.beats = 2
  /\ \E g \in Has("pending") :
       identity' = [identity EXCEPT ![g] = "active"] /\ Crossed(g)
  /\ ClaimVersion
  /\ pending' = NoPending
  /\ UNCHANGED <<crl, enabled, hostVars>>
Activate ==
  /\ CanClaim
  /\ pending.live /\ pending.beats = 2
  /\ \E g \in Has("pending"), old \in Active :
       /\ identity' = [identity EXCEPT ![old] = "retiring", ![g] = "active"]
       /\ Crossed(g)
  /\ ClaimVersion
  /\ pending' = NoPending
  /\ UNCHANGED <<crl, enabled, hostVars>>

\* activate of an expired identity, or retire.
RetirePending ==
  /\ CanClaim
  /\ \E g \in Has("pending") : identity' = [identity EXCEPT ![g] = "retired"]
  /\ ClaimVersion
  /\ pending' = NoPending
  /\ UNCHANGED <<crl, enabled, hostVars, fateVars>>

\* publish-agent-crl.sh, for an identity about to be revoked.
PublishCrl ==
  /\ \E g \in Has("retiring") \cup Active : g \notin crl /\ crl' = crl \cup {g}
  /\ UNCHANGED <<agent, identity, pending, enabled, hostVars, fateVars>>

RevokeRetiring ==
  /\ CanClaim
  /\ \E g \in Has("retiring") \cap crl :
       identity' = [identity EXCEPT ![g] = "revoked"]
  /\ ClaimVersion
  /\ UNCHANGED <<pending, crl, enabled, hostVars, fateVars>>

\* Only the active identity is revoked; others keep their state.
RevokeAgent ==
  /\ CanClaim
  /\ \E g \in Active \cap crl : identity' = [identity EXCEPT ![g] = "revoked"]
  /\ agent' = [version |-> Next1, revoked |-> TRUE]
  /\ UNCHANGED <<pending, crl, enabled, hostVars, fateVars>>

\* update_host and batch_update_hosts: monitoring of the host is switched on
\* or off.
EnableHost ==
  /\ enabled' = ~enabled
  /\ UNCHANGED <<agent, identity, pending, crl, hostVars, fateVars>>

OwnerStep ==
  \/ Prepare \/ PendingExpires \/ Activate \/ RetirePending
  \/ PublishCrl \/ RevokeRetiring \/ RevokeAgent \/ EnableHost

-----------------------------------------------------------------------------
(* The agent.                                                              *)

\* The owner installs the pending identity on the host.
InstallPending ==
  /\ running /\ daemon = Idle
  /\ \E g \in Has("pending") : local # g /\ local' = g
  /\ Misses({local})
  /\ UNCHANGED <<controllerVars, running, daemon, enrolled>>

\* A heartbeat with the pending identity is counted and not accepted.
PendingHeartbeat ==
  /\ running /\ daemon = Idle /\ enabled
  /\ Speaks(local) /\ identity[local] = "pending"
  /\ pending.beats < 2
  /\ pending' = [pending EXCEPT !.beats = @ + 1]
  /\ UNCHANGED <<agent, identity, crl, enabled, hostVars, fateVars>>

CanBeat == running /\ daemon = Idle /\ enabled
           /\ Speaks(local) /\ identity[local] # "pending"

\* An accepted heartbeat of an agent whose certificate is about to expire.
StartRenewal ==
  /\ CanClaim
  /\ daemon' = [pc |-> "renew", version |-> agent.version]
  /\ UNCHANGED <<local, running>>

\* The controller commits; its answer arrives or does not.
Renew ==
  /\ daemon.pc = "renew"
  /\ CanRenew(local, daemon.version) /\ Renewed(local)
  /\ \/ daemon' = [pc |-> "switch", version |-> Next1] /\ UNCHANGED missed
     \/ daemon' = Idle /\ Misses({Next1})
  /\ UNCHANGED <<pending, crl, enabled, local, running, enrolled>>

RefuseRenewal ==
  /\ daemon.pc = "renew"
  /\ ~CanRenew(local, daemon.version)
  /\ daemon' = Idle
  /\ UNCHANGED <<controllerVars, local, running, fateVars>>

\* atomicActivateIdentity, or the end of the process before the last rename.
Switch ==
  /\ daemon.pc = "switch"
  /\ daemon' = Idle
  /\ \/ local' = daemon.version /\ UNCHANGED missed
     \/ Misses({Arrived}) /\ UNCHANGED local
  /\ UNCHANGED <<controllerVars, running, enrolled>>

DaemonStep == PendingHeartbeat \/ Renew \/ RefuseRenewal \/ Switch

\* The service is stopped, whatever its daemon was about to do.
Stopped == running' = FALSE /\ daemon' = Idle
=============================================================================
