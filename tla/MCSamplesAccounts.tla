-------------------------- MODULE MCSamplesAccounts -------------------------
(* Instances for TLC of two components that share no state, the samples of   *)
(* port traffic and the accounts of the controller: which of the two moves   *)
(* is settled at the start.                                                  *)
EXTENDS MCAccounts, TrafficSamples

VARIABLE moving

\* One state of the accounts is enough to leave alone.
MCInit ==
  /\ moving \in {"samples", "accounts"}
  /\ SamplesInit /\ Init
  /\ moving = "samples" =>
       /\ workload = {"create", "update", "delete"}
       /\ \A u \in Users : Exists(u) /\ user[u].role = "owner"

AccountsRest == UNCHANGED <<moving, vars>>
SamplesRest  == UNCHANGED <<moving, sampleVars>>

\* SamplesNext and Next, action by action.
MCNext ==
  \/ moving = "samples" /\ PassTime /\ AccountsRest
  \/ moving = "samples" /\ SetBack /\ AccountsRest
  \/ moving = "samples" /\ SetEnabled /\ AccountsRest
  \/ moving = "samples" /\ OrderReset /\ AccountsRest
  \/ moving = "samples" /\ Perform /\ AccountsRest
  \/ moving = "samples" /\ PerformNothing /\ AccountsRest
  \/ moving = "samples" /\ RecordReset /\ AccountsRest
  \/ moving = "samples" /\ SendSamples /\ AccountsRest
  \/ moving = "samples" /\ Delay /\ AccountsRest
  \/ moving = "samples" /\ HandleHeld /\ AccountsRest
  \/ moving = "samples" /\ Prune /\ AccountsRest
  \/ \E u \in Users, kind \in {"browser", "api"}, s \in Sessions :
       moving = "accounts" /\ Login(u, kind, s) /\ SamplesRest
  \/ \E t \in Threads, s \in Sessions, op \in Ops, u \in Users :
       moving = "accounts" /\ Authenticate(t, s, op, u) /\ SamplesRest
  \/ \E t \in Threads : moving = "accounts" /\ ReadTarget(t) /\ SamplesRest
  \/ \E t \in Threads : moving = "accounts" /\ Drop(t) /\ SamplesRest
  \/ \E t \in Threads : moving = "accounts" /\ Logout(t) /\ SamplesRest
  \/ \E t \in Threads : moving = "accounts" /\ StepUp(t) /\ SamplesRest
  \/ \E t \in Threads : moving = "accounts" /\ SetupTotp(t) /\ SamplesRest
  \/ \E t \in Threads : moving = "accounts" /\ EnableTotp(t) /\ SamplesRest
  \/ \E t \in Threads : moving = "accounts" /\ Confirm(t) /\ SamplesRest
  \/ \E t \in Threads : moving = "accounts" /\ Regenerate(t) /\ SamplesRest
  \/ \E t \in Threads : moving = "accounts" /\ DisableTotp(t) /\ SamplesRest
  \/ \E t \in Threads : moving = "accounts" /\ RevokeOthers(t) /\ SamplesRest
  \/ \E t \in Threads : moving = "accounts" /\ RevokeUserSessions(t) /\ SamplesRest
  \/ \E t \in Threads : moving = "accounts" /\ RotatePassword(t) /\ SamplesRest
  \/ \E t \in Threads : moving = "accounts" /\ UpdateUser(t) /\ SamplesRest
  \/ \E t \in Threads : moving = "accounts" /\ CreateUser(t) /\ SamplesRest
  \/ \E t \in Threads : moving = "accounts" /\ DeleteUser(t) /\ SamplesRest
  \/ \E t \in Threads, s \in Sessions :
       moving = "accounts" /\ ChangePassword(t, s) /\ SamplesRest
  \/ \E t \in Threads, s \in Sessions :
       moving = "accounts" /\ RevokeSession(t, s) /\ SamplesRest
  \/ \E s \in Sessions : moving = "accounts" /\ Expire(s) /\ SamplesRest
  \/ moving = "accounts" /\ Tick /\ SamplesRest

MCSpec == MCInit /\ [][MCNext]_<<moving, vars, sampleVars>>
=============================================================================
