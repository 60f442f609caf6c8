-------------------------- MODULE MCResetsReleases --------------------------
(* Instances for TLC of two components that share no state, the resets of    *)
(* port traffic and the releases of the controller on its host: which of the *)
(* two moves is settled at the start.                                        *)
EXTENDS PortTrafficResets, ControllerHost

VARIABLE moving

\* Two boundaries, and a time after them.
TwoBoundaries == [t \in 0 .. 3 |-> IF t < 1 THEN 1 ELSE IF t < 2 THEN 2 ELSE 0]

MCInit ==
  /\ moving \in {"resets", "releases"}
  /\ Init /\ ControllerInit

ResetsMove   == moving = "resets" /\ UNCHANGED <<moving, controllerVars>>
ReleasesMove == moving = "releases" /\ UNCHANGED <<moving, vars>>

\* Next and ControllerNext, action by action.
MCNext ==
  \/ ResetsMove /\ Tick
  \/ \E t \in Scheduled : ResetsMove /\ Dispatch(t)
  \/ \E t \in Requested : ResetsMove /\ RequestReset(t)
  \/ \E t \in Tasks : ResetsMove /\ Expire(t)
  \/ ResetsMove /\ Heartbeat
  \/ \E t \in Tasks : ResetsMove /\ Reset(t)
  \/ \E t \in Tasks : ResetsMove /\ ResetFails(t)
  \/ \E t \in Tasks : ResetsMove /\ Disturb(t)
  \/ \E revision \in 1..MaxSchema : ReleasesMove /\ StartInstall(revision)
  \/ \E revision \in 1..MaxSchema : ReleasesMove /\ StartUpgrade(revision)
  \/ \E release \in Releases : ReleasesMove /\ StartRollback(release)
  \/ ReleasesMove /\ Resume
  \/ ReleasesMove /\ Stray
  \/ ReleasesMove /\ Test
  \/ ReleasesMove /\ Hold
  \/ ReleasesMove /\ Stop
  \/ ReleasesMove /\ Migrate
  \/ ReleasesMove /\ SwitchCurrent
  \/ ReleasesMove /\ Start
  \/ ReleasesMove /\ Timers
  \/ ReleasesMove /\ WriteMarker
  \/ ReleasesMove /\ RemoveMarker
  \/ ReleasesMove /\ Quiet
  \/ ReleasesMove /\ Disable
  \/ ReleasesMove /\ Clear
  \/ \E phase \in Phases : ReleasesMove /\ Record(phase)
  \/ \E file \in UnitFiles : ReleasesMove /\ Deploy(file)
  \/ ReleasesMove /\ Refuse
  \/ ReleasesMove /\ StepFails
  \/ ReleasesMove /\ Kill
  \/ ReleasesMove /\ Reboot
  \/ ReleasesMove /\ RestoreDatabase
  \/ \E on, boot \in BOOLEAN : ReleasesMove /\ SwitchTimers(on, boot)

\* FairSpec and ControllerFairSpec, of the one that moves.
MCSpec ==
  /\ MCInit /\ [][MCNext]_<<moving, vars, controllerVars>>
  /\ WF_vars(moving = "resets" /\ \E t \in Scheduled : Dispatch(t))
  /\ WF_vars(moving = "resets" /\ Heartbeat /\ delivered' # delivered)
  /\ \A t \in Tasks : WF_vars(moving = "resets" /\ (Reset(t) \/ ResetFails(t)))
  /\ \A t \in Tasks :
       SF_vars(moving = "resets" /\ Heartbeat /\ verdict[t] = "open" /\ verdict'[t] # "open")
  /\ WF_controllerVars(moving = "releases" /\ (Step \/ Refuse))
  /\ WF_controllerVars(moving = "releases" /\ Resume)
  /\ SF_controllerVars(moving = "releases" /\ RestoreDatabase)
=============================================================================
