----------------------------- MODULE AlertRules -----------------------------
(***************************************************************************)
(* What one observation does to an alert (observe_alert).                  *)
(*                                                                         *)
(*   controller/guardian/alerting.py                                       *)
(*                                                                         *)
(* An alert is [state, fails, succs, told, raced].  The two counters are   *)
(* compared with their thresholds and with nothing else, so they stop      *)
(* there.  told and raced are history: an operator knows of the failure    *)
(* (he was notified or acknowledged it), and an operator's request was     *)
(* written over a state he had not seen.                                   *)
(***************************************************************************)
EXTENDS Integers

CONSTANTS
  FailureThreshold,   \* AlertRule.failure_threshold
  RecoveryThreshold   \* AlertRule.recovery_threshold

ASSUME ThresholdAssumption ==
  {FailureThreshold, RecoveryThreshold} \subseteq Nat \ {0}

AlertStates ==
  {"ok", "pending", "firing", "acknowledged", "silenced", "resolved", "closed"}

Alerts == [state : AlertStates, fails : 0 .. FailureThreshold,
           succs : 0 .. RecoveryThreshold, told : BOOLEAN, raced : BOOLEAN]

NewAlert == [state |-> "ok", fails |-> 0, succs |-> 0, told |-> FALSE, raced |-> FALSE]

UpTo(bound, n) == IF n < bound THEN n ELSE bound

Failed(a)    == UpTo(FailureThreshold, a.fails + 1)
Succeeded(a) == UpTo(RecoveryThreshold, a.succs + 1)

\* A failure that an operator knows of changes nothing.
Known(a) == a.state \in {"acknowledged", "firing"}

\* Variant: one failure more than the threshold.
ReachedLate(a) == a.fails = FailureThreshold
Reached(a) == Failed(a) = FailureThreshold

AfterFailure(a, quiet) ==
  IF quiet THEN "silenced"
  ELSE IF Known(a) THEN a.state
  ELSE IF Reached(a) THEN "firing"
  ELSE "pending"

AfterSuccess(a) ==
  IF a.state = "resolved" THEN "ok"
  ELSE IF a.state # "ok" /\ Succeeded(a) = RecoveryThreshold THEN "resolved"
  ELSE a.state

\* Whoever was told is not any more once the alert is silenced or over.
Observed(a, success, quiet) ==
  LET state == IF success THEN AfterSuccess(a) ELSE AfterFailure(a, quiet)
      over  == state \in {"ok", "resolved", "silenced"}
  IN [state |-> state,
      fails |-> IF success THEN 0 ELSE Failed(a),
      succs |-> IF success THEN Succeeded(a) ELSE 0,
      told  |-> ~over /\ (a.told \/ state = "firing"),
      raced |-> ~over /\ a.raced]

\* The event to notify, if any: a change to firing or to resolved.
Event(a, b) ==
  IF a.state # b.state /\ b.state \in {"firing", "resolved"} THEN b.state ELSE "none"
=============================================================================
