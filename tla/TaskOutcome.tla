----------------------------- MODULE TaskOutcome ----------------------------
(***************************************************************************)
(* What the task channel promises to the rest of the controller, without   *)
(* heartbeats, queues or files.  A task is issued, performed on the host   *)
(* and concluded with the outcome of its first answer.  When an answer or  *)
(* the trace of a performance is destroyed the task is "disturbed": it may *)
(* then be performed again, even after its verdict, and the verdict may be *)
(* that of a later answer; but "succeeded" is still said only of a task    *)
(* that was performed.                                                     *)
(*                                                                         *)
(* Repairs, scheduled traffic resets and approvals are built on this.      *)
(***************************************************************************)
CONSTANT Tasks

VARIABLES
  verdict,    \* what the controller holds of the task
  outcome,    \* the first answer of the host
  performed,  \* tasks performed at least once
  disturbed   \* tasks an answer or a completion of which was destroyed

vars == <<verdict, outcome, performed, disturbed>>

Terminal == {"succeeded", "failed"}

TypeOK ==
  /\ verdict \in [Tasks -> Terminal \cup {"none", "open", "cancelled"}]
  /\ outcome \in [Tasks -> {"none", "ok", "failed"}]
  /\ performed \subseteq Tasks
  /\ disturbed \subseteq Tasks

Init ==
  /\ verdict = [t \in Tasks |-> "none"]
  /\ outcome = [t \in Tasks |-> "none"]
  /\ performed = {}
  /\ disturbed = {}

Issue(t) ==
  /\ verdict[t] = "none"
  /\ verdict' = [verdict EXCEPT ![t] = "open"]
  /\ UNCHANGED <<outcome, performed, disturbed>>

FirstAnswer(t, a) ==
  outcome' = IF outcome[t] = "none" THEN [outcome EXCEPT ![t] = a] ELSE outcome

\* The host works on open tasks, and again on those that were disturbed.
Workable(t) ==
  \/ verdict[t] = "open"
  \/ verdict[t] \in Terminal /\ t \in disturbed

Perform(t) ==
  /\ Workable(t)
  /\ t \in performed => t \in disturbed
  /\ \E a \in {"ok", "failed"} : FirstAnswer(t, a)
  /\ performed' = performed \cup {t}
  /\ UNCHANGED <<verdict, disturbed>>

\* The host declines to perform the task.
Refuse(t) ==
  /\ Workable(t)
  /\ FirstAnswer(t, "failed")
  /\ UNCHANGED <<verdict, performed, disturbed>>

Disturb(S) ==
  /\ \A t \in S : outcome[t] # "none"
  /\ disturbed' = disturbed \cup S
  /\ UNCHANGED <<verdict, outcome, performed>>

\* The controller learns the outcome of the tasks S, of which W succeeded.
Conclude(S, W) ==
  /\ \A t \in S : verdict[t] = "open" /\ outcome[t] # "none"
  /\ \A t \in S \ disturbed : t \in W <=> outcome[t] = "ok"
  /\ W \subseteq S \cap performed
  /\ verdict' = [t \in Tasks |-> IF t \in W THEN "succeeded"
                                 ELSE IF t \in S THEN "failed" ELSE verdict[t]]
  /\ UNCHANGED <<outcome, performed, disturbed>>

\* The controller learns the outcome of the tasks S and issues the tasks I.
Exchange(S, W, I) ==
  /\ \A t \in S : verdict[t] = "open" /\ outcome[t] # "none"
  /\ \A t \in S \ disturbed : t \in W <=> outcome[t] = "ok"
  /\ W \subseteq S \cap performed
  /\ \A t \in I : verdict[t] = "none"
  /\ verdict' = [t \in Tasks |-> IF t \in W THEN "succeeded"
                                 ELSE IF t \in S THEN "failed"
                                 ELSE IF t \in I THEN "open" ELSE verdict[t]]
  /\ UNCHANGED <<outcome, performed, disturbed>>

\* Tasks the host has not heard of are withdrawn.
Cancel(S) ==
  /\ \A t \in S : verdict[t] = "open" /\ outcome[t] = "none"
  /\ verdict' = [t \in Tasks |-> IF t \in S THEN "cancelled" ELSE verdict[t]]
  /\ UNCHANGED <<outcome, performed, disturbed>>

Next ==
  \/ \E t \in Tasks : Issue(t) \/ Perform(t) \/ Refuse(t)
  \/ \E S \in SUBSET Tasks : Disturb(S) \/ Cancel(S)
  \/ \E S, W \in SUBSET Tasks : Conclude(S, W)
  \/ \E S, W, I \in SUBSET Tasks : Exchange(S, W, I)

Spec == Init /\ [][Next]_vars
=============================================================================
