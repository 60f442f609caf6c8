------------------------ MODULE ControllerHost_proofs ------------------------
(***************************************************************************)
(* Proofs about installing, upgrading and rolling back the controller, for *)
(* any number of releases, schemas, failures and reboots.                  *)
(***************************************************************************)
EXTENDS ControllerHost, TLAPS

USE DEF diskVars, runVars

-----------------------------------------------------------------------------
(* The order of the steps.                                                   *)

\* The steps a script takes from its n-th one on, and those it has before it.
Ahead(plan, n) == {plan[i] : i \in n .. Len(plan)}
Left           == Ahead(script.todo, 1)

\* The last phase of a transaction.
Ending(op, recovery) ==
  IF ~recovery THEN "committed" ELSE IF op = "install" THEN "aborted" ELSE "previous_restored"

\* What the proofs use of the order in which a script takes its steps: later are
\* the steps that come after this one, which is not the last.
Order(op, recovery, step, later) ==
  /\ step \notin later /\ step # "clear" /\ "clear" \in later
  /\ step \in Terminal => later \subseteq {"clear"} /\ step = Ending(op, recovery)
  /\ step \notin Terminal => later \cap Terminal # {}
  /\ step = "start" => /\ later \cap {"link", "migrate", "compatible"} = {}
                       /\ recovery => op # "install"
  /\ step = "migrate" => ~recovery /\ "start" \in later /\ later \cap {"stop", "quiet"} = {}
  /\ step = "stop" => ~recovery /\ "start" \in later
  /\ step = "quiet" => recovery /\ (op # "install" => {"start", "timers"} \subseteq later)
  /\ step = "hold" => ~recovery /\ "timers" \in later
  /\ step = "timers" => IF recovery THEN op # "install" /\ "quiet" \notin later
                                    ELSE "hold" \notin later
  /\ step \in {"disable", "unmark"} => recovery
  /\ step = "mark" => ~recovery

Ordered(op, recovery, plan) ==
  /\ plan # <<>> /\ plan[Len(plan)] = "clear"
  /\ \A n \in 1 .. Len(plan) - 1 : Order(op, recovery, plan[n], Ahead(plan, n + 1))

\* How a recovery begins, before the later steps of its plan.
Enters(op, start, later) ==
  \A n \in 1 .. Len(start) : Order(op, TRUE, start[n], Ahead(start, n + 1) \cup later)

-----------------------------------------------------------------------------
(* The inductive invariant.                                                  *)

\* A script takes its steps in order, and its transaction is over when nothing is
\* left but to clear the journal.
OnPlan ==
  script # NoScript =>
    /\ Ordered(journal.op, script.recovery, script.todo)
    /\ Unfinished <=> Left \cap Terminal # {}

\* The host has no release but the two of the transaction.
Between ==
  journal # NoJournal =>
    /\ link \in {journal.previous, journal.candidate}
    /\ \A f \in UnitFiles : /\ journal.units[f] = journal.previous
                            /\ units[f] \in {journal.previous, journal.candidate}

\* What the steps that are done, or that the plan does not need, have led to.
Effects ==
  script # NoScript /\ Unfinished =>
    /\ \A f \in UnitFiles : f \notin Left => units[f] = Target
    /\ "link" \notin Left => link = Target
    /\ {"migrate", "compatible"} \cap Left = {} => Target = 0 \/ db = heads[Target]
    /\ {"stop", "quiet"} \cap Left = {} => running = IF "start" \in Left THEN 0 ELSE Target

\* The same of the timers, and of what the end of the transaction promises besides.
Promises ==
  script # NoScript /\ Unfinished =>
    IF script.recovery
      THEN /\ "quiet" \notin Left =>
                active = (journal.op # "install" /\ "timers" \notin Left /\ journal.timer)
           /\ journal.op = "install" /\ "disable" \notin Left => startup = {}
           /\ journal.op = "install" /\ "unmark" \notin Left => journal.candidate \notin committed
      ELSE /\ "timers" \notin Left => active = (journal.op = "install" \/ journal.timer)
           /\ journal.op # "install" /\ "timers" \in Left =>
                active = ("hold" \in Left /\ journal.timer)
           /\ "mark" \notin Left => journal.candidate \in committed

HInv ==
  /\ ControllerTypeOK
  /\ OnPlan
  /\ Between
  /\ Effects
  /\ Promises
  /\ Whole
  /\ Schema

-----------------------------------------------------------------------------
(* The plans of the scripts are in order.                                    *)

LEMMA StepNames ==
  /\ Phases = {"initialized", "prepared", "quiesced", "database_updated", "units_updated",
               "candidate_activated", "verified", "recovery_required", "recovery_started",
               "committed", "previous_restored", "aborted"}
  /\ Phases \subseteq Steps
  /\ {"controller", "backup", "hold", "check", "stop", "migrate", "compatible", "link", "start",
      "ready", "timers", "mark", "clear", "quiet", "unrelated", "unchanged", "disable",
      "unmark"} \subseteq Steps
BY DEF Steps, Phases, PHASE_TRANSITIONS, UnitFiles

LEMMA ActivationSteps == Activation \in Seq(Steps)
BY StepNames DEF Activation

LEMMA InstallOrdered ==
  /\ Ordered("install", FALSE, InstallPlan) /\ InstallPlan \in Seq(Steps)
  /\ {"controller", "backup", "link", "start", "migrate", "timers", "mark", "committed"}
       \subseteq Ahead(InstallPlan, 1)
  /\ {"stop", "quiet", "hold"} \cap Ahead(InstallPlan, 1) = {}
<1> DEFINE plan == InstallPlan
<1>1. /\ Len(plan) = 15
      /\ plan[1] = "prepared" /\ plan[2] = "migrate" /\ plan[3] = "database_updated"
      /\ plan[4] = "controller" /\ plan[5] = "backup" /\ plan[6] = "units_updated"
      /\ plan[7] = "link" /\ plan[8] = "candidate_activated" /\ plan[9] = "start"
      /\ plan[10] = "ready" /\ plan[11] = "verified" /\ plan[12] = "timers"
      /\ plan[13] = "mark" /\ plan[14] = "committed" /\ plan[15] = "clear"
  BY DEF InstallPlan, Activation
<1>2. plan \in Seq(Steps)
  BY StepNames, ActivationSteps DEF InstallPlan
<1> HIDE DEF plan
<1>3. \A i \in 1 .. 15 : \/ i = 1 \/ i = 2 \/ i = 3 \/ i = 4 \/ i = 5 \/ i = 6 \/ i = 7 \/ i = 8
                         \/ i = 9 \/ i = 10 \/ i = 11 \/ i = 12 \/ i = 13 \/ i = 14 \/ i = 15
  OBVIOUS
<1>4. ASSUME NEW n \in 1 .. 14 PROVE Order("install", FALSE, plan[n], Ahead(plan, n + 1))
  <2> DEFINE later == Ahead(plan, n + 1)
  <2>1. plan[n] \notin later /\ plan[n] # "clear" /\ "clear" \in later
    BY <1>1, <1>3 DEF Ahead
  <2>2. /\ plan[n] \in Terminal => later \subseteq {"clear"} /\ plan[n] = "committed"
        /\ plan[n] \notin Terminal => later \cap Terminal # {}
    BY <1>1, <1>3 DEF Ahead, Terminal
  <2>3. plan[n] = "start" => later \cap {"link", "migrate", "compatible"} = {}
    BY <1>1, <1>3 DEF Ahead
  <2>4. plan[n] = "migrate" => "start" \in later /\ later \cap {"stop", "quiet"} = {}
    BY <1>1, <1>3 DEF Ahead
  <2>5. plan[n] = "timers" => "hold" \notin later
    BY <1>1, <1>3 DEF Ahead
  <2>6. plan[n] \notin {"stop", "quiet", "hold", "disable", "unmark"}
    BY <1>1, <1>3
  <2> QED BY <2>1, <2>2, <2>3, <2>4, <2>5, <2>6 DEF Order, Ending
<1>5. {"controller", "backup", "link", "start", "migrate", "timers", "mark", "committed"}
        \subseteq Ahead(plan, 1)
  BY <1>1, <1>3 DEF Ahead
<1>6. {"stop", "quiet", "hold"} \cap Ahead(plan, 1) = {}
  BY <1>1, <1>3 DEF Ahead
<1>7. Ordered("install", FALSE, plan)
  <2>1. plan # <<>> /\ plan[Len(plan)] = "clear"
    BY <1>1
  <2>2. 1 .. Len(plan) - 1 = 1 .. 14
    BY <1>1
  <2>3. \A n \in 1 .. Len(plan) - 1 : Order("install", FALSE, plan[n], Ahead(plan, n + 1))
    BY <2>2, <1>4, Zenon
  <2> QED BY <2>1, <2>3 DEF Ordered
<1> QED BY <1>2, <1>5, <1>6, <1>7 DEF plan

LEMMA UpgradeOrdered ==
  /\ Ordered("upgrade", FALSE, UpgradePlan) /\ UpgradePlan \in Seq(Steps)
  /\ {"hold", "stop", "controller", "backup", "link", "start", "migrate", "timers", "mark",
      "committed"} \subseteq Ahead(UpgradePlan, 1)
<1> DEFINE plan == UpgradePlan
<1>1. /\ Len(plan) = 19
      /\ plan[1] = "hold" /\ plan[2] = "prepared" /\ plan[3] = "check" /\ plan[4] = "stop"
      /\ plan[5] = "quiesced" /\ plan[6] = "migrate" /\ plan[7] = "database_updated"
      /\ plan[8] = "controller" /\ plan[9] = "backup" /\ plan[10] = "units_updated"
      /\ plan[11] = "link" /\ plan[12] = "candidate_activated" /\ plan[13] = "start"
      /\ plan[14] = "ready" /\ plan[15] = "verified" /\ plan[16] = "timers"
      /\ plan[17] = "mark" /\ plan[18] = "committed" /\ plan[19] = "clear"
  BY DEF UpgradePlan, Activation
<1>2. plan \in Seq(Steps)
  BY StepNames, ActivationSteps DEF UpgradePlan
<1> HIDE DEF plan
<1>3. \A i \in 1 .. 19 : \/ i = 1 \/ i = 2 \/ i = 3 \/ i = 4 \/ i = 5 \/ i = 6 \/ i = 7 \/ i = 8
                         \/ i = 9 \/ i = 10 \/ i = 11 \/ i = 12 \/ i = 13 \/ i = 14 \/ i = 15
                         \/ i = 16 \/ i = 17 \/ i = 18 \/ i = 19
  OBVIOUS
<1>4. ASSUME NEW n \in 1 .. 18 PROVE Order("upgrade", FALSE, plan[n], Ahead(plan, n + 1))
  <2> DEFINE later == Ahead(plan, n + 1)
  <2>1. plan[n] \notin later /\ plan[n] # "clear" /\ "clear" \in later
    BY <1>1, <1>3 DEF Ahead
  <2>2. /\ plan[n] \in Terminal => later \subseteq {"clear"} /\ plan[n] = "committed"
        /\ plan[n] \notin Terminal => later \cap Terminal # {}
    BY <1>1, <1>3 DEF Ahead, Terminal
  <2>3. plan[n] = "start" => later \cap {"link", "migrate", "compatible"} = {}
    BY <1>1, <1>3 DEF Ahead
  <2>4. plan[n] = "migrate" => "start" \in later /\ later \cap {"stop", "quiet"} = {}
    BY <1>1, <1>3 DEF Ahead
  <2>5. /\ plan[n] = "stop" => "start" \in later
        /\ plan[n] = "hold" => "timers" \in later
        /\ plan[n] = "timers" => "hold" \notin later
    BY <1>1, <1>3 DEF Ahead
  <2>6. plan[n] \notin {"quiet", "disable", "unmark"}
    BY <1>1, <1>3
  <2> QED BY <2>1, <2>2, <2>3, <2>4, <2>5, <2>6 DEF Order, Ending
<1>5. {"hold", "stop", "controller", "backup", "link", "start", "migrate", "timers", "mark",
       "committed"} \subseteq Ahead(plan, 1)
  BY <1>1, <1>3 DEF Ahead
<1>6. Ordered("upgrade", FALSE, plan)
  <2>1. plan # <<>> /\ plan[Len(plan)] = "clear"
    BY <1>1
  <2>2. 1 .. Len(plan) - 1 = 1 .. 18
    BY <1>1
  <2>3. \A n \in 1 .. Len(plan) - 1 : Order("upgrade", FALSE, plan[n], Ahead(plan, n + 1))
    BY <2>2, <1>4, Zenon
  <2> QED BY <2>1, <2>3 DEF Ordered
<1> QED BY <1>2, <1>5, <1>6 DEF plan

LEMMA RollbackOrdered ==
  /\ Ordered("rollback", FALSE, RollbackPlan) /\ RollbackPlan \in Seq(Steps)
  /\ {"hold", "stop", "compatible", "controller", "backup", "link", "start", "timers", "committed"}
       \subseteq Ahead(RollbackPlan, 1)
<1> DEFINE plan == RollbackPlan
<1>1. /\ Len(plan) = 16
      /\ plan[1] = "hold" /\ plan[2] = "prepared" /\ plan[3] = "stop" /\ plan[4] = "quiesced"
      /\ plan[5] = "compatible" /\ plan[6] = "controller" /\ plan[7] = "backup"
      /\ plan[8] = "units_updated" /\ plan[9] = "link" /\ plan[10] = "candidate_activated"
      /\ plan[11] = "start" /\ plan[12] = "ready" /\ plan[13] = "verified"
      /\ plan[14] = "timers" /\ plan[15] = "committed" /\ plan[16] = "clear"
  BY DEF RollbackPlan, Activation
<1>2. plan \in Seq(Steps)
  BY StepNames, ActivationSteps DEF RollbackPlan
<1> HIDE DEF plan
<1>3. \A i \in 1 .. 16 : \/ i = 1 \/ i = 2 \/ i = 3 \/ i = 4 \/ i = 5 \/ i = 6 \/ i = 7 \/ i = 8
                         \/ i = 9 \/ i = 10 \/ i = 11 \/ i = 12 \/ i = 13 \/ i = 14 \/ i = 15
                         \/ i = 16
  OBVIOUS
<1>4. ASSUME NEW n \in 1 .. 15 PROVE Order("rollback", FALSE, plan[n], Ahead(plan, n + 1))
  <2> DEFINE later == Ahead(plan, n + 1)
  <2>1. plan[n] \notin later /\ plan[n] # "clear" /\ "clear" \in later
    BY <1>1, <1>3 DEF Ahead
  <2>2. /\ plan[n] \in Terminal => later \subseteq {"clear"} /\ plan[n] = "committed"
        /\ plan[n] \notin Terminal => later \cap Terminal # {}
    BY <1>1, <1>3 DEF Ahead, Terminal
  <2>3. plan[n] = "start" => later \cap {"link", "migrate", "compatible"} = {}
    BY <1>1, <1>3 DEF Ahead
  <2>4. /\ plan[n] = "stop" => "start" \in later
        /\ plan[n] = "hold" => "timers" \in later
        /\ plan[n] = "timers" => "hold" \notin later
    BY <1>1, <1>3 DEF Ahead
  <2>5. plan[n] \notin {"migrate", "quiet", "disable", "unmark", "mark"}
    BY <1>1, <1>3
  <2> QED BY <2>1, <2>2, <2>3, <2>4, <2>5 DEF Order, Ending
<1>5. {"hold", "stop", "compatible", "controller", "backup", "link", "start", "timers", "committed"}
        \subseteq Ahead(plan, 1)
  BY <1>1, <1>3 DEF Ahead
<1>6. Ordered("rollback", FALSE, plan)
  <2>1. plan # <<>> /\ plan[Len(plan)] = "clear"
    BY <1>1
  <2>2. 1 .. Len(plan) - 1 = 1 .. 15
    BY <1>1
  <2>3. \A n \in 1 .. Len(plan) - 1 : Order("rollback", FALSE, plan[n], Ahead(plan, n + 1))
    BY <2>2, <1>4, Zenon
  <2> QED BY <2>1, <2>3 DEF Ordered
<1> QED BY <1>2, <1>5, <1>6 DEF plan

LEMMA AbortOrdered ==
  /\ Ordered("install", TRUE, AbortPlan) /\ AbortPlan \in Seq(Steps)
  /\ {"disable", "link", "controller", "backup", "unmark", "aborted"} \subseteq Ahead(AbortPlan, 1)
  /\ {"quiet", "recovery_required", "recovery_started"} \cap Ahead(AbortPlan, 1) = {}
<1> DEFINE plan == AbortPlan
<1>1. /\ Len(plan) = 9
      /\ plan[1] = "unrelated" /\ plan[2] = "unchanged" /\ plan[3] = "disable"
      /\ plan[4] = "link" /\ plan[5] = "controller" /\ plan[6] = "backup"
      /\ plan[7] = "unmark" /\ plan[8] = "aborted" /\ plan[9] = "clear"
  BY DEF AbortPlan
<1>2. plan \in Seq(Steps)
  BY StepNames DEF AbortPlan
<1> HIDE DEF plan
<1>3. \A i \in 1 .. 9 : \/ i = 1 \/ i = 2 \/ i = 3 \/ i = 4 \/ i = 5 \/ i = 6 \/ i = 7 \/ i = 8
                        \/ i = 9
  OBVIOUS
<1>4. ASSUME NEW n \in 1 .. 8 PROVE Order("install", TRUE, plan[n], Ahead(plan, n + 1))
  <2> DEFINE later == Ahead(plan, n + 1)
  <2>1. plan[n] \notin later /\ plan[n] # "clear" /\ "clear" \in later
    BY <1>1, <1>3 DEF Ahead
  <2>2. /\ plan[n] \in Terminal => later \subseteq {"clear"} /\ plan[n] = "aborted"
        /\ plan[n] \notin Terminal => later \cap Terminal # {}
    BY <1>1, <1>3 DEF Ahead, Terminal
  <2>3. plan[n] \notin {"start", "migrate", "stop", "quiet", "hold", "timers", "mark"}
    BY <1>1, <1>3
  <2> QED BY <2>1, <2>2, <2>3 DEF Order, Ending
<1>5. /\ {"disable", "link", "controller", "backup", "unmark", "aborted"} \subseteq Ahead(plan, 1)
      /\ {"quiet", "recovery_required", "recovery_started"} \cap Ahead(plan, 1) = {}
  BY <1>1, <1>3 DEF Ahead
<1>6. Ordered("install", TRUE, plan)
  <2>1. plan # <<>> /\ plan[Len(plan)] = "clear"
    BY <1>1
  <2>2. 1 .. Len(plan) - 1 = 1 .. 8
    BY <1>1
  <2>3. \A n \in 1 .. Len(plan) - 1 : Order("install", TRUE, plan[n], Ahead(plan, n + 1))
    BY <2>2, <1>4, Zenon
  <2> QED BY <2>1, <2>3 DEF Ordered
<1> QED BY <1>2, <1>5, <1>6 DEF plan

LEMMA RestoreOrdered ==
  ASSUME NEW op \in {"upgrade", "rollback"}
  PROVE  /\ Ordered(op, TRUE, RestorePlan) /\ RestorePlan \in Seq(Steps)
         /\ {"controller", "backup", "link", "compatible", "start", "timers", "previous_restored"}
              \subseteq Ahead(RestorePlan, 1)
         /\ {"quiet", "recovery_required", "recovery_started"} \cap Ahead(RestorePlan, 1) = {}
<1> DEFINE plan == RestorePlan
<1>1. /\ Len(plan) = 10
      /\ plan[1] = "unrelated" /\ plan[2] = "controller" /\ plan[3] = "backup"
      /\ plan[4] = "link" /\ plan[5] = "compatible" /\ plan[6] = "start" /\ plan[7] = "ready"
      /\ plan[8] = "timers" /\ plan[9] = "previous_restored" /\ plan[10] = "clear"
  BY DEF RestorePlan
<1>2. plan \in Seq(Steps)
  BY StepNames DEF RestorePlan
<1> HIDE DEF plan
<1>3. \A i \in 1 .. 10 : \/ i = 1 \/ i = 2 \/ i = 3 \/ i = 4 \/ i = 5 \/ i = 6 \/ i = 7 \/ i = 8
                         \/ i = 9 \/ i = 10
  OBVIOUS
<1>4. ASSUME NEW n \in 1 .. 9 PROVE Order(op, TRUE, plan[n], Ahead(plan, n + 1))
  <2> DEFINE later == Ahead(plan, n + 1)
  <2>1. plan[n] \notin later /\ plan[n] # "clear" /\ "clear" \in later
    BY <1>1, <1>3 DEF Ahead
  <2>2. /\ plan[n] \in Terminal => later \subseteq {"clear"} /\ plan[n] = "previous_restored"
        /\ plan[n] \notin Terminal => later \cap Terminal # {}
    BY <1>1, <1>3 DEF Ahead, Terminal
  <2>3. plan[n] = "start" => later \cap {"link", "migrate", "compatible"} = {}
    BY <1>1, <1>3 DEF Ahead
  <2>4. plan[n] = "timers" => "quiet" \notin later
    BY <1>1, <1>3 DEF Ahead
  <2>5. plan[n] \notin {"migrate", "stop", "quiet", "hold", "mark"}
    BY <1>1, <1>3
  <2> QED BY <2>1, <2>2, <2>3, <2>4, <2>5 DEF Order, Ending
<1>5. /\ {"controller", "backup", "link", "compatible", "start", "timers", "previous_restored"}
           \subseteq Ahead(plan, 1)
      /\ {"quiet", "recovery_required", "recovery_started"} \cap Ahead(plan, 1) = {}
  BY <1>1, <1>3 DEF Ahead
<1>6. Ordered(op, TRUE, plan)
  <2>1. plan # <<>> /\ plan[Len(plan)] = "clear"
    BY <1>1
  <2>2. 1 .. Len(plan) - 1 = 1 .. 9
    BY <1>1
  <2>3. \A n \in 1 .. Len(plan) - 1 : Order(op, TRUE, plan[n], Ahead(plan, n + 1))
    BY <2>2, <1>4, Zenon
  <2> QED BY <2>1, <2>3 DEF Ordered
<1> QED BY <1>2, <1>5, <1>6 DEF plan

\* A script that takes a step keeps the rest of its plan in order.
LEMMA TailOrdered ==
  ASSUME NEW op, NEW recovery, NEW todo \in Seq(Steps), Ordered(op, recovery, todo),
         Head(todo) # "clear"
  PROVE  /\ Tail(todo) \in Seq(Steps) /\ Tail(todo) # <<>>
         /\ Ordered(op, recovery, Tail(todo))
         /\ Order(op, recovery, Head(todo), Ahead(Tail(todo), 1))
         /\ Ahead(todo, 1) = Ahead(Tail(todo), 1) \cup {Head(todo)}
<1>1. todo # <<>> /\ Head(todo) = todo[1] /\ todo[Len(todo)] = "clear" /\ Len(todo) \in Nat
  BY DEF Ordered
<1>2. Len(todo) > 1
  BY <1>1
<1>3. /\ Tail(todo) \in Seq(Steps) /\ Tail(todo) # <<>> /\ Len(Tail(todo)) = Len(todo) - 1
      /\ \A i \in 1 .. Len(todo) - 1 : Tail(todo)[i] = todo[i + 1]
  <2>1. Tail(todo) \in Seq(Steps) /\ Len(Tail(todo)) = Len(todo) - 1
    BY <1>2
  <2>2. \A i \in 1 .. Len(todo) - 1 : Tail(todo)[i] = todo[i + 1]
    BY <1>2
  <2>3. Tail(todo) # <<>>
    <3>1. Len(Tail(todo)) # 0
      BY <1>1, <1>2, <2>1
    <3>2. Len(<<>>) = 0
      OBVIOUS
    <3> QED BY <3>1, <3>2, Zenon
  <2> QED BY <2>1, <2>2, <2>3, Zenon
<1>4. ASSUME NEW n \in 1 .. Len(todo) - 1 PROVE Ahead(Tail(todo), n) = Ahead(todo, n + 1)
  <2>1. ASSUME NEW i \in n .. Len(todo) - 1
        PROVE  /\ Tail(todo)[i] = todo[i + 1]
               /\ i + 1 \in n + 1 .. Len(todo)
    BY <1>2, <1>3
  <2>2. ASSUME NEW j \in n + 1 .. Len(todo)
        PROVE  /\ todo[j] = Tail(todo)[j - 1]
               /\ j - 1 \in n .. Len(todo) - 1
    BY <1>2, <1>3
  <2> QED BY <1>3, <2>1, <2>2 DEF Ahead
<1>5. ASSUME NEW n \in 1 .. Len(todo) - 1
      PROVE  Order(op, recovery, todo[n], Ahead(todo, n + 1))
  BY Zenon DEF Ordered
<1>6. Order(op, recovery, Head(todo), Ahead(Tail(todo), 1))
  <2>1. 1 \in 1 .. Len(todo) - 1
    BY <1>1, <1>2
  <2>2. /\ Order(op, recovery, todo[1], Ahead(todo, 1 + 1))
        /\ Ahead(Tail(todo), 1) = Ahead(todo, 1 + 1)
    BY <1>4, <1>5, <2>1, Zenon
  <2> QED BY <1>1, <2>2, Zenon
<1>7. Ordered(op, recovery, Tail(todo))
  <2>1. Tail(todo)[Len(Tail(todo))] = "clear"
    BY <1>1, <1>2, <1>3
  <2>2. ASSUME NEW n \in 1 .. Len(Tail(todo)) - 1
        PROVE  Order(op, recovery, Tail(todo)[n], Ahead(Tail(todo), n + 1))
    <3>1. /\ n + 1 \in 1 .. Len(todo) - 1 /\ n \in 1 .. Len(todo) - 1
          /\ Tail(todo)[n] = todo[n + 1]
      BY <1>1, <1>2, <1>3
    <3>2. /\ Order(op, recovery, todo[n + 1], Ahead(todo, n + 1 + 1))
          /\ Ahead(Tail(todo), n + 1) = Ahead(todo, n + 1 + 1)
      BY <1>4, <1>5, <3>1, Zenon
    <3> QED BY <3>1, <3>2, Zenon
  <2> QED BY <1>3, <2>1, <2>2, Zenon DEF Ordered
<1>8. Ahead(todo, 1) = Ahead(Tail(todo), 1) \cup {Head(todo)}
  <2>1. 1 \in 1 .. Len(todo) - 1
    BY <1>1, <1>2
  <2>2. Ahead(Tail(todo), 1) = Ahead(todo, 1 + 1)
    BY <1>4, <2>1, Zenon
  <2>3. Ahead(todo, 1) = Ahead(todo, 1 + 1) \cup {todo[1]}
    BY <1>1, <1>2 DEF Ahead
  <2> QED BY <1>1, <2>2, <2>3
<1> QED BY <1>3, <1>6, <1>7, <1>8, Zenon

\* Only the journal is left to clear.
LEMMA LastStep ==
  ASSUME NEW op, NEW recovery, NEW todo \in Seq(Steps), Ordered(op, recovery, todo)
  PROVE  /\ todo # <<>> /\ Head(todo) \in Ahead(todo, 1)
         /\ Head(todo) = "clear" => Ahead(todo, 1) = {"clear"}
<1>1. todo # <<>> /\ Head(todo) = todo[1] /\ Len(todo) \in Nat /\ Len(todo) > 0
  BY DEF Ordered
<1>2. Head(todo) = "clear" => Len(todo) = 1
  <2> DEFINE L == Len(todo)
  <2>1. L \in Nat /\ L > 0
    BY <1>1
  <2> HIDE DEF L
  <2>2. L = 1 \/ 1 \in 1 .. L - 1
    BY <2>1
  <2>3. ASSUME 1 \in 1 .. L - 1 PROVE Head(todo) # "clear"
    <3>1. Order(op, recovery, todo[1], Ahead(todo, 1 + 1))
      BY <2>3, Zenon DEF Ordered, L
    <3> QED BY <1>1, <3>1 DEF Order
  <2> QED BY <2>2, <2>3 DEF L
<1> QED BY <1>1, <1>2 DEF Ahead

\* A recovery begins in order, whatever it has to enter.
LEMMA EntryOrdered ==
  ASSUME NEW start \in Seq(Steps), NEW plan \in Seq(Steps),
         Ordered(journal.op, TRUE, plan), Enters(journal.op, start, Ahead(plan, 1))
  PROVE  /\ Ordered(journal.op, TRUE, start \o plan) /\ start \o plan \in Seq(Steps)
         /\ Ahead(start \o plan, 1) = Ahead(start, 1) \cup Ahead(plan, 1)
<1> DEFINE all == start \o plan
           K   == Len(start)
           L   == Len(plan)
<1>1. /\ all \in Seq(Steps) /\ Len(all) = K + L /\ K \in Nat /\ L \in Nat
      /\ \A i \in 1 .. K : all[i] = start[i]
      /\ \A i \in 1 .. L : all[K + i] = plan[i]
  OBVIOUS
<1>2. plan # <<>> /\ L > 0 /\ plan[L] = "clear"
  BY DEF Ordered
<1> HIDE DEF all
<1>3. ASSUME NEW n \in 1 .. K + 1 PROVE Ahead(all, n) = Ahead(start, n) \cup Ahead(plan, 1)
  <2>1. ASSUME NEW i \in n .. K + L
        PROVE  all[i] \in Ahead(start, n) \cup Ahead(plan, 1)
    <3>1. CASE i <= K
      BY <1>1, <3>1 DEF Ahead
    <3>2. CASE i > K
      <4>1. i - K \in 1 .. L /\ all[K + (i - K)] = all[i]
        BY <1>1, <3>2
      <4> QED BY <1>1, <4>1 DEF Ahead
    <3> QED BY <1>1, <3>1, <3>2
  <2>2. ASSUME NEW i \in n .. K PROVE start[i] \in Ahead(all, n)
    BY <1>1, <1>2 DEF Ahead
  <2>3. ASSUME NEW i \in 1 .. L PROVE plan[i] \in Ahead(all, n)
    <3>1. all[K + i] = plan[i] /\ K + i \in n .. Len(all)
      BY <1>1
    <3> QED BY <3>1 DEF Ahead
  <2> QED BY <1>1, <2>1, <2>2, <2>3 DEF Ahead
<1>4. ASSUME NEW n \in 1 .. L PROVE Ahead(all, K + n) = Ahead(plan, n)
  <2>1. ASSUME NEW i \in K + n .. K + L PROVE all[i] \in Ahead(plan, n)
    <3>1. i - K \in n .. L /\ i - K \in 1 .. L /\ all[K + (i - K)] = all[i]
      BY <1>1
    <3> QED BY <1>1, <3>1 DEF Ahead
  <2>2. ASSUME NEW i \in n .. L PROVE plan[i] \in Ahead(all, K + n)
    <3>1. all[K + i] = plan[i] /\ K + i \in K + n .. Len(all)
      BY <1>1
    <3> QED BY <3>1 DEF Ahead
  <2> QED BY <1>1, <2>1, <2>2 DEF Ahead
<1>5. Ordered(journal.op, TRUE, all)
  <2>1. all # <<>> /\ all[Len(all)] = "clear"
    BY <1>1, <1>2
  <2>2. ASSUME NEW n \in 1 .. Len(all) - 1
        PROVE  Order(journal.op, TRUE, all[n], Ahead(all, n + 1))
    <3>1. CASE n <= K
      <4>1. n \in 1 .. K /\ n + 1 \in 1 .. K + 1 /\ all[n] = start[n]
        BY <1>1, <3>1
      <4>2. /\ Order(journal.op, TRUE, start[n], Ahead(start, n + 1) \cup Ahead(plan, 1))
            /\ Ahead(all, n + 1) = Ahead(start, n + 1) \cup Ahead(plan, 1)
        BY <1>3, <4>1, Zenon DEF Enters
      <4> QED BY <4>1, <4>2, Zenon
    <3>2. CASE n > K
      <4>1. PICK i \in 1 .. L - 1 : n = K + i
        <5>1. n - K \in 1 .. L - 1 /\ n = K + (n - K)
          BY <1>1, <3>2
        <5> QED BY <5>1
      <4>2. i \in 1 .. L /\ i + 1 \in 1 .. L /\ n + 1 = K + (i + 1) /\ all[n] = plan[i]
        BY <1>1, <4>1
      <4>3. /\ Order(journal.op, TRUE, plan[i], Ahead(plan, i + 1))
            /\ Ahead(all, K + (i + 1)) = Ahead(plan, i + 1)
        BY <1>4, <4>2, Zenon DEF Ordered
      <4> QED BY <4>2, <4>3, Zenon
    <3>3. n <= K \/ n > K
      BY <1>1
    <3> QED BY <3>1, <3>2, <3>3, Zenon
  <2> QED BY <2>1, <2>2, Zenon DEF Ordered
<1>6. Ahead(all, 1) = Ahead(start, 1) \cup Ahead(plan, 1)
  <2>1. 1 \in 1 .. K + 1
    BY <1>1
  <2> QED BY <1>3, <2>1, Zenon
<1> QED BY <1>1, <1>5, <1>6, Zenon DEF all

LEMMA EntrySteps ==
  ASSUME NEW op, NEW later,
         NEW start \in {<<"quiet">>, <<"quiet", "recovery_started">>,
                        <<"recovery_required", "quiet", "recovery_started">>},
         "clear" \in later, later \cap Terminal # {},
         {"quiet", "recovery_required", "recovery_started"} \cap later = {},
         op # "install" => {"start", "timers"} \subseteq later
  PROVE  start \in Seq(Steps) /\ "quiet" \in Ahead(start, 1) /\ Enters(op, start, later)
<1>1. /\ ~({"quiet", "recovery_required", "recovery_started", "start", "timers", "migrate", "stop",
            "hold", "disable", "unmark", "mark", "clear"} \cap Terminal # {})
      /\ "quiet" \notin later /\ "recovery_required" \notin later /\ "recovery_started" \notin later
  BY DEF Terminal
<1>2. ASSUME NEW A, A \cap {"quiet", "clear"} = {}
      PROVE  Order(op, TRUE, "quiet", A \cup later)
  BY <1>1, <1>2 DEF Order
<1>3. ASSUME NEW A, "recovery_required" \notin A
      PROVE  Order(op, TRUE, "recovery_required", A \cup later)
  BY <1>1, <1>3 DEF Order
<1>4. ASSUME NEW A, "recovery_started" \notin A
      PROVE  Order(op, TRUE, "recovery_started", A \cup later)
  BY <1>1, <1>4 DEF Order
<1>5. CASE start = <<"quiet">>
  <2>1. start[1] = "quiet" /\ Len(start) = 1 /\ start \in Seq(Steps)
    BY <1>5, StepNames
  <2>2. Ahead(start, 1) = {"quiet"} /\ Ahead(start, 1 + 1) = {}
    BY <2>1 DEF Ahead
  <2>3. Order(op, TRUE, start[1], Ahead(start, 1 + 1) \cup later)
    BY <1>2, <2>1, <2>2
  <2>4. \A n \in 1 .. Len(start) : n = 1
    BY <2>1
  <2> QED BY <2>1, <2>2, <2>3, <2>4 DEF Enters
<1>6. CASE start = <<"quiet", "recovery_started">>
  <2>1. /\ start[1] = "quiet" /\ start[2] = "recovery_started" /\ Len(start) = 2
        /\ start \in Seq(Steps)
    BY <1>6, StepNames
  <2>2. /\ Ahead(start, 1) = {"quiet", "recovery_started"}
        /\ Ahead(start, 1 + 1) = {"recovery_started"} /\ Ahead(start, 2 + 1) = {}
    BY <2>1 DEF Ahead
  <2>3. Order(op, TRUE, start[1], Ahead(start, 1 + 1) \cup later)
    BY <1>2, <2>1, <2>2
  <2>4. Order(op, TRUE, start[2], Ahead(start, 2 + 1) \cup later)
    BY <1>4, <2>1, <2>2
  <2>5. \A n \in 1 .. Len(start) : n = 1 \/ n = 2
    BY <2>1
  <2> QED BY <2>1, <2>2, <2>3, <2>4, <2>5 DEF Enters
<1>7. CASE start = <<"recovery_required", "quiet", "recovery_started">>
  <2>1. /\ start[1] = "recovery_required" /\ start[2] = "quiet" /\ start[3] = "recovery_started"
        /\ Len(start) = 3 /\ start \in Seq(Steps)
    BY <1>7, StepNames
  <2>2. /\ Ahead(start, 1) = {"recovery_required", "quiet", "recovery_started"}
        /\ Ahead(start, 1 + 1) = {"quiet", "recovery_started"}
        /\ Ahead(start, 2 + 1) = {"recovery_started"} /\ Ahead(start, 3 + 1) = {}
    BY <2>1 DEF Ahead
  <2>3. Order(op, TRUE, start[1], Ahead(start, 1 + 1) \cup later)
    BY <1>3, <2>1, <2>2
  <2>4. Order(op, TRUE, start[2], Ahead(start, 2 + 1) \cup later)
    BY <1>2, <2>1, <2>2
  <2>5. Order(op, TRUE, start[3], Ahead(start, 3 + 1) \cup later)
    BY <1>4, <2>1, <2>2
  <2>6. \A n \in 1 .. Len(start) : n = 1 \/ n = 2 \/ n = 3
    BY <2>1
  <2> QED BY <2>1, <2>2, <2>3, <2>4, <2>5, <2>6 DEF Enters
<1> QED BY <1>5, <1>6, <1>7

\* A recovery has everything before it that it has to put right, and only the
\* journal to clear when the transaction is over.
LEMMA RecoveryOrdered ==
  ASSUME ControllerTypeOK, journal # NoJournal
  PROVE  /\ RecoveryPlan \in Seq(Steps) /\ Ordered(journal.op, TRUE, RecoveryPlan)
         /\ Unfinished <=> Ahead(RecoveryPlan, 1) \cap Terminal # {}
         /\ Unfinished =>
              /\ {"quiet", "link", "controller", "backup"} \subseteq Ahead(RecoveryPlan, 1)
              /\ journal.op = "install" => {"disable", "unmark"} \subseteq Ahead(RecoveryPlan, 1)
              /\ journal.op # "install" => "compatible" \in Ahead(RecoveryPlan, 1)
<1> DEFINE plan == RecoveryPlan
           undo == IF journal.op = "install" THEN AbortPlan ELSE RestorePlan
           start == Entry(journal.phase)
<1>1. journal.op \in {"install", "upgrade", "rollback"}
  BY DEF ControllerTypeOK, Journal, Operations
<1>2. CASE journal.phase \in Terminal
  <2>1. plan = <<"clear">> /\ ~Unfinished
    BY <1>2 DEF RecoveryPlan, Unfinished
  <2> HIDE DEF plan
  <2>2. plan \in Seq(Steps) /\ plan # <<>> /\ Len(plan) = 1 /\ plan[1] = "clear"
    BY <2>1, StepNames
  <2>3. Ahead(plan, 1) = {"clear"}
    BY <2>2 DEF Ahead
  <2>4. Ordered(journal.op, TRUE, plan)
    BY <2>2 DEF Ordered
  <2>5. Ahead(plan, 1) \cap Terminal = {}
    BY <2>3 DEF Terminal
  <2> QED BY <2>1, <2>2, <2>4, <2>5 DEF plan
<1>3. CASE journal.phase \notin Terminal
  <2>1. plan = start \o undo /\ Unfinished
    BY <1>3 DEF RecoveryPlan, Unfinished
  <2>2. start \in {<<"quiet">>, <<"quiet", "recovery_started">>,
                   <<"recovery_required", "quiet", "recovery_started">>}
    BY DEF Entry
  <2>3. /\ undo \in Seq(Steps) /\ Ordered(journal.op, TRUE, undo)
        /\ {"link", "controller", "backup"} \subseteq Ahead(undo, 1)
        /\ Ahead(undo, 1) \cap Terminal # {}
        /\ {"quiet", "recovery_required", "recovery_started"} \cap Ahead(undo, 1) = {}
        /\ journal.op = "install" => {"disable", "unmark"} \subseteq Ahead(undo, 1)
        /\ journal.op # "install" => {"compatible", "start", "timers"} \subseteq Ahead(undo, 1)
    <3>1. CASE journal.op = "install"
      BY <3>1, AbortOrdered DEF Terminal
    <3>2. CASE journal.op \in {"upgrade", "rollback"}
      BY <3>2, RestoreOrdered DEF Terminal
    <3> QED BY <1>1, <3>1, <3>2
  <2> HIDE DEF plan, undo, start
  <2>4. "clear" \in Ahead(undo, 1)
    <3>1. undo # <<>> /\ undo[Len(undo)] = "clear"
      BY <2>3 DEF Ordered
    <3>2. Len(undo) \in 1 .. Len(undo)
      BY <2>3, <3>1
    <3> QED BY <3>1, <3>2 DEF Ahead
  <2>5. /\ start \in Seq(Steps) /\ "quiet" \in Ahead(start, 1)
        /\ Enters(journal.op, start, Ahead(undo, 1))
    BY <2>2, <2>3, <2>4, EntrySteps
  <2>6. /\ Ordered(journal.op, TRUE, start \o undo) /\ start \o undo \in Seq(Steps)
        /\ Ahead(start \o undo, 1) = Ahead(start, 1) \cup Ahead(undo, 1)
    BY <2>3, <2>5, EntryOrdered, Zenon
  <2>7. /\ plan \in Seq(Steps) /\ Ordered(journal.op, TRUE, plan) /\ Unfinished
        /\ Ahead(plan, 1) = Ahead(start, 1) \cup Ahead(undo, 1)
    BY <2>1, <2>6, Zenon
  <2> QED BY <2>3, <2>5, <2>7 DEF plan
<1> QED BY <1>2, <1>3

-----------------------------------------------------------------------------
(* A step of a script.                                                       *)

\* A script that takes a step has the rest of it, in order, before it.
LEMMA StepTaken ==
  ASSUME HInv, NEW step \in Steps \ {"clear"}, Takes(step)
  PROVE  /\ script # NoScript /\ script' # NoScript /\ journal # NoJournal
         /\ script' \in [todo : Seq(Steps), recovery : BOOLEAN] /\ script'.todo # <<>>
         /\ script'.recovery = script.recovery /\ script.recovery \in BOOLEAN
         /\ Ordered(journal.op, script'.recovery, script'.todo)
         /\ Order(journal.op, script.recovery, step, Left')
         /\ Left = Left' \cup {step} /\ step \notin Left'
<1>1. script \in [todo : Seq(Steps), recovery : BOOLEAN] /\ script.todo # <<>>
  BY DEF HInv, ControllerTypeOK, Takes, At
<1>2. script # NoScript /\ journal # NoJournal
  BY <1>1 DEF HInv, ControllerTypeOK
<1>3. script' = [script EXCEPT !.todo = Tail(script.todo)] /\ Head(script.todo) = step
  BY DEF Takes, At
<1>4. Ordered(journal.op, script.recovery, script.todo)
  BY <1>2 DEF HInv, OnPlan
<1>5. script.todo \in Seq(Steps) /\ script.recovery \in BOOLEAN
  BY <1>1
<1>6. /\ Tail(script.todo) \in Seq(Steps) /\ Tail(script.todo) # <<>>
      /\ Ordered(journal.op, script.recovery, Tail(script.todo))
      /\ Order(journal.op, script.recovery, step, Ahead(Tail(script.todo), 1))
      /\ Ahead(script.todo, 1) = Ahead(Tail(script.todo), 1) \cup {step}
  <2> DEFINE op == journal.op
             recovery == script.recovery
             todo == script.todo
  <2>1. /\ todo \in Seq(Steps) /\ Ordered(op, recovery, todo)
        /\ Head(todo) = step /\ Head(todo) # "clear"
    BY <1>3, <1>4, <1>5
  <2> HIDE DEF op, recovery, todo
  <2>2. /\ Tail(todo) \in Seq(Steps) /\ Tail(todo) # <<>>
        /\ Ordered(op, recovery, Tail(todo))
        /\ Order(op, recovery, Head(todo), Ahead(Tail(todo), 1))
        /\ Ahead(todo, 1) = Ahead(Tail(todo), 1) \cup {Head(todo)}
    BY <2>1, TailOrdered, Zenon
  <2> QED BY <2>1, <2>2, Zenon DEF op, recovery, todo
<1>7. script'.todo = Tail(script.todo) /\ script'.recovery = script.recovery
  BY <1>1, <1>3
<1>8. script' \in [todo : Seq(Steps), recovery : BOOLEAN]
  BY <1>1, <1>3, <1>6
<1>9. Left = Ahead(script.todo, 1) /\ Left' = Ahead(Tail(script.todo), 1)
  BY <1>7 DEF Left, Ahead
<1>10. step \notin Left'
  BY <1>6, <1>9 DEF Order
<1>11. script' # NoScript
  <2>1. NoScript.todo = <<>>
    BY DEF NoScript
  <2> QED BY <1>6, <1>7, <2>1, Zenon
<1> QED BY <1>2, <1>5, <1>6, <1>7, <1>8, <1>9, <1>10, <1>11

\* A step that leaves the journal alone stays within the transaction.
LEMMA StepWithin ==
  ASSUME HInv, NEW step \in Steps \ (Terminal \cup {"clear"}), Takes(step), UNCHANGED journal
  PROVE  /\ script # NoScript /\ script' # NoScript /\ journal # NoJournal
         /\ script' \in [todo : Seq(Steps), recovery : BOOLEAN] /\ script'.todo # <<>>
         /\ script'.recovery = script.recovery /\ script.recovery \in BOOLEAN
         /\ Order(journal.op, script.recovery, step, Left')
         /\ Left = Left' \cup {step} /\ step \notin Left'
         /\ Unfinished /\ Unfinished' /\ OnPlan' /\ Whole' /\ Target' = Target
<1>1. /\ script # NoScript /\ script' # NoScript /\ journal # NoJournal
      /\ script' \in [todo : Seq(Steps), recovery : BOOLEAN] /\ script'.todo # <<>>
      /\ script'.recovery = script.recovery /\ script.recovery \in BOOLEAN
      /\ Ordered(journal.op, script'.recovery, script'.todo)
      /\ Order(journal.op, script.recovery, step, Left')
      /\ Left = Left' \cup {step} /\ step \notin Left'
  BY StepTaken
<1>2. Left' \cap Terminal # {}
  BY <1>1 DEF Order
<1>3. Unfinished <=> Left \cap Terminal # {}
  BY <1>1 DEF HInv, OnPlan
<1>4. Unfinished
  BY <1>1, <1>2, <1>3
<1>5. Unfinished'
  BY <1>4 DEF Unfinished
<1>6. OnPlan'
  <2>1. Ordered(journal.op, script.recovery, script.todo)'
    BY <1>1 DEF Ordered, Ahead
  <2>2. (Unfinished <=> Left \cap Terminal # {})'
    BY <1>2, <1>5 DEF Terminal
  <2> QED BY <2>1, <2>2 DEF OnPlan
<1>7. Whole'
  BY <1>5 DEF Whole
<1>8. Target' = Target
  BY <1>1 DEF Target
<1> QED BY <1>1, <1>4, <1>5, <1>6, <1>7, <1>8

\* No release is forgotten.
LEMMA ReleasesKept ==
  ASSUME UNCHANGED heads
  PROVE  Releases' = Releases /\ Release' = Release /\ Journal' = Journal
<1>1. Releases' = Releases
  BY DEF Releases
<1>2. Release' = Release
  BY <1>1 DEF Release
<1>3. Journal' = Journal
  BY <1>1, <1>2 DEF Journal
<1> QED BY <1>1, <1>2, <1>3

LEMMA Typed ==
  ASSUME ControllerTypeOK
  PROVE  /\ Releases = 1 .. Len(heads) /\ Len(heads) \in Nat /\ MaxSchema \in Nat
         /\ \A r \in Releases : heads[r] \in 1 .. MaxSchema
         /\ link \in Release /\ running \in Release /\ Release = Releases \cup {0}
         /\ units \in [UnitFiles -> Release] /\ UnitFiles = {"controller", "backup"}
         /\ active \in BOOLEAN /\ rebooted \in BOOLEAN
         /\ journal # NoJournal =>
              /\ journal.op \in {"install", "upgrade", "rollback"} /\ journal.phase \in Phases
              /\ journal.previous \in Release /\ journal.candidate \in Releases
              /\ journal.units \in [UnitFiles -> Release] /\ journal.timer \in BOOLEAN
              /\ journal.op = "install" <=> journal.previous = 0
              /\ journal.previous # journal.candidate
              /\ Target \in {journal.previous, journal.candidate} /\ Target \in Release
<1>1. /\ Releases = 1 .. Len(heads) /\ Len(heads) \in Nat /\ MaxSchema \in Nat
      /\ \A r \in Releases : heads[r] \in 1 .. MaxSchema
  BY HostAssumption DEF ControllerTypeOK, Releases
<1>2. /\ link \in Release /\ running \in Release
      /\ units \in [UnitFiles -> Release] /\ UnitFiles = {"controller", "backup"}
      /\ active \in BOOLEAN /\ rebooted \in BOOLEAN
  BY DEF ControllerTypeOK, UnitFiles
<1>3. ASSUME journal # NoJournal
      PROVE  /\ journal.op \in {"install", "upgrade", "rollback"} /\ journal.phase \in Phases
             /\ journal.previous \in Release /\ journal.candidate \in Releases
             /\ journal.units \in [UnitFiles -> Release] /\ journal.timer \in BOOLEAN
             /\ journal.op = "install" <=> journal.previous = 0
             /\ journal.previous # journal.candidate
             /\ Target \in {journal.previous, journal.candidate} /\ Target \in Release
  <2>1. journal \in Journal /\ Valid(journal)
    BY <1>3 DEF ControllerTypeOK
  <2>2. /\ journal.op \in {"install", "upgrade", "rollback"} /\ journal.phase \in Phases
        /\ journal.previous \in Release /\ journal.candidate \in Releases
        /\ journal.units \in [UnitFiles -> Release] /\ journal.timer \in BOOLEAN
    BY <2>1 DEF Journal, Operations
  <2>3. /\ journal.op = "install" <=> journal.previous = 0
        /\ journal.previous # journal.candidate
    BY <2>1 DEF Valid
  <2>4. Target \in {journal.previous, journal.candidate}
    BY DEF Target
  <2> QED BY <2>2, <2>3, <2>4 DEF Release
<1> QED BY <1>1, <1>2, <1>3 DEF Release

\* What a step that leaves the journal alone has to show of the types.
LEMMA StepTyped ==
  ASSUME HInv, NEW step \in Steps \ (Terminal \cup {"clear"}), Takes(step), UNCHANGED journal,
         link' \in Release, running' \in Release, units' \in [UnitFiles -> Release],
         db' \in 0 .. MaxSchema, committed' \subseteq Releases, startup' \subseteq UnitFiles,
         active' \in BOOLEAN, rebooted' \in BOOLEAN
  PROVE  ControllerTypeOK'
<1>1. /\ script' # NoScript /\ journal # NoJournal
      /\ script' \in [todo : Seq(Steps), recovery : BOOLEAN] /\ script'.todo # <<>>
  BY StepWithin
<1>2. UNCHANGED heads /\ UNCHANGED breakdowns
  BY DEF Takes
<1>3. Releases' = Releases /\ Release' = Release /\ Journal' = Journal
  BY <1>2, ReleasesKept
<1>4. (heads \in Seq(1..MaxSchema) /\ Len(heads) <= MaxReleases /\ breakdowns \in 0..MaxBreakdowns)'
  BY <1>2 DEF HInv, ControllerTypeOK
<1>5. (journal # NoJournal => journal \in Journal /\ Valid(journal))'
  BY <1>1, <1>3 DEF HInv, ControllerTypeOK
<1>6. (script = NoScript)' = (script.todo = <<>>)'
  BY <1>1
<1> QED BY <1>1, <1>3, <1>4, <1>5, <1>6 DEF ControllerTypeOK

LEMMA WithinSteps ==
  {"check", "compatible", "ready", "unrelated", "unchanged", "hold", "stop", "migrate", "link", "start",
   "timers", "mark", "unmark", "quiet", "disable", "controller", "backup"}
     \subseteq Steps \ (Terminal \cup {"clear"})
BY StepNames DEF Terminal

LEMMA TestSafe ==
  ASSUME HInv, Test
  PROVE  HInv'
<1>1. PICK step \in {"check", "compatible", "ready", "unrelated", "unchanged"} :
         /\ Takes(step)
         /\ UNCHANGED <<diskVars, db, runVars, journal>>
  BY DEF Test
<1>2. step \in Steps \ (Terminal \cup {"clear"})
  BY WithinSteps
<1>3. /\ script # NoScript /\ script' # NoScript /\ journal # NoJournal
      /\ script'.recovery = script.recovery
      /\ Order(journal.op, script.recovery, step, Left')
      /\ Left = Left' \cup {step} /\ step \notin Left'
      /\ Unfinished /\ Unfinished' /\ OnPlan' /\ Whole' /\ Target' = Target
  BY <1>1, <1>2, StepWithin
<1>4. UNCHANGED <<heads, diskVars, db, runVars, journal>>
  BY <1>1 DEF Takes
<1>5. ControllerTypeOK'
  BY <1>1, <1>2, StepTyped, Typed DEF HInv, ControllerTypeOK
<1>6. Between' /\ Schema'
  BY <1>4 DEF HInv, Between, Schema
<1>7. Effects'
  <2>1. step = "compatible" => db = heads[Target]
    BY <1>1 DEF Takes, Passes, Phases, PHASE_TRANSITIONS
  <2>2. /\ \A f \in UnitFiles : f \notin Left => units[f] = Target
        /\ "link" \notin Left => link = Target
        /\ {"migrate", "compatible"} \cap Left = {} => Target = 0 \/ db = heads[Target]
        /\ {"stop", "quiet"} \cap Left = {} => running = IF "start" \in Left THEN 0 ELSE Target
    BY <1>3 DEF HInv, Effects
  <2>3. \A f \in UnitFiles : f \notin Left' => units[f] = Target
    BY <1>3, <2>2 DEF UnitFiles
  <2>4. "link" \notin Left' => link = Target
    BY <1>3, <2>2
  <2>5. {"migrate", "compatible"} \cap Left' = {} => Target = 0 \/ db = heads[Target]
    BY <1>3, <2>1, <2>2
  <2>6. {"stop", "quiet"} \cap Left' = {} => running = IF "start" \in Left' THEN 0 ELSE Target
    BY <1>3, <2>2
  <2> QED BY <1>3, <1>4, <2>3, <2>4, <2>5, <2>6 DEF Effects
<1>8. Promises'
  BY <1>3, <1>4 DEF HInv, Promises
<1> QED BY <1>3, <1>5, <1>6, <1>7, <1>8 DEF HInv

LEMMA HoldSafe ==
  ASSUME HInv, Hold
  PROVE  HInv'
<1>1. Takes("hold") /\ "hold" \in Steps \ (Terminal \cup {"clear"})
  BY WithinSteps DEF Hold
<1>2. /\ script # NoScript /\ script' # NoScript /\ journal # NoJournal
      /\ script'.recovery = script.recovery /\ script.recovery \in BOOLEAN
      /\ Order(journal.op, script.recovery, "hold", Left')
      /\ Left = Left' \cup {"hold"} /\ "hold" \notin Left'
      /\ Unfinished /\ Unfinished' /\ OnPlan' /\ Whole' /\ Target' = Target
  BY <1>1, StepWithin DEF Hold
<1>3. /\ active' = (active /\ ~journal.timer)
      /\ UNCHANGED <<heads, diskVars, db, running, startup, rebooted, journal>>
  BY DEF Hold, Takes
<1>4. ControllerTypeOK'
  BY <1>1, <1>2, <1>3, StepTyped, Typed DEF HInv, ControllerTypeOK
<1>5. Between'
  BY <1>2, <1>3, Typed DEF HInv, Between
<1>6. Schema'
  BY <1>2, <1>3, Typed DEF HInv, Schema
<1>7. Effects'
  BY <1>2, <1>3, Typed DEF HInv, Effects, Order
<1>8. Promises'
  BY <1>2, <1>3, Typed DEF HInv, Promises, Order
<1> QED BY <1>2, <1>4, <1>5, <1>6, <1>7, <1>8 DEF HInv

LEMMA StopSafe ==
  ASSUME HInv, Stop
  PROVE  HInv'
<1>1. Takes("stop") /\ "stop" \in Steps \ (Terminal \cup {"clear"})
  BY WithinSteps DEF Stop
<1>2. /\ script # NoScript /\ script' # NoScript /\ journal # NoJournal
      /\ script'.recovery = script.recovery /\ script.recovery \in BOOLEAN
      /\ Order(journal.op, script.recovery, "stop", Left')
      /\ Left = Left' \cup {"stop"} /\ "stop" \notin Left'
      /\ Unfinished /\ Unfinished' /\ OnPlan' /\ Whole' /\ Target' = Target
  BY <1>1, StepWithin DEF Stop
<1>3. /\ running' = 0 /\ rebooted' = FALSE
      /\ UNCHANGED <<heads, diskVars, db, active, startup, journal>>
  BY DEF Stop, Takes
<1>4. ControllerTypeOK'
  BY <1>1, <1>2, <1>3, StepTyped, Typed DEF HInv, ControllerTypeOK
<1>5. Between'
  BY <1>2, <1>3, Typed DEF HInv, Between
<1>6. Schema'
  BY <1>2, <1>3, Typed DEF HInv, Schema
<1>7. Effects'
  BY <1>2, <1>3, Typed DEF HInv, Effects, Order
<1>8. Promises'
  BY <1>2, <1>3, Typed DEF HInv, Promises, Order
<1> QED BY <1>2, <1>4, <1>5, <1>6, <1>7, <1>8 DEF HInv

LEMMA MigrateSafe ==
  ASSUME HInv, Migrate
  PROVE  HInv'
<1>1. Takes("migrate") /\ "migrate" \in Steps \ (Terminal \cup {"clear"})
  BY WithinSteps DEF Migrate
<1>2. /\ script # NoScript /\ script' # NoScript /\ journal # NoJournal
      /\ script'.recovery = script.recovery /\ script.recovery \in BOOLEAN
      /\ Order(journal.op, script.recovery, "migrate", Left')
      /\ Left = Left' \cup {"migrate"} /\ "migrate" \notin Left'
      /\ Unfinished /\ Unfinished' /\ OnPlan' /\ Whole' /\ Target' = Target
  BY <1>1, StepWithin DEF Migrate
<1>3. /\ db' = heads[Target]
      /\ UNCHANGED <<heads, diskVars, runVars, journal>>
  BY DEF Migrate, Takes
<1>4. ControllerTypeOK'
  <2>1. Target = journal.candidate
    BY <1>2 DEF Order, Target
  <2>2. db' \in 0 .. MaxSchema
    BY <1>2, <1>3, <2>1, Typed DEF HInv
  <2> QED BY <1>1, <1>3, <2>2, StepTyped, Typed DEF HInv, ControllerTypeOK
<1>5. Between'
  BY <1>2, <1>3, Typed DEF HInv, Between
<1>6. Schema'
  <2>1. "start" \in Left' /\ {"stop", "quiet"} \cap Left' = {}
    BY <1>2 DEF Order
  <2>2. "start" \in Left /\ {"stop", "quiet"} \cap Left = {}
    BY <1>2, <2>1
  <2>3. running = 0
    BY <1>2, <2>2 DEF HInv, Effects
  <2> QED BY <1>3, <2>3 DEF Schema
<1>7. Effects'
  BY <1>2, <1>3, Typed DEF HInv, Effects, Order
<1>8. Promises'
  BY <1>2, <1>3, Typed DEF HInv, Promises, Order
<1> QED BY <1>2, <1>4, <1>5, <1>6, <1>7, <1>8 DEF HInv

LEMMA SwitchSafe ==
  ASSUME HInv, SwitchCurrent
  PROVE  HInv'
<1>1. Takes("link") /\ "link" \in Steps \ (Terminal \cup {"clear"})
  BY WithinSteps DEF SwitchCurrent
<1>2. /\ script # NoScript /\ script' # NoScript /\ journal # NoJournal
      /\ script'.recovery = script.recovery /\ script.recovery \in BOOLEAN
      /\ Order(journal.op, script.recovery, "link", Left')
      /\ Left = Left' \cup {"link"} /\ "link" \notin Left'
      /\ Unfinished /\ Unfinished' /\ OnPlan' /\ Whole' /\ Target' = Target
  BY <1>1, StepWithin DEF SwitchCurrent
<1>3. /\ link' = Target
      /\ UNCHANGED <<heads, units, committed, db, runVars, journal>>
  BY DEF SwitchCurrent, Takes
<1>4. ControllerTypeOK'
  BY <1>1, <1>2, <1>3, StepTyped, Typed DEF HInv, ControllerTypeOK
<1>5. Between'
  BY <1>2, <1>3, Typed DEF HInv, Between
<1>6. Schema'
  BY <1>2, <1>3, Typed DEF HInv, Schema
<1>7. Effects'
  BY <1>2, <1>3, Typed DEF HInv, Effects, Order
<1>8. Promises'
  BY <1>2, <1>3, Typed DEF HInv, Promises, Order
<1> QED BY <1>2, <1>4, <1>5, <1>6, <1>7, <1>8 DEF HInv

LEMMA StartSafe ==
  ASSUME HInv, Start
  PROVE  HInv'
<1>1. Takes("start") /\ "start" \in Steps \ (Terminal \cup {"clear"})
  BY WithinSteps DEF Start
<1>2. /\ script # NoScript /\ script' # NoScript /\ journal # NoJournal
      /\ script'.recovery = script.recovery /\ script.recovery \in BOOLEAN
      /\ Order(journal.op, script.recovery, "start", Left')
      /\ Left = Left' \cup {"start"} /\ "start" \notin Left'
      /\ Unfinished /\ Unfinished' /\ OnPlan' /\ Whole' /\ Target' = Target
  BY <1>1, StepWithin DEF Start
<1>3. /\ running' = link /\ rebooted' = FALSE
      /\ startup' = IF journal.op = "install" THEN startup \union {"controller"} ELSE startup
      /\ UNCHANGED <<heads, diskVars, db, active, journal>>
  BY DEF Start, Takes
<1>4. ControllerTypeOK'
  BY <1>1, <1>2, <1>3, StepTyped, Typed DEF HInv, ControllerTypeOK
<1>5. Between'
  BY <1>2, <1>3, Typed DEF HInv, Between
<1>6. Schema'
  <2>1. Left' \cap {"link", "migrate", "compatible"} = {}
    BY <1>2 DEF Order
  <2>2. "link" \notin Left /\ {"migrate", "compatible"} \cap Left = {}
    BY <1>2, <2>1
  <2>3. link = Target /\ (Target = 0 \/ db = heads[Target])
    BY <1>2, <2>2 DEF HInv, Effects
  <2> QED BY <1>3, <2>3 DEF Schema
<1>7. Effects'
  BY <1>2, <1>3, Typed DEF HInv, Effects, Order
<1>8. Promises'
  BY <1>2, <1>3, Typed DEF HInv, Promises, Order
<1> QED BY <1>2, <1>4, <1>5, <1>6, <1>7, <1>8 DEF HInv

LEMMA TimersSafe ==
  ASSUME HInv, Timers
  PROVE  HInv'
<1>1. Takes("timers") /\ "timers" \in Steps \ (Terminal \cup {"clear"})
  BY WithinSteps DEF Timers, TimersWanted
<1>2. /\ script # NoScript /\ script' # NoScript /\ journal # NoJournal
      /\ script'.recovery = script.recovery /\ script.recovery \in BOOLEAN
      /\ Order(journal.op, script.recovery, "timers", Left')
      /\ Left = Left' \cup {"timers"} /\ "timers" \notin Left'
      /\ Unfinished /\ Unfinished' /\ OnPlan' /\ Whole' /\ Target' = Target
  BY <1>1, StepWithin DEF Timers, TimersWanted
<1>3. /\ active' = ((journal.op = "install" \/ journal.timer) \/ (active /\ ~script.recovery))
      /\ startup' = IF journal.op = "install" \/ journal.timer THEN startup \union {"backup"}
                    ELSE startup
      /\ UNCHANGED <<heads, diskVars, db, running, rebooted, journal>>
  BY DEF Timers, TimersWanted, Takes
<1>4. ControllerTypeOK'
  BY <1>1, <1>2, <1>3, StepTyped, Typed DEF HInv, ControllerTypeOK
<1>5. Between'
  BY <1>2, <1>3, Typed DEF HInv, Between
<1>6. Schema'
  BY <1>2, <1>3, Typed DEF HInv, Schema
<1>7. Effects'
  BY <1>2, <1>3, Typed DEF HInv, Effects, Order
<1>8. Promises'
  BY <1>2, <1>3, Typed DEF HInv, Promises, Order
<1> QED BY <1>2, <1>4, <1>5, <1>6, <1>7, <1>8 DEF HInv

LEMMA WriteMarkerSafe ==
  ASSUME HInv, WriteMarker
  PROVE  HInv'
<1>1. Takes("mark") /\ "mark" \in Steps \ (Terminal \cup {"clear"})
  BY WithinSteps DEF WriteMarker
<1>2. /\ script # NoScript /\ script' # NoScript /\ journal # NoJournal
      /\ script'.recovery = script.recovery /\ script.recovery \in BOOLEAN
      /\ Order(journal.op, script.recovery, "mark", Left')
      /\ Left = Left' \cup {"mark"} /\ "mark" \notin Left'
      /\ Unfinished /\ Unfinished' /\ OnPlan' /\ Whole' /\ Target' = Target
  BY <1>1, StepWithin DEF WriteMarker
<1>3. /\ committed' = committed \union {journal.candidate}
      /\ UNCHANGED <<heads, link, units, db, runVars, journal>>
  BY DEF WriteMarker, Takes
<1>4. ControllerTypeOK'
  BY <1>1, <1>2, <1>3, StepTyped, Typed DEF HInv, ControllerTypeOK
<1>5. Between'
  BY <1>2, <1>3, Typed DEF HInv, Between
<1>6. Schema'
  BY <1>2, <1>3, Typed DEF HInv, Schema
<1>7. Effects'
  BY <1>2, <1>3, Typed DEF HInv, Effects, Order
<1>8. Promises'
  BY <1>2, <1>3, Typed DEF HInv, Promises, Order
<1> QED BY <1>2, <1>4, <1>5, <1>6, <1>7, <1>8 DEF HInv

LEMMA RemoveMarkerSafe ==
  ASSUME HInv, RemoveMarker
  PROVE  HInv'
<1>1. Takes("unmark") /\ "unmark" \in Steps \ (Terminal \cup {"clear"})
  BY WithinSteps DEF RemoveMarker
<1>2. /\ script # NoScript /\ script' # NoScript /\ journal # NoJournal
      /\ script'.recovery = script.recovery /\ script.recovery \in BOOLEAN
      /\ Order(journal.op, script.recovery, "unmark", Left')
      /\ Left = Left' \cup {"unmark"} /\ "unmark" \notin Left'
      /\ Unfinished /\ Unfinished' /\ OnPlan' /\ Whole' /\ Target' = Target
  BY <1>1, StepWithin DEF RemoveMarker
<1>3. /\ committed' = committed \ {journal.candidate}
      /\ UNCHANGED <<heads, link, units, db, runVars, journal>>
  BY DEF RemoveMarker, Takes
<1>4. ControllerTypeOK'
  BY <1>1, <1>2, <1>3, StepTyped, Typed DEF HInv, ControllerTypeOK
<1>5. Between'
  BY <1>2, <1>3, Typed DEF HInv, Between
<1>6. Schema'
  BY <1>2, <1>3, Typed DEF HInv, Schema
<1>7. Effects'
  BY <1>2, <1>3, Typed DEF HInv, Effects, Order
<1>8. Promises'
  BY <1>2, <1>3, Typed DEF HInv, Promises, Order
<1> QED BY <1>2, <1>4, <1>5, <1>6, <1>7, <1>8 DEF HInv

LEMMA QuietSafe ==
  ASSUME HInv, Quiet
  PROVE  HInv'
<1>1. Takes("quiet") /\ "quiet" \in Steps \ (Terminal \cup {"clear"})
  BY WithinSteps DEF Quiet, StopRuntime
<1>2. /\ script # NoScript /\ script' # NoScript /\ journal # NoJournal
      /\ script'.recovery = script.recovery /\ script.recovery \in BOOLEAN
      /\ Order(journal.op, script.recovery, "quiet", Left')
      /\ Left = Left' \cup {"quiet"} /\ "quiet" \notin Left'
      /\ Unfinished /\ Unfinished' /\ OnPlan' /\ Whole' /\ Target' = Target
  BY <1>1, StepWithin DEF Quiet, StopRuntime
<1>3. /\ running' = 0 /\ active' = FALSE /\ rebooted' = FALSE
      /\ UNCHANGED <<heads, diskVars, db, startup, journal>>
  BY DEF Quiet, StopRuntime, Takes
<1>4. ControllerTypeOK'
  BY <1>1, <1>2, <1>3, StepTyped, Typed DEF HInv, ControllerTypeOK
<1>5. Between'
  BY <1>2, <1>3, Typed DEF HInv, Between
<1>6. Schema'
  BY <1>2, <1>3, Typed DEF HInv, Schema
<1>7. Effects'
  <2>1. running' = IF "start" \in Left' THEN 0 ELSE Target
    <3>1. "start" \in Left' \/ (journal.op = "install" /\ script.recovery)
      BY <1>2 DEF Order
    <3>2. journal.op = "install" /\ script.recovery => Target = 0
      BY <1>2, Typed DEF HInv, Target
    <3> QED BY <1>3, <3>1, <3>2
  <2>2. \A f \in UnitFiles : f \notin Left' => units[f] = Target
    BY <1>2 DEF HInv, Effects, UnitFiles
  <2>3. "link" \notin Left' => link = Target
    BY <1>2 DEF HInv, Effects
  <2>4. {"migrate", "compatible"} \cap Left' = {} => Target = 0 \/ db = heads[Target]
    BY <1>2 DEF HInv, Effects
  <2> QED BY <1>2, <1>3, <2>1, <2>2, <2>3, <2>4 DEF Effects
<1>8. Promises'
  BY <1>2, <1>3, Typed DEF HInv, Promises, Order
<1> QED BY <1>2, <1>4, <1>5, <1>6, <1>7, <1>8 DEF HInv

LEMMA DisableSafe ==
  ASSUME HInv, Disable
  PROVE  HInv'
<1>1. Takes("disable") /\ "disable" \in Steps \ (Terminal \cup {"clear"})
  BY WithinSteps DEF Disable
<1>2. /\ script # NoScript /\ script' # NoScript /\ journal # NoJournal
      /\ script'.recovery = script.recovery /\ script.recovery \in BOOLEAN
      /\ Order(journal.op, script.recovery, "disable", Left')
      /\ Left = Left' \cup {"disable"} /\ "disable" \notin Left'
      /\ Unfinished /\ Unfinished' /\ OnPlan' /\ Whole' /\ Target' = Target
  BY <1>1, StepWithin DEF Disable
<1>3. /\ startup' = {}
      /\ UNCHANGED <<heads, diskVars, db, running, active, rebooted, journal>>
  BY DEF Disable, Takes
<1>4. ControllerTypeOK'
  BY <1>1, <1>2, <1>3, StepTyped, Typed DEF HInv, ControllerTypeOK
<1>5. Between'
  BY <1>2, <1>3, Typed DEF HInv, Between
<1>6. Schema'
  BY <1>2, <1>3, Typed DEF HInv, Schema
<1>7. Effects'
  BY <1>2, <1>3, Typed DEF HInv, Effects, Order
<1>8. Promises'
  BY <1>2, <1>3, Typed DEF HInv, Promises, Order
<1> QED BY <1>2, <1>4, <1>5, <1>6, <1>7, <1>8 DEF HInv

LEMMA DeploySafe ==
  ASSUME HInv, NEW file \in UnitFiles, Deploy(file)
  PROVE  HInv'
<1>1. Takes(file) /\ file \in Steps \ (Terminal \cup {"clear"})
  BY WithinSteps DEF Deploy, UnitFiles
<1>2. /\ script # NoScript /\ script' # NoScript /\ journal # NoJournal
      /\ script'.recovery = script.recovery /\ script.recovery \in BOOLEAN
      /\ Order(journal.op, script.recovery, file, Left')
      /\ Left = Left' \cup {file} /\ file \notin Left'
      /\ Unfinished /\ Unfinished' /\ OnPlan' /\ Whole' /\ Target' = Target
  BY <1>1, StepWithin DEF Deploy
<1>3. /\ units' = [units EXCEPT ![file] = Target]
      /\ UNCHANGED <<heads, link, committed, db, runVars, journal>>
  BY <1>2 DEF Deploy, Takes, HInv, Between, Target
<1>4. ControllerTypeOK'
  <2>1. units' \in [UnitFiles -> Release]
    BY <1>2, <1>3, Typed DEF HInv
  <2> QED BY <1>1, <1>3, <2>1, StepTyped, Typed DEF HInv, ControllerTypeOK
<1>5. Between'
  BY <1>2, <1>3, Typed DEF HInv, Between
<1>6. Schema'
  BY <1>3 DEF HInv, Schema
<1>7. Effects'
  <2>1. \A f \in UnitFiles : f \notin Left' => units'[f] = Target
    BY <1>2, <1>3, Typed DEF HInv, Effects
  <2>2. "link" \notin Left' => link = Target
    BY <1>2 DEF HInv, Effects, UnitFiles
  <2>3. {"migrate", "compatible"} \cap Left' = {} => Target = 0 \/ db = heads[Target]
    BY <1>2 DEF HInv, Effects, UnitFiles
  <2>4. {"stop", "quiet"} \cap Left' = {} => running = IF "start" \in Left' THEN 0 ELSE Target
    BY <1>2 DEF HInv, Effects, UnitFiles
  <2> QED BY <1>2, <1>3, <2>1, <2>2, <2>3, <2>4 DEF Effects
<1>8. Promises'
  BY <1>2, <1>3 DEF HInv, Promises, UnitFiles
<1> QED BY <1>2, <1>4, <1>5, <1>6, <1>7, <1>8 DEF HInv

\* A phase is recorded within a transaction only.
LEMMA PhaseAllowed ==
  ASSUME NEW phase \in Phases, Takes(phase)
  PROVE  CanUpdate(journal, phase) /\ journal.phase \notin Terminal
<1>1. phase \notin {"clear", "check", "migrate", "compatible", "ready", "unrelated", "unchanged"}
  BY StepNames
<1>2. CanUpdate(journal, phase)
  BY <1>1 DEF Takes, Passes
<1>3. journal.phase \in Terminal => PHASE_TRANSITIONS[journal.phase] = {}
  BY DEF Terminal, PHASE_TRANSITIONS
<1> QED BY <1>2, <1>3 DEF CanUpdate

\* The last phase is recorded when everything but the journal is in place.
LEMMA AtTheEnd ==
  ASSUME HInv, NEW phase \in Terminal, Record(phase)
  PROVE  /\ Unfinished /\ journal # NoJournal
         /\ phase = Ending(journal.op, script.recovery)
         /\ script.recovery \in BOOLEAN
         /\ \A f \in UnitFiles : units[f] = Target
         /\ link = Target /\ running = Target
         /\ Target = 0 \/ db = heads[Target]
         /\ IF script.recovery
              THEN /\ active = (journal.op # "install" /\ journal.timer)
                   /\ journal.op = "install" => startup = {} /\ journal.candidate \notin committed
              ELSE /\ active = (journal.op = "install" \/ journal.timer)
                   /\ journal.candidate \in committed
<1>1. phase \in Phases /\ phase \in Steps \ {"clear"} /\ Takes(phase)
  BY StepNames DEF Terminal, Record
<1>2. /\ script # NoScript /\ journal # NoJournal /\ script.recovery \in BOOLEAN
      /\ Order(journal.op, script.recovery, phase, Left')
      /\ Left = Left' \cup {phase}
  BY <1>1, StepTaken
<1>3. Left \subseteq {phase, "clear"} /\ phase = Ending(journal.op, script.recovery)
  BY <1>2 DEF Order
<1>4. Unfinished
  BY <1>1, <1>2, PhaseAllowed DEF Unfinished
<1>5. Left \cap {"controller", "backup", "link", "migrate", "compatible", "stop", "quiet", "start",
                 "timers", "hold", "disable", "unmark", "mark"} = {}
  BY <1>3 DEF Terminal
<1>6. /\ \A f \in UnitFiles : units[f] = Target
      /\ link = Target /\ running = Target
      /\ Target = 0 \/ db = heads[Target]
  BY <1>2, <1>4, <1>5 DEF HInv, Effects, UnitFiles
<1>7. IF script.recovery
        THEN /\ active = (journal.op # "install" /\ journal.timer)
             /\ journal.op = "install" => startup = {} /\ journal.candidate \notin committed
        ELSE /\ active = (journal.op = "install" \/ journal.timer)
             /\ journal.candidate \in committed
  BY <1>2, <1>4, <1>5 DEF HInv, Promises
<1> QED BY <1>2, <1>3, <1>4, <1>6, <1>7

LEMMA RecordSafe ==
  ASSUME HInv, NEW phase \in Phases, Record(phase)
  PROVE  HInv'
<1>1. Takes(phase) /\ phase \in Steps \ {"clear"}
  BY StepNames DEF Record
<1>2. /\ script # NoScript /\ script' # NoScript /\ journal # NoJournal
      /\ script' \in [todo : Seq(Steps), recovery : BOOLEAN] /\ script'.todo # <<>>
      /\ script'.recovery = script.recovery /\ script.recovery \in BOOLEAN
      /\ Ordered(journal.op, script'.recovery, script'.todo)
      /\ Order(journal.op, script.recovery, phase, Left')
      /\ Left = Left' \cup {phase} /\ phase \notin Left'
  BY <1>1, StepTaken
<1>3. UNCHANGED <<heads, diskVars, db, runVars, breakdowns>>
  BY DEF Record, Takes
<1>4. journal \in Journal /\ journal' = [journal EXCEPT !.phase = phase]
  BY <1>2 DEF Record, Updated, HInv, ControllerTypeOK
<1>5. /\ journal' \in Journal /\ journal'.phase = phase /\ journal'.op = journal.op
      /\ journal'.previous = journal.previous /\ journal'.candidate = journal.candidate
      /\ journal'.units = journal.units /\ journal'.timer = journal.timer
  BY <1>4 DEF Journal
<1>6. journal' # NoJournal /\ Valid(journal')
  <2>1. Valid(Updated(journal, phase))
    BY <1>1, PhaseAllowed DEF CanUpdate
  <2>2. journal'.op # "none"
    BY <1>5 DEF Journal, Operations
  <2> QED BY <1>4, <2>1, <2>2 DEF Updated, NoJournal
<1>7. Unfinished /\ (Unfinished' <=> phase \notin Terminal)
  BY <1>1, <1>2, <1>5, <1>6, PhaseAllowed DEF Unfinished
<1>8. ControllerTypeOK'
  <2>1. Releases' = Releases /\ Release' = Release /\ Journal' = Journal
    BY <1>3, ReleasesKept
  <2>2. (/\ heads \in Seq(1..MaxSchema) /\ Len(heads) <= MaxReleases
         /\ {link, running} \subseteq Release
         /\ units \in [UnitFiles -> Release]
         /\ db \in 0..MaxSchema /\ committed \subseteq Releases
         /\ startup \subseteq UnitFiles
         /\ {active, rebooted} \subseteq BOOLEAN
         /\ breakdowns \in 0..MaxBreakdowns)'
    BY <1>3, <2>1 DEF HInv, ControllerTypeOK
  <2>3. (script = NoScript)' = (script.todo = <<>>)'
    BY <1>2
  <2> QED BY <1>2, <1>5, <1>6, <2>1, <2>2, <2>3 DEF ControllerTypeOK
<1>9. OnPlan'
  <2>1. Ordered(journal.op, script.recovery, script.todo)'
    BY <1>2, <1>5 DEF Ordered, Ahead
  <2>2. (Unfinished <=> Left \cap Terminal # {})'
    BY <1>2, <1>7 DEF Order, Terminal
  <2> QED BY <2>1, <2>2 DEF OnPlan
<1>10. Between'
  BY <1>2, <1>3, <1>5 DEF HInv, Between
<1>11. Schema'
  BY <1>3 DEF HInv, Schema
<1>12. Target' = Target
  BY <1>2, <1>5 DEF Target
<1>13. phase \notin {"controller", "backup", "link", "migrate", "compatible", "stop", "quiet",
                     "start", "timers", "hold", "disable", "unmark", "mark"}
  BY StepNames
<1>14. Effects'
  <2>1. \A f \in UnitFiles : f \notin Left' => units[f] = Target
    BY <1>2, <1>7, <1>13 DEF HInv, Effects, UnitFiles
  <2>2. "link" \notin Left' => link = Target
    BY <1>2, <1>7, <1>13 DEF HInv, Effects
  <2>3. {"migrate", "compatible"} \cap Left' = {} => Target = 0 \/ db = heads[Target]
    BY <1>2, <1>7, <1>13 DEF HInv, Effects
  <2>4. {"stop", "quiet"} \cap Left' = {} => running = IF "start" \in Left' THEN 0 ELSE Target
    BY <1>2, <1>7, <1>13 DEF HInv, Effects
  <2> QED BY <1>2, <1>3, <1>12, <2>1, <2>2, <2>3, <2>4 DEF Effects
<1>15. Promises'
  BY <1>2, <1>3, <1>5, <1>7, <1>13 DEF HInv, Promises
<1>16. Whole'
  <2>1. CASE phase \in Terminal
    <3>1. /\ \A f \in UnitFiles : units[f] = link
          /\ link # 0 => db = heads[link]
          /\ running = link
      BY <2>1, AtTheEnd
    <3> QED BY <1>3, <3>1 DEF Whole
  <2>2. CASE phase \notin Terminal
    BY <1>7, <2>2 DEF Whole
  <2> QED BY <2>1, <2>2
<1> QED BY <1>8, <1>9, <1>10, <1>11, <1>14, <1>15, <1>16 DEF HInv

-----------------------------------------------------------------------------
(* How a script begins and how it stops.                                     *)

\* A transaction begins on a host that is one release, and has everything to do.
LEMMA BeginSafe ==
  ASSUME HInv, NEW op \in Operations, NEW candidate, NEW plan \in Seq(Steps),
         Begin(op, link, candidate, plan),
         heads' \in Seq(1 .. MaxSchema), Len(heads') <= MaxReleases,
         Releases \subseteq Releases', candidate \in Releases',
         \A r \in Releases : heads'[r] = heads[r],
         Ordered(op, FALSE, plan),
         {"controller", "backup", "link", "timers", "committed"} \subseteq Ahead(plan, 1),
         "migrate" \in Ahead(plan, 1) \/ "compatible" \in Ahead(plan, 1),
         "mark" \in Ahead(plan, 1) \/ candidate \in committed,
         IF op = "install" THEN running = 0 /\ "start" \in Ahead(plan, 1)
                           ELSE {"stop", "hold"} \subseteq Ahead(plan, 1)
  PROVE  HInv'
<1>1. /\ script = NoScript /\ journal = NoJournal
      /\ journal' = [op |-> op, phase |-> "initialized", previous |-> link,
                     candidate |-> candidate, units |-> units, timer |-> active]
      /\ Valid(journal') /\ script' = [todo |-> plan, recovery |-> FALSE]
      /\ UNCHANGED <<diskVars, db, runVars, breakdowns>>
  BY DEF Begin, CanInitialize, Created
<1>2. /\ journal'.op = op /\ journal'.phase = "initialized" /\ journal'.previous = link
      /\ journal'.candidate = candidate /\ journal'.units = units /\ journal'.timer = active
      /\ script'.todo = plan /\ script'.recovery = FALSE
  BY <1>1
<1>3. journal' # NoJournal
  <2>1. op # "none"
    BY DEF Operations
  <2> QED BY <1>2, <2>1 DEF NoJournal
<1>4. plan # <<>>
  BY DEF Ordered
<1>5. script' # NoScript
  <2>1. NoScript.todo = <<>>
    BY DEF NoScript
  <2> QED BY <1>2, <1>4, <2>1, Zenon
<1>6. Unfinished'
  BY <1>2, <1>3 DEF Unfinished, Terminal
<1>7. Release' = Releases' \cup {0} /\ Release \subseteq Release'
  BY DEF Release
<1>8. ControllerTypeOK'
  <2>1. journal' \in Journal'
    <3>1. units \in [UnitFiles -> Release'] /\ link \in Release' /\ active \in BOOLEAN
      BY <1>7, Typed DEF HInv
    <3>2. "initialized" \in Phases
      BY StepNames
    <3> QED BY <1>1, <3>1, <3>2 DEF Journal
  <2>2. (/\ {link, running} \subseteq Release
         /\ units \in [UnitFiles -> Release]
         /\ committed \subseteq Releases)'
    BY <1>1, <1>7, Typed DEF HInv, ControllerTypeOK
  <2>3. (/\ db \in 0..MaxSchema /\ startup \subseteq UnitFiles
         /\ {active, rebooted} \subseteq BOOLEAN /\ breakdowns \in 0..MaxBreakdowns)'
    BY <1>1 DEF HInv, ControllerTypeOK
  <2>4. script' \in [todo : Seq(Steps), recovery : BOOLEAN]
    BY <1>1
  <2>5. (script = NoScript)' = (script.todo = <<>>)'
    BY <1>2, <1>4, <1>5
  <2> QED BY <1>1, <1>3, <2>1, <2>2, <2>3, <2>4, <2>5 DEF ControllerTypeOK
<1>9. Left' = Ahead(plan, 1)
  BY <1>2 DEF Left, Ahead
<1>10. OnPlan'
  <2>1. Ordered(journal.op, script.recovery, script.todo)'
    <3>1. Ordered(journal'.op, script'.recovery, script'.todo)
      BY <1>2, Zenon
    <3> QED BY <3>1 DEF Ordered, Ahead
  <2>2. (Unfinished <=> Left \cap Terminal # {})'
    BY <1>6, <1>9 DEF Terminal
  <2> QED BY <2>1, <2>2 DEF OnPlan
<1>11. Between'
  <2>1. \A f \in UnitFiles : units[f] = link
    BY <1>1 DEF HInv, Whole, Unfinished
  <2> QED BY <1>1, <1>2, <2>1 DEF Between
<1>12. Effects'
  BY <1>1, <1>2, <1>9, Typed DEF HInv, Effects, UnitFiles
<1>13. Promises'
  BY <1>1, <1>2, <1>9, Typed DEF HInv, Promises
<1>14. Whole'
  BY <1>6 DEF Whole
<1>15. Schema'
  BY <1>1, Typed DEF HInv, Schema
<1> QED BY <1>8, <1>10, <1>11, <1>12, <1>13, <1>14, <1>15 DEF HInv

\* A release that is built changes nothing about the others.
LEMMA BuiltOne ==
  ASSUME ControllerTypeOK, NEW revision \in 1 .. MaxSchema, Built(revision)
  PROVE  /\ heads' \in Seq(1 .. MaxSchema) /\ Len(heads') <= MaxReleases
         /\ Releases \subseteq Releases' /\ Len(heads) + 1 \in Releases'
         /\ \A r \in Releases : heads'[r] = heads[r]
<1>1. heads \in Seq(1 .. MaxSchema) /\ Len(heads) \in Nat /\ Len(heads) < MaxReleases
  BY DEF ControllerTypeOK, Built
<1>2. /\ heads' \in Seq(1 .. MaxSchema) /\ Len(heads') = Len(heads) + 1
      /\ \A r \in 1 .. Len(heads) : heads'[r] = heads[r]
  BY <1>1 DEF Built
<1> QED BY <1>1, <1>2, HostAssumption DEF Releases

LEMMA StartInstallSafe ==
  ASSUME HInv, NEW revision \in 1 .. MaxSchema, StartInstall(revision)
  PROVE  HInv'
<1>1. /\ link = 0 /\ Built(revision) /\ ControllerTypeOK
      /\ Begin("install", link, Len(heads) + 1, InstallPlan)
  BY DEF StartInstall, HInv
<1>2. running = 0
  BY <1>1 DEF Begin, CanInitialize, HInv, Whole, Unfinished
<1>3. "install" \in Operations
  BY DEF Operations
<1> QED BY <1>1, <1>2, <1>3, BuiltOne, BeginSafe, InstallOrdered

LEMMA StartUpgradeSafe ==
  ASSUME HInv, NEW revision \in 1 .. MaxSchema, StartUpgrade(revision)
  PROVE  HInv'
<1>1. /\ Built(revision) /\ ControllerTypeOK
      /\ Begin("upgrade", link, Len(heads) + 1, UpgradePlan)
  BY DEF StartUpgrade, HInv
<1>2. "upgrade" \in Operations
  BY DEF Operations
<1> QED BY <1>1, <1>2, BuiltOne, BeginSafe, UpgradeOrdered

LEMMA StartRollbackSafe ==
  ASSUME HInv, NEW release \in Releases, StartRollback(release)
  PROVE  HInv'
<1>1. /\ UNCHANGED heads /\ release \in committed
      /\ Begin("rollback", link, release, RollbackPlan)
  BY DEF StartRollback
<1>2. "rollback" \in Operations
  BY DEF Operations
<1>3. heads' \in Seq(1 .. MaxSchema) /\ Len(heads') <= MaxReleases
  BY <1>1 DEF HInv, ControllerTypeOK
<1> QED BY <1>1, <1>2, <1>3, ReleasesKept, BeginSafe, RollbackOrdered

\* The journal is there and a recovery takes over.
LEMMA RecoverySafe ==
  ASSUME HInv, journal # NoJournal, script' = Recovery, breakdowns' \in 0 .. MaxBreakdowns,
         UNCHANGED <<heads, diskVars, db, runVars, journal>>
  PROVE  HInv'
<1>1. /\ RecoveryPlan \in Seq(Steps) /\ Ordered(journal.op, TRUE, RecoveryPlan)
      /\ Unfinished <=> Ahead(RecoveryPlan, 1) \cap Terminal # {}
      /\ Unfinished =>
           /\ {"quiet", "link", "controller", "backup"} \subseteq Ahead(RecoveryPlan, 1)
           /\ journal.op = "install" => {"disable", "unmark"} \subseteq Ahead(RecoveryPlan, 1)
           /\ journal.op # "install" => "compatible" \in Ahead(RecoveryPlan, 1)
  BY RecoveryOrdered DEF HInv
<1>2. RecoveryPlan # <<>>
  BY <1>1 DEF Ordered
<1> DEFINE plan == RecoveryPlan
<1>3. script' = [todo |-> plan, recovery |-> TRUE] /\ script'.todo = plan /\ script'.recovery = TRUE
  BY DEF Recovery
<1> HIDE DEF plan
<1>4. script' # NoScript
  BY <1>3 DEF NoScript
<1>5. Left' = Ahead(plan, 1)
  BY <1>3 DEF Left, Ahead
<1>6. Unfinished' <=> Unfinished
  BY DEF Unfinished
<1>7. ControllerTypeOK'
  <2>1. Releases' = Releases /\ Release' = Release /\ Journal' = Journal
    BY ReleasesKept
  <2>2. script' \in [todo : Seq(Steps), recovery : BOOLEAN] /\ script'.todo # <<>>
    BY <1>1, <1>2, <1>3 DEF plan
  <2>3. (script = NoScript)' = (script.todo = <<>>)'
    BY <1>4, <2>2
  <2> QED BY <2>1, <2>2, <2>3 DEF HInv, ControllerTypeOK
<1>8. OnPlan'
  <2>1. Ordered(journal.op, script.recovery, script.todo)'
    <3>1. Ordered(journal'.op, script'.recovery, script'.todo)
      BY <1>1, <1>3, Zenon DEF plan
    <3> QED BY <3>1 DEF Ordered, Ahead
  <2>2. (Unfinished <=> Left \cap Terminal # {})'
    BY <1>1, <1>5, <1>6 DEF Terminal, plan
  <2> QED BY <2>1, <2>2 DEF OnPlan
<1>9. Between' /\ Schema'
  BY DEF HInv, Between, Schema
<1>10. Whole'
  BY <1>6 DEF HInv, Whole
<1>11. Effects'
  <2>1. Unfinished /\ journal.op = "install" => Target' = 0
    BY <1>3, Typed DEF HInv, Target
  <2> QED BY <1>1, <1>5, <1>6, <2>1 DEF Effects, UnitFiles, plan
<1>12. Promises'
  BY <1>1, <1>3, <1>5, <1>6 DEF Promises, plan
<1> QED BY <1>7, <1>8, <1>9, <1>10, <1>11, <1>12 DEF HInv

\* No script holds the lock any more, or none did.
LEMMA ReleasedSafe ==
  ASSUME HInv, script' = NoScript, breakdowns' \in 0 .. MaxBreakdowns,
         UNCHANGED <<heads, diskVars, db, journal>>,
         running' \in Release, startup' \subseteq UnitFiles,
         active' \in BOOLEAN, rebooted' \in BOOLEAN,
         ~Unfinished => running' \in {0, link},
         running' # 0 => db = heads[running'] \/ rebooted'
  PROVE  HInv'
<1>1. Unfinished' <=> Unfinished
  BY DEF Unfinished
<1>2. ControllerTypeOK'
  <2>1. Releases' = Releases /\ Release' = Release /\ Journal' = Journal
    BY ReleasesKept
  <2>2. script' \in [todo : Seq(Steps), recovery : BOOLEAN] /\ script'.todo = <<>>
    BY DEF NoScript
  <2>3. (script = NoScript)' = (script.todo = <<>>)'
    BY <2>2
  <2> QED BY <2>1, <2>2, <2>3 DEF HInv, ControllerTypeOK
<1>3. OnPlan' /\ Effects' /\ Promises'
  BY DEF OnPlan, Effects, Promises
<1>4. Between' /\ Schema'
  BY DEF HInv, Between, Schema
<1>5. Whole'
  BY <1>1 DEF HInv, Whole
<1> QED BY <1>2, <1>3, <1>4, <1>5 DEF HInv

-----------------------------------------------------------------------------
(* The other steps.                                                          *)

LEMMA InitSafe ==
  ASSUME ControllerInit
  PROVE  HInv
<1>1. script = NoScript /\ journal = NoJournal /\ ~Unfinished
  BY DEF ControllerInit, Unfinished
<1>2. ControllerTypeOK
  <2>1. <<>> \in Seq(1 .. MaxSchema) /\ Len(<<>>) = 0 /\ <<>> \in Seq(Steps)
    OBVIOUS
  <2>2. /\ heads \in Seq(1 .. MaxSchema) /\ Len(heads) <= MaxReleases
        /\ breakdowns \in 0 .. MaxBreakdowns /\ db \in 0 .. MaxSchema
    BY <2>1, HostAssumption DEF ControllerInit
  <2>3. script \in [todo : Seq(Steps), recovery : BOOLEAN] /\ script.todo = <<>>
    BY <1>1, <2>1 DEF NoScript
  <2>4. /\ link \in Release /\ running \in Release /\ units \in [UnitFiles -> Release]
        /\ committed \subseteq Releases /\ startup \subseteq UnitFiles
        /\ active \in BOOLEAN /\ rebooted \in BOOLEAN
    BY DEF ControllerInit, Release
  <2> QED BY <1>1, <2>2, <2>3, <2>4 DEF ControllerTypeOK
<1>3. Whole /\ Schema
  BY DEF ControllerInit, Whole, Schema
<1> QED BY <1>1, <1>2, <1>3 DEF HInv, OnPlan, Between, Effects, Promises

LEMMA ResumeSafe ==
  ASSUME HInv, Resume
  PROVE  HInv'
BY RecoverySafe DEF Resume, HInv, ControllerTypeOK

LEMMA StraySafe ==
  ASSUME HInv, Stray
  PROVE  HInv'
<1>1. /\ script' = NoScript /\ UNCHANGED <<heads, diskVars, db, journal, breakdowns, startup>>
      /\ running' = 0 /\ active' = FALSE /\ rebooted' = FALSE
  BY DEF Stray, StopRuntime
<1> QED BY <1>1, ReleasedSafe DEF HInv, ControllerTypeOK, Release

LEMMA ClearSafe ==
  ASSUME HInv, Clear
  PROVE  HInv'
<1>1. /\ script' = NoScript /\ journal' = NoJournal /\ ~Unfinished
      /\ UNCHANGED <<heads, diskVars, db, runVars, breakdowns>>
  BY DEF Clear, CanClear, Unfinished
<1>2. ~Unfinished'
  BY <1>1 DEF Unfinished
<1>3. ControllerTypeOK'
  <2>1. Releases' = Releases /\ Release' = Release /\ Journal' = Journal
    BY <1>1, ReleasesKept
  <2>2. script' \in [todo : Seq(Steps), recovery : BOOLEAN] /\ script'.todo = <<>>
    BY <1>1 DEF NoScript
  <2>3. (script = NoScript)' = (script.todo = <<>>)'
    BY <1>1, <2>2
  <2> QED BY <1>1, <2>1, <2>2, <2>3 DEF HInv, ControllerTypeOK
<1>4. OnPlan' /\ Between' /\ Effects' /\ Promises'
  BY <1>1 DEF OnPlan, Between, Effects, Promises
<1>5. Whole' /\ Schema'
  BY <1>1 DEF HInv, Whole, Schema
<1> QED BY <1>3, <1>4, <1>5 DEF HInv

\* A script that gives up recovers, or leaves the host stopped.
LEMMA GiveUpSafe ==
  ASSUME HInv, script # NoScript, GiveUp, breakdowns' \in 0 .. MaxBreakdowns
  PROVE  HInv'
<1>1. UNCHANGED <<heads, diskVars, db, journal>> /\ journal # NoJournal
  BY DEF GiveUp, HInv, ControllerTypeOK
<1>2. CASE ~script.recovery
  BY <1>1, <1>2, RecoverySafe DEF GiveUp
<1>3. CASE script.recovery
  <2>1. script' = NoScript
    BY <1>3 DEF GiveUp
  <2>2. CASE At("clear")
    <3>1. UNCHANGED runVars
      BY <2>2 DEF GiveUp
    <3>2. /\ running \in Release /\ startup \subseteq UnitFiles
          /\ active \in BOOLEAN /\ rebooted \in BOOLEAN
      BY DEF HInv, ControllerTypeOK
    <3>3. /\ ~Unfinished => running \in {0, link}
          /\ running # 0 => db = heads[running] \/ rebooted
      BY DEF HInv, Whole, Schema
    <3> QED BY <1>1, <2>1, <3>1, <3>2, <3>3, ReleasedSafe
  <2>3. CASE ~At("clear")
    <3>1. running' = 0 /\ active' = FALSE /\ rebooted' = FALSE /\ startup' = startup
      BY <1>3, <2>3 DEF GiveUp, StopRuntime
    <3> QED BY <1>1, <2>1, <3>1, ReleasedSafe DEF HInv, ControllerTypeOK, Release
  <2> QED BY <2>2, <2>3
<1> QED BY <1>2, <1>3

LEMMA FaultCounted ==
  ASSUME HInv, Breakdown
  PROVE  breakdowns' \in 0 .. MaxBreakdowns
BY HostAssumption DEF Breakdown, HInv, ControllerTypeOK

LEMMA KillSafe ==
  ASSUME HInv, Kill
  PROVE  HInv'
<1>1. /\ script' = NoScript /\ UNCHANGED <<heads, diskVars, db, runVars, journal>>
      /\ breakdowns' \in 0 .. MaxBreakdowns
  BY FaultCounted DEF Kill
<1>2. /\ running \in Release /\ startup \subseteq UnitFiles
      /\ active \in BOOLEAN /\ rebooted \in BOOLEAN
  BY DEF HInv, ControllerTypeOK
<1>3. /\ ~Unfinished => running \in {0, link}
      /\ running # 0 => db = heads[running] \/ rebooted
  BY DEF HInv, Whole, Schema
<1> QED BY <1>1, <1>2, <1>3, ReleasedSafe

LEMMA RebootSafe ==
  ASSUME HInv, Reboot
  PROVE  HInv'
<1>1. /\ script' = NoScript /\ UNCHANGED <<heads, diskVars, db, startup, journal>>
      /\ breakdowns' \in 0 .. MaxBreakdowns
      /\ running' \in {0, link}
      /\ rebooted' = (Unfinished /\ running' # 0)
  BY FaultCounted DEF Reboot
<1>2. active' \in BOOLEAN /\ rebooted' \in BOOLEAN
  BY <1>1 DEF Reboot
<1>3. startup' \subseteq UnitFiles /\ running' \in Release
  BY <1>1 DEF HInv, ControllerTypeOK, Release
<1>4. running' # 0 => db = heads[running'] \/ rebooted'
  <2>1. CASE Unfinished
    BY <1>1, <2>1
  <2>2. CASE ~Unfinished
    BY <1>1, <2>2 DEF HInv, Whole
  <2> QED BY <2>1, <2>2
<1> QED BY <1>1, <1>2, <1>3, <1>4, ReleasedSafe

LEMMA RestoreDatabaseSafe ==
  ASSUME HInv, RestoreDatabase
  PROVE  HInv'
<1>1. /\ script = NoScript /\ Unfinished /\ running = 0 /\ journal # NoJournal
      /\ journal.op # "install" /\ db' = heads[journal.previous]
      /\ UNCHANGED <<heads, diskVars, runVars, journal, script, breakdowns>>
  BY DEF RestoreDatabase, Unfinished
<1>2. db' \in 0 .. MaxSchema
  BY <1>1, Typed DEF HInv
<1>3. ControllerTypeOK'
  <2>1. Releases' = Releases /\ Release' = Release /\ Journal' = Journal
    BY <1>1, ReleasesKept
  <2> QED BY <1>1, <1>2, <2>1 DEF HInv, ControllerTypeOK
<1>4. OnPlan' /\ Effects' /\ Promises'
  BY <1>1 DEF OnPlan, Effects, Promises
<1>5. Between' /\ Schema'
  BY <1>1 DEF HInv, Between, Schema
<1>6. Whole'
  BY <1>1 DEF Whole, Unfinished
<1> QED BY <1>3, <1>4, <1>5, <1>6 DEF HInv

LEMMA SwitchTimersSafe ==
  ASSUME HInv, NEW on \in BOOLEAN, NEW boot \in BOOLEAN, SwitchTimers(on, boot)
  PROVE  HInv'
<1>1. /\ script' = NoScript /\ active' = on
      /\ UNCHANGED <<heads, diskVars, db, running, rebooted, journal, breakdowns>>
  BY DEF SwitchTimers
<1>2. /\ running \in Release /\ startup' \subseteq UnitFiles /\ rebooted \in BOOLEAN
      /\ breakdowns \in 0 .. MaxBreakdowns
  BY DEF HInv, ControllerTypeOK, SwitchTimers, UnitFiles
<1>3. /\ ~Unfinished => running \in {0, link}
      /\ running # 0 => db = heads[running] \/ rebooted
  BY DEF HInv, Whole, Schema
<1> QED BY <1>1, <1>2, <1>3, ReleasedSafe

LEMMA StepSafe ==
  ASSUME HInv, Step
  PROVE  HInv'
BY TestSafe, HoldSafe, StopSafe, MigrateSafe, SwitchSafe, StartSafe, TimersSafe, WriteMarkerSafe,
   RemoveMarkerSafe, QuietSafe, DisableSafe, ClearSafe, RecordSafe, DeploySafe, Zenon DEF Step

LEMMA NextSafe ==
  ASSUME HInv, [ControllerNext]_controllerVars
  PROVE  HInv'
<1>1. ASSUME NEW revision \in 1 .. MaxSchema, StartInstall(revision) \/ StartUpgrade(revision)
      PROVE  HInv'
  BY <1>1, StartInstallSafe, StartUpgradeSafe
<1>2. ASSUME NEW release \in Releases, StartRollback(release) PROVE HInv'
  BY <1>2, StartRollbackSafe
<1>3. ASSUME Refuse PROVE HInv'
  <2>1. breakdowns' \in 0 .. MaxBreakdowns
    BY <1>3 DEF Refuse, HInv, ControllerTypeOK
  <2> QED BY <1>3, <2>1, GiveUpSafe DEF Refuse
<1>4. ASSUME StepFails PROVE HInv'
  BY <1>4, GiveUpSafe, FaultCounted DEF StepFails
<1>5. ASSUME NEW on \in BOOLEAN, NEW boot \in BOOLEAN, SwitchTimers(on, boot) PROVE HInv'
  BY <1>5, SwitchTimersSafe
<1>6. CASE UNCHANGED controllerVars
  <2>1. UNCHANGED <<heads, diskVars, db, runVars, journal, script, breakdowns>>
    BY <1>6 DEF controllerVars
  <2>2. Releases' = Releases /\ Release' = Release /\ Journal' = Journal
    BY <2>1, ReleasesKept
  <2>3. ControllerTypeOK'
    BY <2>1, <2>2 DEF HInv, ControllerTypeOK
  <2>4. Left' = Left /\ Target' = Target /\ Unfinished' = Unfinished
    BY <2>1 DEF Left, Ahead, Target, Unfinished
  <2>5. OnPlan'
    BY <2>1, <2>4 DEF HInv, OnPlan, Ordered, Ahead
  <2>6. Between' /\ Whole' /\ Schema'
    BY <2>1, <2>4 DEF HInv, Between, Whole, Schema
  <2>7. Effects' /\ Promises'
    BY <2>1, <2>4 DEF HInv, Effects, Promises
  <2> QED BY <2>3, <2>5, <2>6, <2>7 DEF HInv
<1>7. ASSUME Resume \/ Stray \/ Step \/ Kill \/ Reboot \/ RestoreDatabase PROVE HInv'
  BY <1>7, ResumeSafe, StraySafe, StepSafe, KillSafe, RebootSafe, RestoreDatabaseSafe
<1> QED BY <1>1, <1>2, <1>3, <1>4, <1>5, <1>6, <1>7, Zenon DEF ControllerNext

-----------------------------------------------------------------------------
(* The theorems.                                                             *)

LEMMA Invariance == ControllerSpec => []HInv
<1>1. ControllerInit => HInv
  BY InitSafe
<1>2. HInv /\ [ControllerNext]_controllerVars => HInv'
  BY NextSafe
<1> QED BY <1>1, <1>2, PTL DEF ControllerSpec

\* Every variable of the host, its journal and its scripts has its values, and a
\* journal is one that lifecycle-journal.py takes.
THEOREM TypeCorrect == ControllerSpec => []ControllerTypeOK
<1>1. HInv => ControllerTypeOK
  BY DEF HInv
<1> QED BY <1>1, Invariance, PTL

\* Outside a transaction the host is one release: the link, all the unit files,
\* the schema and the process, for any number of failures, kills and reboots.
THEOREM OneRelease == ControllerSpec => []Whole
<1>1. HInv => Whole
  BY DEF HInv
<1> QED BY <1>1, Invariance, PTL

\* The controller runs on the schema of its own release, or since a reboot within
\* a transaction.
THEOREM RunsOnItsSchema == ControllerSpec => []Schema
<1>1. HInv => Schema
  BY DEF HInv
<1> QED BY <1>1, Invariance, PTL

\* Only the record of its last phase ends a transaction.
LEMMA EndsByRecord ==
  ASSUME HInv, ControllerNext, Unfinished, journal'.phase \in Terminal
  PROVE  \E phase \in Terminal : Record(phase) /\ journal'.phase = phase
<1>1. journal # NoJournal /\ journal.phase \notin Terminal /\ journal' # journal
  BY DEF Unfinished
<1>2. \A op, previous, candidate, plan : ~Begin(op, previous, candidate, plan)
  BY <1>1, Zenon DEF Begin, CanInitialize
<1>3. ~Clear
  BY <1>1 DEF Clear, CanClear
<1>4. ~(Test \/ Hold \/ Stop \/ Migrate \/ SwitchCurrent \/ Start \/ Timers \/ WriteMarker
          \/ RemoveMarker \/ Quiet \/ Disable)
  BY <1>1 DEF Test, Hold, Stop, Migrate, SwitchCurrent, Start, Timers, WriteMarker, RemoveMarker,
              Quiet, Disable
<1>5. ~(\E file \in UnitFiles : Deploy(file))
  BY <1>1 DEF Deploy
<1>6. ~(Resume \/ Stray \/ Refuse \/ StepFails \/ Kill \/ Reboot \/ RestoreDatabase)
  BY <1>1 DEF Resume, Stray, Refuse, StepFails, GiveUp, Kill, Reboot, RestoreDatabase
<1>7. ~(\E on, boot \in BOOLEAN : SwitchTimers(on, boot))
  BY <1>1 DEF SwitchTimers
<1>8. ~(\E revision \in 1 .. MaxSchema : StartInstall(revision) \/ StartUpgrade(revision))
  BY <1>2, Zenon DEF StartInstall, StartUpgrade
<1>9. ~(\E release \in Releases : StartRollback(release))
  BY <1>2, Zenon DEF StartRollback
<1>10. PICK phase \in Phases : Record(phase)
  BY <1>3, <1>4, <1>5, <1>6, <1>7, <1>8, <1>9, Zenon DEF ControllerNext, Step
<1>11. journal'.phase = phase
  <2>1. journal \in Journal
    BY <1>1 DEF HInv, ControllerTypeOK
  <2> QED BY <1>10, <2>1 DEF Record, Updated, Journal
<1> QED BY <1>10, <1>11

\* A transaction ends as its last phase says, whatever happened on the way: with
\* the candidate running and marked, with the previous release running again and
\* its timers as they were, or with nothing left of the installation.
THEOREM EndsAsRecorded == ControllerSpec => Outcome
<1> DEFINE Told ==
      CASE journal'.phase = "committed" ->
             /\ {link', running'} = {journal.candidate}
             /\ journal.candidate \in committed'
             /\ active' = (journal.op = "install" \/ journal.timer)
        [] journal'.phase = "previous_restored" ->
             /\ {link', running'} = {journal.previous}
             /\ active' = journal.timer
        [] OTHER ->
             /\ {link', running'} = {0} /\ ~active' /\ startup' = {}
             /\ journal.candidate \notin committed'
<1>1. ASSUME HInv, ControllerNext, Unfinished, journal'.phase \in Terminal
      PROVE  Told
  <2>1. PICK phase \in Terminal : Record(phase) /\ journal'.phase = phase
    BY <1>1, EndsByRecord
  <2>2. /\ journal # NoJournal
        /\ phase = Ending(journal.op, script.recovery)
        /\ script.recovery \in BOOLEAN
        /\ link = Target /\ running = Target
        /\ IF script.recovery
             THEN /\ active = (journal.op # "install" /\ journal.timer)
                  /\ journal.op = "install" => startup = {} /\ journal.candidate \notin committed
             ELSE /\ active = (journal.op = "install" \/ journal.timer)
                  /\ journal.candidate \in committed
    BY <1>1, <2>1, AtTheEnd
  <2>3. UNCHANGED <<link, running, active, startup, committed>>
    BY <2>1 DEF Record
  <2>4. journal.timer \in BOOLEAN /\ (journal.op = "install" <=> journal.previous = 0)
    BY <1>1, <2>2, Typed DEF HInv
  <2>5. CASE ~script.recovery
    <3>1. journal'.phase = "committed" /\ Target = journal.candidate
      BY <2>1, <2>2, <2>5 DEF Ending, Target
    <3> QED BY <2>2, <2>3, <2>5, <3>1
  <2>6. CASE script.recovery /\ journal.op # "install"
    <3>1. journal'.phase = "previous_restored" /\ Target = journal.previous
      BY <2>1, <2>2, <2>6 DEF Ending, Target
    <3> QED BY <2>2, <2>3, <2>4, <2>6, <3>1
  <2>7. CASE script.recovery /\ journal.op = "install"
    <3>1. journal'.phase = "aborted" /\ Target = 0
      BY <2>1, <2>2, <2>4, <2>7 DEF Ending, Target
    <3> QED BY <2>2, <2>3, <2>7, <3>1
  <2> QED BY <2>2, <2>5, <2>6, <2>7
<1>2. HInv /\ [ControllerNext]_controllerVars => [Unfinished /\ journal'.phase \in Terminal => Told]_controllerVars
  BY <1>1
<1> QED BY <1>2, Invariance, PTL DEF ControllerSpec, Outcome
=============================================================================
