------------------------------ MODULE Alerting ------------------------------
(***************************************************************************)
(* One alert, from the observations that raise it to the messages that     *)
(* tell of it.                                                             *)
(*                                                                         *)
(*   controller/guardian/main.py, monitoring.py, liveness.py, alerting.py, *)
(*   notifications.py, api.py, agent/remote_checks.go                      *)
(*                                                                         *)
(* The source of the alert is a service check the controller performs, one *)
(* the agent performs, or the heartbeats of a host.  monitor_service_checks*)
(* is one transaction that awaits a probe and then every message it sends; *)
(* what it has written is taken back when it fails before its commit.      *)
(* monitor_agent_liveness and the handlers of requests do not await, but   *)
(* those of operators run in threads and write what they decided on an     *)
(* earlier read.  A probe may find anything at any time, and a heartbeat   *)
(* may arrive or not; a check that is paused or deleted is one that is not *)
(* performed again, and the result under way is recorded all the same.     *)
(***************************************************************************)
EXTENDS AlertRules, Sequences, SequencesExt

CONSTANTS
  Sources,        \* sources the alert may have
  MaxAttempts,    \* retry_policy.max_attempts of the channel
  OfflineAfter,   \* agent_offline_after_seconds, in ticks of the clock
  StaleAfter,     \* half of it, in ticks
  Interval,       \* ticks between two rounds of the liveness loop
  MaxDeliveries,  \* bound on deliveries
  MaxFaults       \* bound on failing cycles and outages

AllSources == {"check", "agent", "host"}

ASSUME AlertingAssumption ==
  /\ Sources \subseteq AllSources
  /\ {MaxAttempts, StaleAfter, Interval} \subseteq Nat \ {0}
  /\ {OfflineAfter, MaxDeliveries, MaxFaults} \subseteq Nat
  /\ StaleAfter < OfflineAfter

VARIABLES
  source,      \* AlertRule.source_type, and the runner of a check
  alert,       \* AlertInstance
  quiet,       \* a silence or a maintenance window is in force
  deliveries,  \* NotificationDelivery rows in the order of their creation
  recent,      \* a message was delivered within the last minute
  loop,        \* monitor_service_checks
  host,        \* Host.status, age of the last heartbeat, timer of the loop
  request,     \* an operator's request under way
  disturbed,   \* history: deliveries that were put off or taken back
  inbox,       \* history: which of the others arrived after which, or after 0
  faults

worldVars  == <<source, quiet>>
alertVars  == <<alert, deliveries>>
sentVars   == <<recent, inbox, disturbed>>
alertingVars == <<worldVars, alertVars, sentVars, loop, host, request, faults>>

Delivery == [event : {"firing", "resolved", "reminder"},
             status : {"pending", "retrying", "delivered", "dead_letter"},
             attempts : 0 .. MaxAttempts + 1, due : BOOLEAN]
Numbers  == 1 .. MaxDeliveries
Waiting(d) == d.status \in {"pending", "retrying"}

NoCycle   == [pc |-> "idle", batch |-> {}, alert |-> NewAlert, rows |-> <<>>]
NoRequest == [kind |-> "none", seen |-> "ok"]
OldAge    == OfflineAfter + 1

AlertingTypeOK ==
  /\ source \in Sources
  /\ {quiet, recent} \subseteq BOOLEAN
  /\ alert \in Alerts
  /\ deliveries \in Seq(Delivery) /\ Len(deliveries) <= MaxDeliveries
  /\ loop \in [pc : {"idle", "probe", "send"}, batch : SUBSET Numbers,
               alert : Alerts, rows : Seq(Delivery)]
  /\ host \in [status : {"healthy", "stale", "offline"}, age : 0 .. OldAge,
               timer : 0 .. Interval + 1, gap : BOOLEAN]
  /\ request \in [kind : {"none", "acknowledge", "silence", "close"}, seen : AlertStates]
  /\ inbox \subseteq (Numbers \cup {0}) \X Numbers
  /\ disturbed \subseteq Numbers
  /\ faults \in 0 .. MaxFaults

AlertingInit ==
  /\ source \in Sources
  /\ quiet = FALSE /\ recent = FALSE
  /\ alert = NewAlert
  /\ deliveries = <<>>
  /\ loop = NoCycle
  /\ host = [status |-> "healthy", age |-> 0, timer |-> 0, gap |-> FALSE]
  /\ request = NoRequest
  /\ inbox = {}
  /\ disturbed = {}
  /\ faults = 0

-----------------------------------------------------------------------------
(* Observations.                                                           *)

Scheduled(event) ==
  Append(deliveries, [event |-> event, status |-> "pending", attempts |-> 0, due |-> TRUE])

\* observe_alert and _schedule_notifications, with the reminder of an alert
\* that goes on firing.
Observe(success) ==
  LET after == Observed(alert, success, quiet)
      event == Event(alert, after)
  IN /\ alert' = after
     /\ \/ /\ event = "none"
           /\ UNCHANGED deliveries
        \/ /\ Len(deliveries) < MaxDeliveries
           /\ \/ event # "none" /\ deliveries' = Scheduled(event)
              \/ /\ event = "none" /\ ~success /\ after.state = "firing"
                 /\ deliveries # <<>>
                 /\ deliveries' = Scheduled("reminder")

-----------------------------------------------------------------------------
(* monitor_service_checks.                                                 *)

\* The deliveries that are due.
\* Variant: without those to be tried again.
DuePending(rows) == {n \in DOMAIN rows : rows[n].status = "pending" /\ rows[n].due}
Due(rows) == {n \in DOMAIN rows : Waiting(rows[n]) /\ rows[n].due}

\* ORDER BY created_at
\* Variant: in no particular order.
NewestOf(batch) == Max(batch)
OldestOf(batch) == Min(batch)

\* The check is read, and the probe awaited.
StartProbe ==
  /\ loop.pc = "idle" /\ source = "check"
  /\ Len(deliveries) < MaxDeliveries
  /\ loop' = [NoCycle EXCEPT !.pc = "probe"]
  /\ UNCHANGED <<worldVars, alertVars, sentVars, host, request, faults>>

\* From here on the rows are locked until the end of the transaction.
Opened(rows) ==
  [pc |-> "send", batch |-> Due(rows), rows |-> deliveries,
   alert |-> IF source = "check" THEN alert ELSE NewAlert]

\* persist_check_result, whatever became of the check in the meantime.
PersistResult ==
  /\ loop.pc = "probe"
  /\ \E success \in BOOLEAN : Observe(success)
  /\ loop' = Opened(deliveries')
  /\ UNCHANGED <<worldVars, sentVars, host, request, faults>>

\* No check of the controller is due.  The messages about a host are sent like
\* those about a check of its agent, and only the latter are followed.
SkipChecks ==
  /\ source # "host"
  /\ loop.pc = "idle" /\ Due(deliveries) # {}
  /\ loop' = Opened(deliveries)
  /\ UNCHANGED <<worldVars, alertVars, sentVars, host, request, faults>>

\* The order of arrivals without the deliveries in S, and with one more.
Calm(S)  == {pair \in inbox : {pair[1], pair[2]} \cap S = {}}
After(n) == inbox \cup {<<0, n>>} \cup {<<pair[2], n>> : pair \in inbox}

\* The message is put off or its attempt has failed, reaching the receiver or not.
Disturbed(n, d) ==
  /\ deliveries' = [deliveries EXCEPT ![n] = d]
  /\ disturbed' = disturbed \cup {n}
  /\ inbox' = Calm({n})
  /\ UNCHANGED recent

GivenUp(attempts) == IF attempts >= MaxAttempts THEN "dead_letter" ELSE "retrying"

Send ==
  /\ loop.pc = "send" /\ loop.batch # {}
  /\ LET n == OldestOf(loop.batch)
         d == [deliveries[n] EXCEPT !.due = FALSE]
         attempts == d.attempts + 1
     IN /\ \/ recent /\ Disturbed(n, [d EXCEPT !.status = "retrying"])
           \/ Disturbed(n, [d EXCEPT !.attempts = attempts, !.status = GivenUp(attempts)])
           \/ /\ deliveries' = [deliveries EXCEPT ![n] =
                   [d EXCEPT !.attempts = attempts, !.status = "delivered"]]
              /\ inbox' = IF n \in disturbed THEN inbox ELSE After(n)
              /\ recent' = TRUE
              /\ UNCHANGED disturbed
        /\ loop' = [loop EXCEPT !.batch = @ \ {n}]
  /\ UNCHANGED <<worldVars, alert, host, request, faults>>

\* Pruning, the dispatch of resets and the commit.
Commit ==
  /\ loop.pc = "send" /\ loop.batch = {}
  /\ loop' = NoCycle
  /\ UNCHANGED <<worldVars, alertVars, sentVars, host, request, faults>>

\* Any step raises: the rows are as before, but not what has been sent.  What
\* a heartbeat has added in the meantime stays.
Restored ==
  LET n == Len(loop.rows)
  IN loop.rows \o (IF source = "check" THEN <<>>
                   ELSE SubSeq(deliveries, n + 1, Len(deliveries)))

CycleFails ==
  /\ loop.pc # "idle"
  /\ faults < MaxFaults
  /\ faults' = faults + 1
  /\ IF loop.pc = "send"
     THEN LET back == {n \in DOMAIN deliveries :
                         n > Len(Restored) \/ deliveries[n] # Restored[n]}
          IN /\ deliveries' = Restored
             /\ alert' = IF source = "check" THEN loop.alert ELSE alert
             /\ disturbed' = disturbed \cup back
             /\ inbox' = Calm(back)
     ELSE UNCHANGED <<alertVars, disturbed, inbox>>
  /\ loop' = NoCycle
  /\ UNCHANGED <<worldVars, recent, host, request>>

\* A minute passes, or the delay of a retry.
BecomesDue ==
  /\ loop.pc # "send"
  /\ \E n \in DOMAIN deliveries :
       /\ Waiting(deliveries[n]) /\ ~deliveries[n].due
       /\ deliveries' = [deliveries EXCEPT ![n].due = TRUE]
  /\ recent' = FALSE
  /\ UNCHANGED <<worldVars, alert, inbox, disturbed, loop, host, request, faults>>

ServiceLoop == StartProbe \/ PersistResult \/ SkipChecks \/ Send \/ Commit

-----------------------------------------------------------------------------
(* Checks of the agent.                                                    *)

\* record_agent_check_results, with what runRemoteChecks found before.
RecordResult ==
  /\ source = "agent"
  /\ \E success \in BOOLEAN : Observe(success)
  /\ UNCHANGED <<worldVars, sentVars, loop, host, request, faults>>

-----------------------------------------------------------------------------
(* Heartbeats of a host.                                                   *)

Heartbeat ==
  /\ source = "host"
  /\ host' = [host EXCEPT !.status = "healthy", !.age = 0, !.gap = FALSE]
  /\ UNCHANGED <<worldVars, alertVars, sentVars, loop, request, faults>>

\* Each round is on time or a tick late.
Tick ==
  /\ source = "host"
  /\ host.timer <= Interval
  /\ host.age < OldAge \/ host.timer < Interval
  /\ host' = [host EXCEPT !.age = UpTo(OldAge, @ + 1), !.timer = @ + 1]
  /\ UNCHANGED <<worldVars, alertVars, sentVars, loop, request, faults>>

\* How the age of the last heartbeat is read.
\* Variant: stale only just before it is offline.
BandLate(age) == IF age < OfflineAfter THEN "healthy"
                 ELSE IF age = OfflineAfter THEN "stale" ELSE "offline"
Band(age) == IF age <= StaleAfter THEN "healthy"
             ELSE IF age <= OfflineAfter THEN "stale" ELSE "offline"

\* mark_stale_agents_offline, for one agent.  A host that is fresh again keeps
\* its status, which its heartbeat has set, and one that is offline is skipped.
Round ==
  /\ source = "host" /\ host.timer >= Interval
  /\ LET band == Band(host.age)
     IN /\ IF band = "offline" /\ host.status = "offline"
           THEN UNCHANGED alertVars
           ELSE Observe(band = "healthy")
        /\ host' = [host EXCEPT !.timer = 0,
                               !.status = IF band = "healthy" THEN @ ELSE band]
  /\ UNCHANGED <<worldVars, sentVars, loop, request, faults>>

\* A round fails, or the controller is down for a while.
Outage ==
  /\ source = "host"
  /\ faults < MaxFaults
  /\ faults' = faults + 1
  /\ \E age \in host.age .. OldAge :
       host' = [host EXCEPT !.timer = 0, !.age = age, !.gap = TRUE]
  /\ UNCHANGED <<worldVars, alertVars, sentVars, loop, request>>

-----------------------------------------------------------------------------
(* Operators and the world.                                                *)

\* Others see what is committed, and wait for rows that are locked.
Locked    == source = "check" /\ loop.pc = "send"
Committed == IF Locked THEN loop.alert ELSE alert

\* acknowledge_alert, silence_alert, update_alert_api: the state is read ...
ReadAlert ==
  /\ request = NoRequest
  /\ \/ /\ Committed.state \in {"firing", "pending"}
        /\ request' = [kind |-> "acknowledge", seen |-> Committed.state]
     \/ /\ Committed.state \in {"acknowledged", "resolved"}
        /\ request' = [NoRequest EXCEPT !.kind = "close"]
     \/ request' = [NoRequest EXCEPT !.kind = "silence"]
  /\ UNCHANGED <<worldVars, alertVars, sentVars, loop, host, faults>>

\* ... and written, without a look at what it is by then.
Written == CASE request.kind = "acknowledge" -> "acknowledged"
             [] request.kind = "silence"     -> "silenced"
             [] request.kind = "close"       -> "closed"

WriteAlert ==
  /\ request.kind # "none" /\ ~Locked
  /\ LET acknowledges == request.kind = "acknowledge"
         knows == acknowledges /\ (alert.state = request.seen \/ alert.told)
     IN alert' = [alert EXCEPT !.state = Written, !.told = knows,
                               !.raced = acknowledges /\ ~knows]
  /\ quiet' = (quiet \/ request.kind = "silence")
  /\ request' = NoRequest
  /\ UNCHANGED <<source, deliveries, sentVars, loop, host, faults>>

\* retry_notification_delivery.  A cycle under way would not touch the row.
RetryDelivery ==
  /\ loop.pc # "send"
  /\ \E n \in DOMAIN deliveries :
       /\ deliveries[n].status = "dead_letter"
       /\ deliveries[n].attempts <= MaxAttempts
       /\ deliveries' = [deliveries EXCEPT ![n].status = "pending", ![n].due = TRUE]
  /\ UNCHANGED <<worldVars, alert, sentVars, loop, host, request, faults>>

\* A silence ends; a maintenance window begins or ends.
ToggleQuiet ==
  /\ quiet' = ~quiet
  /\ UNCHANGED <<source, alertVars, sentVars, loop, host, request, faults>>

AlertingNext ==
  \/ ServiceLoop \/ CycleFails \/ BecomesDue
  \/ RecordResult \/ Heartbeat \/ Tick \/ Round \/ Outage
  \/ ReadAlert \/ WriteAlert \/ RetryDelivery \/ ToggleQuiet

AlertingSpec == AlertingInit /\ [][AlertingNext]_alertingVars

-----------------------------------------------------------------------------
(* Properties.                                                             *)

\* Whoever operates the host knows of a failure that has reached its threshold
\* (a message is on its way, or he acknowledged it), through silences that end,
\* failed cycles, retries and requests; unless an acknowledgement was written
\* over a state that was not the one acknowledged.
Told ==
  Committed.fails = FailureThreshold /\ Committed.state \notin {"silenced", "closed"}
    => Committed.told \/ Committed.raced

\* A message is sent once and after those created before it, unless an attempt
\* failed, the rate limit put it off or a cycle was taken back.
InOrderOnce == \A pair \in inbox : pair[1] < pair[2]

\* A host that is declared offline, and not observed again while it is
\* (liveness.py:86), has failed in every round since it was stale: as often as
\* its alert needs to fire, or as the time between stale and offline allows.
OfflineCounted ==
  source = "host" /\ host.status = "offline" /\ ~host.gap
    => \/ alert.fails = FailureThreshold
       \/ StaleAfter + alert.fails * (Interval + 1) > OfflineAfter

-----------------------------------------------------------------------------
(* Progress.                                                               *)

\* The loop goes on for ever, whatever its cycles raise, and time passes: a
\* cycle takes its time once, when it starts, so a delay ends between cycles.
FairSpec ==
  AlertingSpec /\ WF_alertingVars(ServiceLoop) /\ SF_alertingVars(BecomesDue)

\* A message that waits is delivered or given up in the end.
DeliveryEnds ==
  \A n \in Numbers :
    (n \in DOMAIN deliveries /\ Waiting(deliveries[n]) /\ source # "host")
      ~> ~(n \in DOMAIN deliveries /\ Waiting(deliveries[n]))
=============================================================================
