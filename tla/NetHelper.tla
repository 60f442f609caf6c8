------------------------------ MODULE NetHelper ------------------------------
(***************************************************************************)
(* The privileged network helper: one port traffic policy, its kernel      *)
(* objects and the helper's state file.                                    *)
(*                                                                         *)
(* The helper counts in two places.  The kernel counter starts at zero     *)
(* whenever the rules are built; the state file holds the bytes counted so *)
(* far and how much of the kernel counter is among them.  Every rebuild    *)
(* therefore absorbs the kernel counter first.  A helper process reads the *)
(* file and the counters, changes the kernel, then replaces the file, and  *)
(* may stop between any two of these; commands and writes may fail, other  *)
(* programs may delete the table or take the interface's root qdisc.  The  *)
(* helper takes any failure to list the table for there being none: then   *)
(* it reads no bytes, and adds its rules to those that are there.          *)
(*                                                                         *)
(*   agent/nethelper/main.go, network.go, store.go, authorization.go       *)
(*                                                                         *)
(* Received and sent bytes are counted alike, so there is one counter.     *)
(* The policy shapes an interface: without a policy there is no qdisc.     *)
(* acquireLock admits one process at a time; requests it turns away change *)
(* nothing.  The 4096 nonces the file can hold are never live together.    *)
(***************************************************************************)
EXTENDS Naturals

CONSTANTS
  Requests,   \* signed tasks; each has a nonce of its own
  Operation,  \* "apply", "remove" or "reset"
  Generation, \* counter_generation: what a policy starts with if this creates it
  Dry,        \* the requests with dry_run = "true"
  NoRequest,  \* the request of a snapshot
  MaxBytes,   \* bound: bytes that pass the rules of a policy
  MaxCount,   \* bound: bytes counted before a snapshot that cannot repair
  MaxFaults   \* bound: failures, crashes and interventions

ASSUME ConstantsAssumption ==
  /\ NoRequest \notin Requests
  /\ Operation \in [Requests -> {"apply", "remove", "reset"}]
  /\ Generation \in [Requests -> Nat \ {0}]
  /\ Dry \subseteq Requests
  /\ MaxBytes \in Nat
  /\ MaxCount \in Nat
  /\ MaxFaults \in Nat

VARIABLES
  table,      \* how often the nftables table holds the policy's rules; 0 without it
  counter,    \* the kernel counter, which each of the rules adds to
  qdisc,      \* the root qdisc of the interface
  disk,       \* the state file
  expired,    \* requests whose expires_at has passed
  pc,         \* what the helper process does next
  request,    \* what it was asked
  raw,        \* the counter it read
  mem,        \* the state it is going to write
  rebuilt,    \* it has restarted the counter
  reported,   \* the last observation a snapshot returned
  passed,     \* history: bytes that passed the rules of this policy
  lost,       \* history: bytes that failures left uncounted, at most
  doubled,    \* history: bytes were counted twice, or may be
  commits,    \* history: how often a request changed the policy
  faults      \* faults so far

kernelVars  == <<table, counter, qdisc>>
processVars == <<pc, request, raw, mem, rebuilt>>
historyVars == <<passed, lost, doubled, commits>>
vars == <<kernelVars, disk, expired, processVars, reported, historyVars, faults>>

\* The file: whether there is a policy, its LifetimeRX, LastKernelRX,
\* PeriodStartRX and Generation; the keys of CompletedNonce.
State == [present : BOOLEAN, lifetime : Nat, last : Nat, start : Nat,
          generation : Nat, used : SUBSET Requests]

Empty == [present |-> FALSE, lifetime |-> 0, last |-> 0, start |-> 0,
          generation |-> 0, used |-> {}]

Observation == [lifetime : Nat, start : Nat, generation : Nat]
Nothing     == [lifetime |-> 0, start |-> 0, generation |-> 0]

\* The types, that no table means no counter, and that a period starts within
\* what was counted: current_period_rx is not negative.
TypeOK ==
  /\ table \in Nat
  /\ counter \in Nat
  /\ qdisc \in {"none", "ours", "foreign"}
  /\ disk \in State
  /\ expired \subseteq Requests
  /\ pc \in {"idle", "restore", "apply", "commit", "undo", "save"}
  /\ request \in Requests \cup {NoRequest}
  /\ raw \in Nat
  /\ mem \in State
  /\ rebuilt \in BOOLEAN
  /\ reported \in Observation
  /\ passed \in Nat
  /\ lost \in Nat
  /\ doubled \in BOOLEAN
  /\ commits \in [Requests -> Nat]
  /\ faults \in Nat
  /\ table = 0 => counter = 0
  /\ disk.start <= disk.lifetime
  /\ mem.start <= mem.lifetime

Init ==
  /\ table = 0
  /\ counter = 0
  /\ qdisc = "none"
  /\ disk = Empty
  /\ expired = {}
  /\ pc = "idle"
  /\ request = NoRequest
  /\ raw = 0
  /\ mem = Empty
  /\ rebuilt = FALSE
  /\ reported = Nothing
  /\ passed = 0
  /\ lost = 0
  /\ doubled = FALSE
  /\ commits = [r \in Requests |-> 0]
  /\ faults = 0

Fault == faults < MaxFaults /\ faults' = faults + 1

-----------------------------------------------------------------------------
(* Counting. *)

Unread(s, bytes) == IF bytes >= s.last THEN bytes - s.last ELSE 0

\* Variant: the mark is reset and the bytes are not added.
AbsorbNothing(s, bytes) == IF s.present THEN [s EXCEPT !.last = 0] ELSE s

\* absorbCounters: the rules are about to be rebuilt.
Absorb(s, bytes) ==
  IF s.present THEN [s EXCEPT !.lifetime = @ + Unread(s, bytes), !.last = 0] ELSE s

\* Variant: the bytes are added and the mark stays.
CountKeepsMark(s, bytes) ==
  IF s.present THEN [s EXCEPT !.lifetime = @ + Unread(s, bytes)] ELSE s

\* What a snapshot adds, while the counter goes on.
Count(s, bytes) ==
  IF s.present /\ bytes >= s.last
    THEN [s EXCEPT !.lifetime = @ + Unread(s, bytes), !.last = bytes]
    ELSE s

\* desiredState
Created(s, r) ==
  IF s.present
    THEN s
    ELSE [present |-> TRUE, lifetime |-> 0, last |-> 0, start |-> 0,
          generation |-> Generation[r], used |-> s.used]
Removed(s) == [Empty EXCEPT !.used = s.used]

Restarted(s) == [s EXCEPT !.start = s.lifetime, !.generation = @ + 1]

Desired(s, r) ==
  CASE Operation[r] = "apply"  -> Created(s, r)
    [] Operation[r] = "remove" -> Removed(s)
    [] Operation[r] = "reset"  -> Restarted(s)

\* Variant: only the last nonce is kept.
ConsumeOnly(s, r) == [s EXCEPT !.used = {r}]

\* consumeNonce
Consume(s, r) == [s EXCEPT !.used = (@ \ expired) \cup {r}]

\* The baseline of executeRequest, after desired was made from it: the two
\* share the map of nonces.
Baseline == [Absorb(disk, raw) EXCEPT !.used = mem.used]

-----------------------------------------------------------------------------
(* The kernel.  before and after say whether there is a policy. *)

\* Variant: the qdisc is not looked at.
SoundTable(present) == table > 0 <=> present

\* verifyNetwork(current, current)
Sound(present) == (table > 0 <=> present) /\ (present => qdisc = "ours")

\* applyNetwork fails before it changes anything: preflightTCOwnership finds
\* the root qdisc of another program, or nft fails.
Refused(before, after) ==
  /\ \/ (before \/ after) /\ qdisc = "foreign" /\ UNCHANGED faults
     \/ Fault
  /\ UNCHANGED kernelVars

\* What was counted before the rules were built is gone with the old counter.
Rules(present) == table' = (IF present THEN 1 ELSE 0) /\ counter' = 0

\* tableExists said no: without the flush the rules are there once more, and
\* the counter goes on.
Added(present) ==
  /\ table > 0
  /\ table' = (IF present THEN table + 1 ELSE table)
  /\ UNCHANGED counter

Qdisc(before, after) ==
  qdisc' = IF after THEN "ours" ELSE IF before THEN "none" ELSE qdisc

\* applyNetwork succeeds.  Where tableExists fails verifyNetwork sees the rules
\* all the same; a table that was to go stays if it fails there as well.
Built(before, after) ==
  /\ (before \/ after) => qdisc # "foreign"
  /\ \/ Rules(after) /\ UNCHANGED faults
     \/ Added(after) /\ Fault
  /\ Qdisc(before, after)

\* tc fails, or verifyNetwork does, after nft has run: the former rules are
\* built anew.  What the commands of the roll back say is ignored; it flushes
\* only if there were to be rules.
RolledBack(before, after) ==
  /\ before \/ after
  /\ qdisc # "foreign"
  /\ Fault
  /\ Rules(before) \/ (~after /\ Added(before))
  /\ Qdisc(after, before) \/ UNCHANGED qdisc

\* Of the counter a step restarts, the bytes beyond those that were read.
Missed == IF counter' < counter /\ counter > raw THEN counter - raw ELSE 0

\* What stays uncounted if the counter was restarted and the file is not
\* written: the bytes that were read, and as many of the next as its mark hides.
Unwritten == IF rebuilt THEN Unread(disk, raw) + disk.last ELSE 0

\* Traffic passes the rules.
Traffic ==
  /\ table > 0
  /\ passed < MaxBytes
  /\ passed' = passed + 1
  /\ counter' = counter + table
  /\ UNCHANGED <<table, qdisc, disk, expired, processVars, reported, lost, doubled, commits, faults>>

\* Another program deletes the table, and with it what was not read.
DeleteTable ==
  /\ table > 0
  /\ Fault
  /\ Rules(FALSE)
  /\ lost' = lost + counter
  /\ UNCHANGED <<qdisc, disk, expired, processVars, reported, passed, doubled, commits>>

\* Another program replaces the root qdisc, or takes its own away.
ChangeQdisc ==
  /\ \/ Fault /\ qdisc # "foreign" /\ qdisc' = "foreign"
     \/ qdisc = "foreign" /\ qdisc' = "none" /\ UNCHANGED faults
  /\ UNCHANGED <<table, counter, disk, expired, processVars, reported, historyVars>>

\* A request that expires before it was used is one that was never sent.
Expire(r) ==
  /\ r \in disk.used \ expired
  /\ expired' = expired \cup {r}
  /\ UNCHANGED <<kernelVars, disk, processVars, reported, historyVars, faults>>

-----------------------------------------------------------------------------
(* The helper process.  It ends whenever pc returns to "idle". *)

Exit ==
  /\ pc' = "idle"
  /\ request' = NoRequest
  /\ raw' = 0
  /\ mem' = Empty
  /\ rebuilt' = FALSE

\* snapshot: read, verify.  Unless the rules prove sound they are restored.  A
\* snapshot that cannot restore them counts what is left, again and again:
\* MaxCount ends that in the model.
ReadSnapshot ==
  /\ pc = "idle"
  /\ qdisc = "foreign" /\ counter > 0 => disk.lifetime < MaxCount
  /\ request' = NoRequest
  /\ raw' = counter
  /\ \/ Sound(disk.present) /\ UNCHANGED faults /\ mem' = Count(disk, counter) /\ pc' = "commit"
     \/ /\ (~Sound(disk.present) /\ UNCHANGED faults) \/ Fault
        /\ mem' = Absorb(disk, counter)
        /\ pc' = "restore"
  /\ UNCHANGED <<kernelVars, disk, expired, rebuilt, reported, historyVars>>

\* The error of applyNetwork is dropped and the counter read once more.  If the
\* counter was not restarted that counts what was just absorbed.
Restore ==
  /\ pc = "restore"
  /\ \/ /\ Refused(disk.present, disk.present)
        /\ doubled' = (doubled \/ counter > 0)
        /\ UNCHANGED <<lost, rebuilt>>
     \/ /\ Built(disk.present, disk.present) \/ RolledBack(disk.present, disk.present)
        /\ lost' = lost + Missed
        /\ rebuilt' = (counter' < counter)
        /\ doubled' = (doubled \/ table' > 1)
  /\ mem' = Count(mem, counter')
  /\ pc' = "commit"
  /\ UNCHANGED <<disk, expired, request, raw, reported, passed, commits>>

Seen(s) == [lifetime |-> s.lifetime, start |-> s.start, generation |-> s.generation]

\* Variant: the observations are returned even if the checkpoint fails.
CommitSnapshotReportsFirst ==
  /\ pc = "commit"
  /\ request = NoRequest
  /\ reported' = (IF mem.present THEN Seen(mem) ELSE reported)
  /\ \/ disk' = mem /\ UNCHANGED <<lost, faults>>
     \/ Fault /\ lost' = lost + Unwritten /\ UNCHANGED disk
  /\ Exit
  /\ UNCHANGED <<kernelVars, expired, passed, doubled, commits>>

\* The checkpoint is written, then the observations are returned; the process
\* may stop in between.
CommitSnapshot ==
  /\ pc = "commit"
  /\ request = NoRequest
  /\ \/ /\ disk' = mem
        /\ \/ mem.present /\ reported' = Seen(mem) /\ UNCHANGED faults
           \/ ~mem.present /\ UNCHANGED <<reported, faults>>
           \/ Fault /\ UNCHANGED reported
        /\ UNCHANGED lost
     \/ Fault /\ lost' = lost + Unwritten /\ UNCHANGED <<disk, reported>>
  /\ Exit
  /\ UNCHANGED <<kernelVars, expired, passed, doubled, commits>>

\* executeRequest up to the first change.  No bytes are read if tableExists
\* fails.  A dry run writes the baseline.
BeginRequest(r) ==
  /\ pc = "idle"
  /\ r \notin expired
  /\ r \notin disk.used
  /\ Operation[r] = "reset" => disk.present
  /\ request' = r
  /\ \/ raw' = counter /\ UNCHANGED faults
     \/ table > 0 /\ Fault /\ raw' = 0
  /\ \/ /\ r \in Dry
        /\ mem' = Consume(Absorb(disk, raw'), r)
        /\ pc' = "commit"
     \/ /\ r \notin Dry
        /\ mem' = Consume(Desired(Absorb(disk, raw'), r), r)
        /\ pc' = "apply"
  /\ UNCHANGED <<kernelVars, disk, expired, rebuilt, reported, historyVars>>

\* A refusal is returned, and so is a failure after which the former rules were
\* built anew: what was absorbed for them is not written.  The first rules of a
\* policy start its history.
ApplyRequest ==
  /\ pc = "apply"
  /\ \/ /\ Refused(disk.present, mem.present)
        /\ Exit
        /\ UNCHANGED historyVars
     \/ /\ RolledBack(disk.present, mem.present)
        /\ Exit
        /\ lost' = lost + (counter - counter')
        /\ doubled' = (doubled \/ table' > 1)
        /\ UNCHANGED <<passed, commits>>
     \/ /\ Built(disk.present, mem.present)
        /\ pc' = "commit"
        /\ rebuilt' = (counter' < counter)
        /\ passed' = (IF disk.present THEN passed ELSE 0)
        /\ lost' = (IF disk.present THEN lost + Missed ELSE 0)
        /\ doubled' = ((disk.present /\ doubled) \/ counter' > 0 \/ table' > 1)
        /\ UNCHANGED <<request, raw, mem, commits>>
  /\ UNCHANGED <<disk, expired, reported>>

\* A dry run leaves the counter as it is, and forgets that it has been counted.
CommitRequest ==
  /\ pc = "commit"
  /\ request \in Requests
  /\ disk' = mem
  /\ commits' = (IF request \in Dry THEN commits ELSE [commits EXCEPT ![request] = @ + 1])
  /\ doubled' = (doubled \/ (request \in Dry /\ disk.present /\ (raw > 0 \/ disk.last > 0)))
  /\ reported' = (IF mem.present /\ ~disk.present THEN Nothing ELSE reported)
  /\ Exit
  /\ UNCHANGED <<kernelVars, expired, passed, lost, faults>>

\* The state cannot be written.
CommitFails ==
  /\ pc = "commit"
  /\ request \in Requests
  /\ Fault
  /\ \/ request \in Dry /\ Exit
     \/ request \notin Dry /\ pc' = "undo" /\ UNCHANGED <<request, raw, mem, rebuilt>>
  /\ UNCHANGED <<kernelVars, disk, expired, reported, historyVars>>

\* applyNetwork(desired, baseline); its error is dropped.
Undo ==
  /\ pc = "undo"
  /\ \/ Refused(mem.present, disk.present)
     \/ Built(mem.present, disk.present)
     \/ RolledBack(mem.present, disk.present)
  /\ lost' = lost + (counter - counter')
  /\ doubled' = (doubled \/ table' > 1)
  /\ pc' = "save"
  /\ UNCHANGED <<disk, expired, request, raw, mem, rebuilt, reported, passed, commits>>

\* writeState(baseline); its error is dropped.
Save ==
  /\ pc = "save"
  /\ \/ disk' = Baseline /\ UNCHANGED <<lost, faults>>
     \/ Fault /\ lost' = lost + Unwritten /\ UNCHANGED disk
  /\ Exit
  /\ UNCHANGED <<kernelVars, expired, reported, passed, doubled, commits>>

\* The process stops, or gives up because it cannot read the counters.
Stop ==
  /\ pc # "idle"
  /\ Fault
  /\ lost' = lost + Unwritten
  /\ Exit
  /\ UNCHANGED <<kernelVars, disk, expired, reported, passed, doubled, commits>>

\* It stops between nft and tc, or its twenty seconds end there: then no
\* command of the roll back runs either.
StopHalfway ==
  /\ \/ pc = "restore" /\ Rules(disk.present)
     \/ pc = "apply" /\ Rules(mem.present)
     \/ pc = "undo" /\ Rules(disk.present)
  /\ disk.present \/ mem.present => qdisc # "foreign"
  /\ Fault
  /\ lost' = lost + counter + Unwritten
  /\ Exit
  /\ UNCHANGED <<qdisc, disk, expired, reported, passed, doubled, commits>>

Helper ==
  Restore \/ CommitSnapshot \/ ApplyRequest \/ CommitRequest \/ CommitFails \/ Undo \/ Save

Next ==
  \/ Traffic \/ DeleteTable \/ ChangeQdisc
  \/ \E r \in Requests : Expire(r) \/ BeginRequest(r)
  \/ ReadSnapshot
  \/ Helper
  \/ Stop \/ StopHalfway

Spec == Init /\ [][Next]_vars

\* A helper that was started goes on, and the agent asks for a snapshot before
\* every heartbeat, whatever else it asks for.
FairSpec == Spec /\ WF_vars(Helper) /\ SF_vars(ReadSnapshot)

-----------------------------------------------------------------------------
(* Properties. *)

\* What the next sound snapshot will report.
Tally == disk.lifetime + Unread(disk, counter)

\* No byte is counted twice, except by the steps that are known to do so
\* (doubled): a restore of the rules that fails, a dry run, and rules that are
\* added to those there are because tableExists failed.  Neither rebuilding the
\* rules between reading and writing, nor a crash, nor a roll back brings back
\* what is in the file.
CountsOnce == pc = "idle" /\ disk.present /\ ~doubled => Tally <= passed

\* Every byte is counted, but for as many as failures left behind (lost), and
\* none after them: a rebuild moves the bytes of the old counter into the file
\* whatever was done before it.  A step loses bytes only where the counter goes
\* and the file is not written (the table is deleted, tc fails, a write fails or
\* the process stops after a rebuild), where the counter was not read because
\* tableExists failed, or where bytes pass between reading and rebuilding.
CountsAll == pc = "idle" /\ disk.present => Tally + lost >= passed

\* What PORT_TRAFFIC_SECURITY_MODEL.md says of a failure of tc: the former rules
\* are back, with what was absorbed.  applyNetwork builds them from the absorbed
\* state, and executeRequest returns without writing it.
RollbackKeeps ==
  [][pc = "apply" /\ pc' = "idle" /\ disk.present /\ RolledBack(disk.present, mem.present)
       => Tally' >= Tally]_vars

\* The observations of one generation never go back, through every failure,
\* and its period keeps its start: a snapshot is in the file before it is
\* returned, and a reset that is taken back has not been reported.
ReportsAdvance ==
  [][reported'.generation = reported.generation
       => reported'.lifetime >= reported.lifetime /\ reported'.start = reported.start]_vars

\* A signed task changes the policy at most once, however often it is sent:
\* its nonce is in the file together with its effect.
RequestOnce == \A r \in Requests : commits[r] <= 1

\* Rules that were deleted, left half built or built for a policy that was
\* never written are put right by a snapshot, unless another program holds the
\* root qdisc.
RulesReturn ==
  []<>(\/ qdisc = "foreign"
       \/ disk.present /\ table > 0 /\ qdisc = "ours"
       \/ ~disk.present /\ table = 0)
=============================================================================
