-------------------------- MODULE LifecycleJournal --------------------------
(***************************************************************************)
(* The journal of an installation, upgrade or rollback of the controller.  *)
(*                                                                         *)
(*   scripts/lifecycle-journal.py                                          *)
(*                                                                         *)
(* Every command holds the lock of the journal and replaces the file by    *)
(* one that is complete and on disk, so a command happens or does not.     *)
(* Releases are numbers; 0 stands for none.  The revisions of the database *)
(* and the state of the controller are written and never read again.       *)
(***************************************************************************)
EXTENDS Integers

\* The code also names two operations of a staging host, which no script uses.
Operations == {"install", "upgrade", "rollback"}

PHASE_TRANSITIONS ==
  [initialized         |-> {"prepared", "recovery_required", "aborted"},
   prepared            |-> {"quiesced", "database_updated", "units_updated",
                            "recovery_required", "aborted"},
   quiesced            |-> {"database_updated", "units_updated", "candidate_activated",
                            "recovery_required"},
   database_updated    |-> {"units_updated", "candidate_activated", "recovery_required"},
   units_updated       |-> {"candidate_activated", "recovery_required"},
   candidate_activated |-> {"verified", "recovery_required"},
   verified            |-> {"committed", "recovery_required"},
   recovery_required   |-> {"recovery_started"},
   recovery_started    |-> {"previous_restored", "aborted"},
   committed           |-> {},
   previous_restored   |-> {},
   aborted             |-> {}]

Phases   == DOMAIN PHASE_TRANSITIONS
Terminal == {"committed", "previous_restored", "aborted"}

\* There is no journal file.
NoJournal == [op |-> "none", phase |-> "none", previous |-> 0, candidate |-> 0,
              units |-> <<>>, timer |-> FALSE]

\* init: there is no journal, not even a finished one.
CanInitialize(journal) == journal = NoJournal

\* units are the references to the unit files to go back to.
Created(op, previous, candidate, units, timer) ==
  [op |-> op, phase |-> "initialized", previous |-> previous,
   candidate |-> candidate, units |-> units, timer |-> timer]

Valid(journal) ==
  /\ (journal.op = "install") = (journal.previous = 0)
  /\ journal.previous # journal.candidate
  /\ journal.phase = "previous_restored" => journal.previous # 0

Updated(journal, phase) == [journal EXCEPT !.phase = phase]

CanUpdate(journal, phase) ==
  /\ journal # NoJournal
  /\ phase \in PHASE_TRANSITIONS[journal.phase]
  /\ Valid(Updated(journal, phase))

CanClear(journal) == journal # NoJournal /\ journal.phase \in Terminal
=============================================================================
