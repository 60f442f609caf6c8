\* Two faults, the second with the Level 2 runbook, and one retry.
CONSTANTS
  Faults = {1, 2}
  Level2 = {2}
  MaxActual = 2
  MaxIncidents = 2
  MaxAttempts = 3
  MaxUpdates = 1
  MaxFailures = 1
SPECIFICATION Spec
INVARIANTS
  DryRunFirst
  ConclusionAgrees
PROPERTIES
  WorkKept
CHECK_DEADLOCK FALSE
