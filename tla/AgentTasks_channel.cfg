\* Two repairs of one target, one failure and one late request.  The safety
\* properties are proved for all values (AgentTasks_proofs.tla).
CONSTANTS
  repair1 = repair1
  repair2 = repair2
  port = port
  target = target
  chain = chain
  NoTask = NoTask
  Tasks = {repair1, repair2}
  Keys = {target}
  KeyOf <- RepairKeys
  Cooled = {repair1, repair2}
  PortTasks = {}
  MaxQueueBytes = 4
  ResultBytes = 2
  SnapshotLimit = 1
  BatchLimit = 2
  MaxFaults = 1
  MaxLate = 1
SPECIFICATION FairSpec
INVARIANTS
  VerdictIsFirstAnswer
  AnswerIsKept
  RerunOnlyIfDisturbed
PROPERTIES
  OldestFirst
  ImplementsOutcome
  TaskConcludes
