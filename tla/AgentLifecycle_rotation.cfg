\* One enrolment and one rotation of the identity.
CONSTANTS
  MaxVersion = 3
  MaxTokens = 1
  MaxSessions = 1
  Kinds <- OnlyRotation
SPECIFICATION LifecycleSpec
INVARIANT ReportsFit
CHECK_DEADLOCK FALSE
