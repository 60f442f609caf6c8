\* Three versions, two enrolments, any maintenance and then a replacement.
CONSTANTS
  MaxVersion = 3
  MaxTokens = 2
  MaxSessions = 2
  Kinds <- ThenReinstall
SPECIFICATION LifecycleSpec
INVARIANTS
  OneActive
  
CHECK_DEADLOCK FALSE
