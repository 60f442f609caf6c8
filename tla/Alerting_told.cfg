\* Ticks of 15 s: offline after 90 s, a round every 30 s, three failures.
CONSTANTS
  FailureThreshold = 3
  RecoveryThreshold = 2
  Sources = {"check", "agent", "host"}
  MaxAttempts = 2
  OfflineAfter = 6
  StaleAfter = 3
  Interval = 2
  MaxDeliveries = 2
  MaxFaults = 1
SPECIFICATION FairSpec
INVARIANTS
  Told
  InOrderOnce
  OfflineCounted
PROPERTIES
  DeliveryEnds
CHECK_DEADLOCK FALSE
