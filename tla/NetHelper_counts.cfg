\* One policy: created, reset, tried out and removed, two failures of any kind.
CONSTANTS
  create = create
  remove = remove
  reset = reset
  dry = dry
  NoRequest = NoRequest
  Requests = {create, remove, reset, dry}
  Operation <- Operations
  Generation <- Generations
  Dry = {dry}
  MaxBytes = 2
  MaxCount = 1
  MaxFaults = 2
SPECIFICATION FairSpec
INVARIANTS
  CountsOnce
  CountsAll
  RequestOnce
PROPERTIES
  ReportsAdvance
  RulesReturn
