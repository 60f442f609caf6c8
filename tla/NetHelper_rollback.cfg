\* One policy that is created and reset; a single failure.
CONSTANTS
  create = create
  remove = remove
  reset = reset
  dry = dry
  NoRequest = NoRequest
  Requests = {create, reset}
  Operation <- Operations
  Generation <- Generations
  Dry = {}
  MaxBytes = 2
  MaxCount = 1
  MaxFaults = 1
SPECIFICATION Spec
PROPERTIES
  RollbackKeeps
CHECK_DEADLOCK FALSE
