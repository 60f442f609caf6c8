SPECIFICATION Spec
CONSTANTS
  MaxSnapshots = 2
  Keep = 1
  Attests = {a1, a2}
  Restores = {r1, r2}
  Job = Job
  None = None
SYMMETRY Symmetry
INVARIANTS
  AttestedOnce
  VerifiedRestored
PROPERTIES
  ForgottenAsApproved
  RestoredAsApproved
