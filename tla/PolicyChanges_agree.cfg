\* Two edits, or a creation and an edit; a request, two administrators, one fault.
CONSTANTS
  None = None
  e1 = e1
  e2 = e2
  r1 = r1
  u1 = u1
  u2 = u2
  Edits = {e1, e2}
  Requests = {r1}
  Users = {u1, u2}
  Changes <- Asked
  MaxFaults = 1
SYMMETRY Symmetric
SPECIFICATION Spec
INVARIANTS
  HostAgrees
  OnlyApproved
  ApprovalAgrees
CHECK_DEADLOCK FALSE
