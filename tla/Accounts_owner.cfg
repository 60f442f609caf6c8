\* Two users, two requests at a time, about ownership.
SPECIFICATION Spec
CONSTANTS
  Users = {u1, u2}
  Roles <- MCRoles
  Sessions = {s1, s2}
  Threads = {t1, t2}
  Workloads <- Ownership
  MaxChanges = 2
  MaxSecrets = 3
  MaxTime = 2
  Absent = Absent
  Deleted = Deleted
  Idle = Idle
SYMMETRY Symmetry
CHECK_DEADLOCK FALSE
INVARIANTS
  LastOwnerStays
