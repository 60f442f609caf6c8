\* Samples: two hours of two ticks and the start of a third, with two events; the
\* first hour can be pruned.  Accounts: two users, two requests at a time of one
\* workload.
CONSTANTS
  None = None
  MaxTicks = 4
  MaxEvents = 2
  Hour = 2
  Day = 4
  RawRetention = 2
  HourlyRetention = 3
  Threshold = 3
  Level = 2
  Users = {u1, u2}
  Roles <- MCRoles
  Sessions = {s1, s2}
  Threads = {t1, t2}
  Workloads <- MCWorkloads
  MaxChanges = 2
  MaxSecrets = 3
  MaxTime = 2
  Absent = Absent
  Deleted = Deleted
  Idle = Idle
SPECIFICATION MCSpec
SYMMETRY Symmetry
INVARIANTS
  CountedOnce
  ViewsAgree
  OwnerRemains
  SessionsCurrent
  FactorsSound
CHECK_DEADLOCK FALSE
