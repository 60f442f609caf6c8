\* Resets: two boundaries; two scheduled resets, also of one boundary, and one
\* asked for.  Releases: three of two schemas, with three breakdowns.
CONSTANTS
  Scheduled = {s1, s2}
  Requested = {r}
  MaxFaults = 1
  MaxTime = 3
  Calendar <- TwoBoundaries
  MaxReleases = 3
  MaxSchema = 2
  MaxBreakdowns = 3
SPECIFICATION MCSpec
INVARIANTS
  NothingSkipped
  HistoryComplete
  Whole
  Schema
PROPERTIES
  BackOnlyByOverlap
  ScheduleMoves
  Outcome
  Recovers
CHECK_DEADLOCK FALSE
