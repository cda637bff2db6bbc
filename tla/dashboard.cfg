SPECIFICATION DashSpec
CONSTANTS
  NJobs = 3
  All = All
  None = None
  PerPage = 1
  TableSize = 2
  Slots = {s1, s2}
  MaxCommits = 4
  MaxEdits = 1
  MaxErrors = 1
CHECK_DEADLOCK FALSE
INVARIANTS PagingSkipsNothing TotalIsKept
PROPERTIES StripNeverGoesBack StripCatchesUp TableCatchesUp
