SPECIFICATION ReportingSpec
CONSTANTS
  None = None
  Unknown = Unknown
  Jobs = {j1}
  DevRuns = {d1}
  Workflows = {f1}
  Workers = {w1}
  Handlers = {h1}
  Clients = {}
  FailureTypes = {Unknown, LintError}
  MaxRetries = 3
  MaxRedeliveries = 2
  MaxManualRetries = 0
  Faults = {"error"}
CHECK_DEADLOCK FALSE
INVARIANTS NoStrandedJob OneDriver VerifiedPR StampsAreTrue
  PrimedWithFailedPatch AttemptsNumbered
  TimelineChronological TimelineExplains StatsAgree AttemptsCounted
