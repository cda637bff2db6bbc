SPECIFICATION Spec
CONSTANTS
  None = None
  Unknown = Unknown
  Jobs = {j1}
  DevRuns = {d1}
  Workflows = {f1, f2}
  Workers = {w1}
  Handlers = {h1}
  Clients = {}
  FailureTypes = {Unknown}
  MaxRetries = 3
  MaxRedeliveries = 0
  MaxManualRetries = 0
  Faults = {}
CHECK_DEADLOCK FALSE
INVARIANT VerifiedPR
