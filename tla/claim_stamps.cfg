SPECIFICATION Spec
CONSTANTS
  None = None
  Unknown = Unknown
  Jobs = {j1}
  DevRuns = {d1}
  Workflows = {f1}
  Workers = {w1}
  Handlers = {h1}
  Clients = {c1}
  FailureTypes = {Unknown}
  MaxRetries = 3
  MaxRedeliveries = 0
  MaxManualRetries = 1
  Faults = {}
CHECK_DEADLOCK FALSE
INVARIANT StampsAreTrue
