SPECIFICATION FairSpec
CONSTANTS
  None = None
  Unknown = Unknown
  Jobs = {j1, j2}
  DevRuns = {d1, d2}
  Workflows = {f1}
  Workers = {w1}
  Handlers = {h1}
  Clients = {c1}
  FailureTypes = {Unknown}
  MaxRetries = 1
  MaxRedeliveries = 0
  MaxManualRetries = 1
  Faults = {"error"}
CHECK_DEADLOCK FALSE
PROPERTIES ImplementsLifecycle TerminalIsFinal EveryFailureResolved
