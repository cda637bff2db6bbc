SPECIFICATION Spec
CONSTANTS
  None = None
  Unknown = Unknown
  Jobs = {j1}
  DevRuns = {d1}
  Workflows = {f1}
  Workers = {w1}
  Handlers = {h1}
  Clients = {c1}
  FailureTypes = {Unknown}
  MaxRetries = 1
  MaxRedeliveries = 1
  MaxManualRetries = 1
  Faults = {"error", "crash", "redis", "expiry", "loss", "fastCI"}
CHECK_DEADLOCK FALSE
SYMMETRY Symmetry
INVARIANTS TypeOK NothingDangles CompletionHasAttempt AttemptBudget
PROPERTY OnlyFaultsStrand
