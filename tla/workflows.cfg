SPECIFICATION Spec
CONSTANTS
  None = None
  Unknown = Unknown
  Jobs = {j1}
  DevRuns = {d1}
  Workflows = {f1, f2}
  Workers = {w1, w2}
  Handlers = {h1}
  Clients = {}
  FailureTypes = {Unknown}
  MaxRetries = 1
  MaxRedeliveries = 0
  MaxManualRetries = 0
  Faults = {"error", "timeout"}
CHECK_DEADLOCK FALSE
SYMMETRY Symmetry
INVARIANTS RetriesBounded EscalationEarned
PROPERTY OnlyFaultsStrand
