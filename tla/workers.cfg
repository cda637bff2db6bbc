SPECIFICATION Spec
CONSTANTS
  None = None
  Unknown = Unknown
  Jobs = {j1}
  DevRuns = {d1}
  Workflows = {f1}
  Workers = {w1, w2}
  Handlers = {h1}
  Clients = {c1, c2}
  FailureTypes = {Unknown, LintError}
  MaxRetries = 0
  MaxRedeliveries = 0
  MaxManualRetries = 2
  Faults = {"error", "timeout", "crash", "redis", "fastCI"}
CHECK_DEADLOCK FALSE
SYMMETRY Symmetry
INVARIANTS PRBacked GreenIsCarried PrUrlIsReal
PROPERTY WorkersImplementBranches
