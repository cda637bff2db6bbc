SPECIFICATION EntrySpec
CONSTANTS
  None = None
  Unknown = Unknown
  Jobs = {j1, j2}
  DevRuns = {d1}
  Workflows = {f1}
  Workers = {w1}
  Handlers = {h1, h2}
  Clients = {}
  FailureTypes = {Unknown}
  MaxRetries = 0
  MaxRedeliveries = 2
  MaxManualRetries = 0
  Faults = {"redis", "crash", "expiry", "loss"}
CHECK_DEADLOCK FALSE
SYMMETRY EntrySymmetry
INVARIANTS OneRepairPerFailure EntryIsExact
