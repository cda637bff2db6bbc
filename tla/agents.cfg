SPECIFICATION AgentSpec
CONSTANTS
  Files = {a, b}
  FailureTypes = {Unknown, LintError}
  Unknown = Unknown
  None = None
  MaxFilesRead = 1
  MaxFiles = 1
  MaxLines = 1
  MaxLength = 4
CHECK_DEADLOCK FALSE
INVARIANTS OutcomeIsDispatchable PromptIsBounded ExactOnOrdinary
  ReadyPatchIsSafe
