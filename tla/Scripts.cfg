SPECIFICATION Spec
CONSTANTS
  kMaxTasks = 2
  MaxId = 2
  Radix = 2
  Inputs <- MCInputs
  MaxInterrupts = 2
  MaxForeign = 2
INVARIANT PassIsEarned
INVARIANT TasksAsAsked
PROPERTY CauseKept
PROPERTY ScriptEnds
