SPECIFICATION Spec
CONSTANTS
  Persona = {1, 2}
  Requests <- FullPanel
  Slot = {1}
  MaxRetries = 1
  TokenBudget = 1
  Mishaps = {}
INVARIANT FailureShows
