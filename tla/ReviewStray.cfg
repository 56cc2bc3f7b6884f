SPECIFICATION Spec
CONSTANTS
  Persona = {1}
  Requests <- FullPanel
  Slot = {1, 2}
  MaxRetries = 1
  TokenBudget = 0
  Mishaps = {"ambiguous", "webdb", "registry", "webcrash"}
INVARIANTS OneLiveTask ReportHasBasis ChargedWasSpent
