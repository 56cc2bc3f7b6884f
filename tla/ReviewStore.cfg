SPECIFICATION Spec
CONSTANTS
  Persona = {1, 2}
  Requests <- FullPanel
  Slot = {1, 2}
  MaxRetries = 1
  TokenBudget = 0
  Mishaps = {"workerdb"}
INVARIANTS PanelHasSpoken HistoryWasSaid SummaryOnce AnnouncedHasReport
