SPECIFICATION Spec
CONSTANTS
  Persona = {1, 2}
  Requests <- AnyPanel
  Slot = {1}
  MaxRetries = 1
  TokenBudget = 8
  Mishaps = {"broker", "crash", "orgbudget", "editor", "deletion"}
INVARIANTS BudgetGate
PROPERTIES KeepsPromise ChainEnds GoesThrough
