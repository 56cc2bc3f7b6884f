SPECIFICATION Spec
CONSTANTS
  Caller = {c1, c2}
  FailureThreshold = 3
  RecoveryTimeout = 2
  MaxRetries = 2
  CountCap = 5
INVARIANTS CountDecidesState
PROPERTIES OnlySuccessCloses CallsEnd
