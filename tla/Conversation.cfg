SPECIFICATION Spec
CONSTANTS
  Turn = {t1, t2}
  Unmetered = {t2}
  Stream = {s1, s2}
  Budget = 1
  DeltaCap = 1
  NoTurn = NoTurn
  NoStream = NoStream
INVARIANTS NeverStale OneStreamsAnswer DoneIsKept UsageFollows
PROPERTIES AdmittedWithinBudget Settled StreamsEnd
