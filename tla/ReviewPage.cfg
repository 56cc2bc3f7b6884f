SPECIFICATION Spec
CONSTANTS
  Review = {1, 2}
  None = none
  Script <- TwoReviews
  Scripted = {1}
  Late <- DatedLate
  Last = 5
  MaxVisits = 1
INVARIANTS HeaderAccounted InputAccounted TimelineAgrees ThreadAccounted
