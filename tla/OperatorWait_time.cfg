SPECIFICATION Spec
CONSTANTS
  r1 = r1
  r2 = r2
  q1 = q1
  q2 = q2
  Requests <- Both
  Questions <- TwoQuestions
  Budget <- Budgets
  Factor = 2
  MaxProgress = 2
  MaxTime = 4
CHECK_DEADLOCK FALSE
INVARIANTS TimeoutIsEarned SilenceEnds CapHolds SuspendedTogether
