SPECIFICATION FairSpec
CONSTANTS
  o1 = o1
  o2 = o2
  o3 = o3
  end = end
  None = None
  Ops <- TwoAndQuit
  KindsOf <- BootAnd
  MaxAttempts = 2
CHECK_DEADLOCK FALSE
CONSTRAINTS Pairs OneRetries
INVARIANTS NoStray DropIsOwn ListenerHasClient
PROPERTIES StoppedStaysDown ReasonSurvives OperationsEnd
