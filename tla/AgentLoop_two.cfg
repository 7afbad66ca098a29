SPECIFICATION Spec
CONSTANTS
  t1 = t1
  t2 = t2
  c1 = c1
  c2 = c2
  c3 = c3
  k1 = k1
  k2 = k2
  NoTurn = NoTurn
  NoCall = NoCall
  Turns <- TwoTurns
  Calls <- TwoCalls
  Owner <- OwnerTwo
  Kinds <- OneKind
  KindOf <- KindOne
  Destructive <- FirstTwo
  Meta <- NoCalls
  Levels <- DestructiveOrNone
  Requests <- AsStream
  MaxIterations = 2
CONSTRAINT OneDisturbance
INVARIANTS PendingIsAwaited NoOrphanTask NoWaiterAfterShutdown NoWaiterWhileCancelling
