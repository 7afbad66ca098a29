SPECIFICATION CancelSpec
CONSTANTS
  t1 = t1
  t2 = t2
  c1 = c1
  c2 = c2
  c3 = c3
  k1 = k1
  k2 = k2
  NoTurn = NoTurn
  NoCall = NoCall
  Turns <- OneTurn
  Calls <- ThreeCalls
  Owner <- OwnerOne
  Kinds <- BothKinds
  KindOf <- KindFirstApart
  Destructive <- FirstOnly
  Meta <- ThirdOnly
  Levels <- OnlyDestructive
  Requests <- EitherWay
  MaxIterations = 2
PROPERTIES CancelIsServed AttendedTurnEnds
INVARIANTS DeclinedNeverRan ResultsBeforeNextRequest
