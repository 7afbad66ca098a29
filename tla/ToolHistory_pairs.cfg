SPECIFICATION Spec
CONSTANTS
  t1 = t1
  t2 = t2
  c0 = c0
  c1 = c1
  NoTurn = NoTurn
  NoRow = NoRow
  Turns <- TwoTurns
  CallIds <- TwoIds
  Rows <- NewOrOld
  MaxIterations = 2
  MaxLoads = 1
INVARIANTS OutgoingAccepted OnlyUnpairedDropped
SYMMETRY Interchangeable
CONSTRAINT Short
CHECK_DEADLOCK FALSE
