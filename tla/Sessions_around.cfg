SPECIFICATION Spec
CONSTANTS
  turn = turn
  save = save
  load = load
  delete = delete
  start = start
  quit = quit
  i1 = i1
  i2 = i2
  i3 = i3
  First = First
  None = None
  Ids <- IdsThree
  FirstId = i1
  Kind <- Kinds1
  Target <- ToThird
  Ops <- All
  Saves = 1
  Days = 1
  Retention = 0
CHECK_DEADLOCK FALSE
CONSTRAINT Together
INVARIANTS CompletedTurnStored FailedTurnForgotten OneWorkerUncontended AutoSaveFollows
