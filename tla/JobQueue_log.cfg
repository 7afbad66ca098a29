SPECIFICATION FairSpec
CONSTANTS
  a = a
  b = b
  c = c
  Jobs <- Three
  Operation <- Runs3
  Workers = 2
  Limit = 1
CONSTRAINT TwoAtShutdown
INVARIANTS TypeOK DoneIsComplete
PROPERTIES EvictionTrims ImplementsLog EveryJobSettles
