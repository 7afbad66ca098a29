SPECIFICATION Spec
CONSTANTS
  a = a
  b = b
  c1 = c1
  c2 = c2
  p1 = p1
  p2 = p2
  NoPath = NoPath
  Unmapped = Unmapped
  Byte <- Chunks
  Contents <- Documents
  Clients <- Threads
  Paths <- Files
  MaxGeneration = 3
CONSTRAINT OneAtLast
SYMMETRY Symmetric
INVARIANTS CleanMeansWritten BaselineTells WrittenAtOneMoment
PROPERTY ImplementsLine
