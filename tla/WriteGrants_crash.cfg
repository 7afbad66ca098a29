SPECIFICATION Spec
CONSTANTS
  p1 = p1
  p2 = p2
  a1 = a1
  b1 = b1
  a2 = a2
  d1 = d1
  d2 = d2
  None = None
  Gone = Gone
  Programs <- Both
  Dirs <- Folders
  Launches <- Servers
  Program <- Owner
  Needs <- Lists
CONSTRAINT Unmet
INVARIANTS GrantInForce LowIsRecorded
