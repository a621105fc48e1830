CONSTANTS
  p1 = p1
  p2 = p2
  p3 = p3
  p4 = p4
  Process = {p1, p2, p3, p4}
  Opens <- OpensMixed
  Crashes = TRUE
SPECIFICATION FairSpec
INVARIANTS TypeOK LockCovers
PROPERTY LockIsFreed
