CONSTANTS
  Part = {p1, p2}
  MaxVersion = 7
  WeakCasFails = TRUE
SPECIFICATION FairSpec
INVARIANTS TypeOK NoTornFrame FreshUnlessGaveUp
PROPERTIES RegisterSpec EventuallySeen
