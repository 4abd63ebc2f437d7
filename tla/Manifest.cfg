SPECIFICATION Spec
CONSTANTS
  Files <- MCFiles
  Names <- MCNames
  Listed <- MCListed
  New <- MCNew
  Subtrees = {"profiles"}
  Contents = {1, 2, 3}
  Empty = 3
  Threads = {t1, t2}
  MaxEdits = 2
  MaxKills = 1
  MaxRuns = 2
SYMMETRY MCSymmetry
INVARIANTS
  VerifiedUnchanged
  GeneratedVerifies
PROPERTIES
  OnlyChanged
  DistKept
CHECK_DEADLOCK FALSE
