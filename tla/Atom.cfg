SPECIFICATION Spec
CONSTANTS
  Call <- MCCall
  Strtoll <- MCStrtoll
  Word <- MCWord
  NameRank <- MCRank
  None = None
INVARIANTS VersionsOrdered Antisymmetric BlockersInvert SortSound
CHECK_DEADLOCK FALSE
