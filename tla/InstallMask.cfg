SPECIFICATION Spec
CONSTANTS
  Entry <- MCEntry
  Kind <- MCKind
  Foreign <- MCForeign
  UsrShare <- MCUsrShare
  Matches <- MCMatches
  Rule <- MCRule
  MaxRules = 3
INVARIANTS MaskedGo OnlyMasked
CHECK_DEADLOCK FALSE
