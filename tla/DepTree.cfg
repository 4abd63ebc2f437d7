SPECIFICATION Spec
CONSTANTS
  Words <- MCWords
  MaxTokens = 7
INVARIANTS GrownTrue ReadBack ListedTrue ResolvedTrue
CHECK_DEADLOCK FALSE
