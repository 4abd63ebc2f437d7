SPECIFICATION FetchSpec
CONSTANTS
  a = a  b = b  c = c
  Pkg <- MCPkg
  Needs <- MCNeeds
  Hashes <- MCHashes
  Sized <- MCPkg
  Runs <- MCAllRuns
  MaxDepth = 3
  MaxRuns = 1
  MaxSwaps = 1
  NoPkg = NoPkg
INVARIANTS VerifiedOnly
PROPERTIES GoodKept
CHECK_DEADLOCK FALSE
