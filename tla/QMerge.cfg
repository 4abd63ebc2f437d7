SPECIFICATION FairSpec
CONSTANTS
  a1 = a1  a2 = a2  b1 = b1  A = A  B = B
  etc = etc  conf = conf  usr = usr  lnk = lnk  tool = tool  lib = lib
  Pkg <- MCPkg
  NoPkg = NoPkg
  Slot <- MCSlot
  Ver <- MCVer
  Path <- MCPath
  Up <- MCUp
  Loc <- MCLoc
  Data <- MCData
  NoData = NoData
  User = "admin"
  Image <- MCImage
  Base <- MCBase
  RDepend <- MCRDepend
  Phases <- MCPhases
  Eapi <- MCEapi
  Starts <- MCStarts
  Protect = {"/etc"}
  Mask = {}
  BinSh = sh
  IfModified = FALSE
  SameDevice = TRUE
  MoveFails = FALSE
  Targets <- MCTargets
  Removals <- MCRemovals
  CfgSlots = 2
  MaxRuns = 4
  MaxCrashes = 1
  MaxEdits = 1
  Unlisted = Unlisted
  Partial = Partial
  Unread = Unread
INVARIANTS InstalledPresent NoStray OnePerSlot CallOrder
PROPERTIES ConfigKept ReplacedStays PendingKept RunEnds
CHECK_DEADLOCK FALSE
