SPECIFICATION Spec
CONSTANTS
  a1 = a1  a2 = a2  b1 = b1  A = A  B = B
  etc = etc  conf = conf  usr = usr  lnk = lnk  tool = tool  lib = lib
  Pkg <- MCPkg
  NoPkg = NoPkg
  Slot <- MCSlot
  Ver <- MCVer
  Path <- ClashPath
  Up <- ClashUp
  Loc <- ClashLoc
  Data <- MCData
  NoData = NoData
  User = "admin"
  Image <- ClashImage
  Base <- ClashBase
  RDepend <- ClashRDepend
  Phases <- MCPhases
  Eapi <- MCEapi
  Starts <- ClashStarts
  Protect = {"/etc"}
  Mask = {}
  BinSh = sh
  IfModified = TRUE
  SameDevice = FALSE
  MoveFails = TRUE
  Targets <- ClashTargets
  Removals <- ClashRemovals
  CfgSlots = 1
  MaxRuns = 3
  MaxCrashes = 1
  MaxEdits = 1
  Unlisted = Unlisted
  Partial = Partial
  Unread = Unread
INVARIANTS NoStray
CHECK_DEADLOCK FALSE
