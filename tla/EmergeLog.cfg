SPECIFICATION Spec
CONSTANTS
  Emerges <- MCEmerges
  Script <- MCScript
  Commands <- MCCommands
  Probes <- MCProbes
  Gaps <- MCGaps
  MaxTime = 6
  MaxLines = 6
  MaxGrowth = 1
  MaxStarted = 2
  Tolerance = 4
  Stale = 4
INVARIANTS
  PairsOwn
  AllReported
  LastOnly
  RunningExact
CHECK_DEADLOCK FALSE
