SPECIFICATION Spec
CONSTANTS
  Size = 3
  ShortCounts = {1, 2}
  Faults = {"open", "stat", "create", "chown", "chmod", "sendfile", "read", "write", "rename", "unlink"}
  Absent = Absent
  Old = Old
INVARIANTS DestinationWhole NothingLost ResultTrue
PROPERTIES SourceLast
CHECK_DEADLOCK FALSE
