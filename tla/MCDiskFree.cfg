SPECIFICATION Spec
CONSTANTS
  Requests <- MCRequests
  FileWords = {0, 4, 65535}
  OtherFiles <- MCOtherFiles
CHECK_DEADLOCK FALSE
INVARIANT FreeIsTrue
