SPECIFICATION Spec
CONSTANTS
  Requests <- MCRequests
  FileWords = {0, 4, 65535}
  OtherFiles <- MCOtherFiles
CHECK_DEADLOCK FALSE
INVARIANTS TypeOK LayoutSound CheckFsExact RefusesOnly IsoAccepted UsedIsTrue BootVolumeFound BufferHolds
PROPERTIES Ends
