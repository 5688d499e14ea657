SPECIFICATION Spec
CONSTANTS
  KBD_QUEUE = 3
  NoKey = 0
  MaxEvents = 3
  MaxMouse = 1
  MaxAux = 2
  AuxBytes = {250, 30}
  Keys <- MCKeys
  PlainMap <- MCPlainMap
  ShiftMap <- MCShiftMap
  ExtMap <- MCExtMap
  Buttons <- MCButtons
INVARIANTS TypeOK DecodeAgrees
PROPERTIES RingIsQueue EverythingIsRead
CHECK_DEADLOCK FALSE
