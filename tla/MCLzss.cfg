SPECIFICATION MCSpec
CONSTANTS
  Inputs <- MCInputs
  WINDOW = 6
  MIN_MATCH = 3
  MAX_MATCH = 5
  SectorBytes = 8
  BlobMax = 24
  Volume <- MCVolume
  Modulus = 23
  MaxByte = 5
INVARIANTS TypeOK OutputIsPrefix RoundTrip NeverExplodes HarnessAccepts SumIsRight
PROPERTY Finishes
