SPECIFICATION FairSpec
CONSTANTS
  SectorCells = 2
  Stage2Sectors = 1
  BlobMax = 6
  KernelMax = 5
  ChunkMax = 2
  E820Max = 2
  PartLba = 16
  Stage2 = 0
  E820Buf = 8
  MiB = 10
  KText = 10
  Scratch = 15
  Pages = 21
  PageCells = 2
  MemTop = 23
  RamMax = 15
  Inputs <- MCInputs
  Gates = {TRUE}
INVARIANTS TypeOK EntryIsSound StopIsExplained PassedMeansBoots BootsMeansPassed
PROPERTIES WritesStayHome BootEnds
