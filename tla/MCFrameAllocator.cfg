SPECIFICATION Spec
CONSTANTS
  PageSize = 2
  MaxFrames = 10
  MinUsable = 12
  LowMem = 2
  ScratchSize = 2
  BssEnd = 5
  DemoPages = 2
  BenchPages = 2
  FatPages = {0, 2}
  Boots <- MCBoots
INVARIANTS TypeOK CountersAgree OwnersDisjoint ReservedKept OnlyUsable
PROPERTY FailsOnlyWhenFull
