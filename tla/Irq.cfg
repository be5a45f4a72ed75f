CONSTANTS
  Words = {x, y}
  SectorWords = 2
  LbaSpan = 2
  DiskSize = 2
  Lbas = {0, 1}
  MaxKeys = 3
SPECIFICATION ISpec
INVARIANTS ITypeOK TransferInStep SectorMoved OnlyOwnVectors KeysInOrder
PROPERTIES WritesHitSector EveryKeyHandled
