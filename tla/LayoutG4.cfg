SPECIFICATION FairSpec
CONSTANTS
  Circle = 12
  Disks <- GoodDisks
  Heads <- McHeads
  Cyls <- McCyls
  Sectors <- McSectors
  Thetas <- McThetas
  BlindBounds = FALSE
  IntMax = 3
INVARIANTS PlacesAsMeant BoundsAnswer AtopUndoesSkew ZonesAndTracks
PROPERTIES BoundsEnd
