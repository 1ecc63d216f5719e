SPECIFICATION FairSpec
CONSTANTS
  NoCallback = NoCallback
  c1 = c1
  c2 = c2
  c3 = c3
  Cards <- MCCards
  NoCard = NoCard
  Blocks <- MCBlocks
  Boot <- MCBoot
  Active <- MCActive
  Noise = Noise
  FAT_MAX_FS = 1
  FAT_MAX_DIRENT = 3
INVARIANTS
  TypeOK
  FreshBlocks
  FirstMountRight
PROPERTY
  HandlersEnd
