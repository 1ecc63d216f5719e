SPECIFICATION FairSpec
CONSTANTS
  RXSTOP = 10
  HeaderSize = 2
  Lengths = {2, 3, 4}
  MaxCount = 3
  maxlen = 3
  ChecksumSize = 1
  Numbers = 4
INVARIANTS
  TypeOK
  OldestIsIntact
PROPERTY
  Served
