SPECIFICATION Spec
CONSTANTS
  NoCallback = NoCallback
  AddressLength = 1
  Top = 3
  UdpSocketMax = 1
  FirstEphemeral = 1025
  ClusterCount = 8
  ClusterSize = 2
  DirSize = 2
  FatTable <- MCFatTable
  Root <- MCRoot
  Directories <- MCDirectories
  FAT_MAX_FILE = 2
  BlockSize = 2
  WordModulus = 256
  Files <- MCFiles
  Readers <- MCReaders
  Writers <- MCWriters
  Client <- MCClient
  ServerConfig <- MCServerConfig
  Duplicates = TRUE
  MaxFileCluster = 4
INVARIANT
  BlocksAreFile
CHECK_DEADLOCK FALSE
