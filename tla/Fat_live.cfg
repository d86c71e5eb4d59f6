SPECIFICATION MCFairSpec
CONSTANTS
  total_clusters = 2
  DirSlots = 1
  Names = {"a"}
  FatName <- OneName
  SeedFiles <- NoSeeds
  Chunks = {"zero"}
  FAT_MAX_FILE_SIZE = 3
  MaxWrite = 2
  Faults = {"table", "read"}
PROPERTY OperationsEnd
