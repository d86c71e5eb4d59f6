SPECIFICATION MCSpec
CONSTANTS
  total_clusters = 3
  DirSlots = 2
  Names = {"a", "b"}
  FatName <- OneSpelling
  SeedFiles <- Seeds
  Chunks = {"x", "y"}
  FAT_MAX_FILE_SIZE = 3
  MaxWrite = 2
  Faults = {}
INVARIANT FilesSurvive
