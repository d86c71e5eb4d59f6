SPECIFICATION MCSpec
CONSTANTS
  total_clusters = 3
  DirSlots = 2
  Names = {"a", "/a", "b"}
  FatName <- Spellings
  SeedFiles <- Seeds
  Chunks = {"x", "y"}
  FAT_MAX_FILE_SIZE = 3
  MaxWrite = 2
  Faults = {"crash", "io"}
INVARIANTS
  Acyclic
  VolumeSound
  ReadsBack
CHECK_DEADLOCK TRUE
VIEW View
