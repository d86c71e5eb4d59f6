SPECIFICATION Spec
CONSTANTS
  Units = {"entry", "layout", "dhcp", "paging", "shell", "nic", "klog", "editor", "disk", "mouse", "irq", "timer", "rtc", "date", "rtl", "rtltx", "screen", "library", "calc", "commands", "desktop", "pci", "nicirq", "frames"}
  SECTOR = 4
  TableClusters = {2, 3, 4, 5}
  num_fats = 2
  EntryValues = {0, 2748}
  MaxTorn = 1
  DiskSizes <- MCDiskSizes
  PartitionStarts = {63, 2048}
  ImageSizes = {64, 4118, 8192, 28000}
  RAMDISK_SECTORS = 1024
  Servers = {"s1"}
  Leases = {1, 2}
  MaxCalls = 2
  PAGE_SIZE = 2
  ENTRIES = 2
  BITMAP_FRAMES = 7
  IDENTITY_MAP_TABLES = 2
  STATIC_PT_POOL_COUNT = 1
  heap_limit = 4
  MaxAddr = 20
  MemoryMaps <- MCMemoryMaps
  Devices <- MCDevices
  con_cols = 2
  con_rows = 3
  CMD_BUF_MAX = 4
  HISTORY_MAX = 2
  Chars = {"a"}
  Prompt <- MCPrompt
  Outputs <- MCOutputs
  Completion <- MCCompletion
  E1000_NUM_RX_DESC = 3
  E1000_NUM_TX_DESC = 3
  Numbers = 4
  KLOG_BUFFER_SIZE = 7
  klog_drop = 2
  MaxLine = 4
  EDITOR_MAX_BUF = 4
  console_cols = 2
  console_rows = 5
  EdChars = {"NL", " "}
  FileContents <- MCFileContents
  Byte = 2
  Nibble = 2
  Lbas = {6, 14}
  Contents = {0, 1}
  Kinds = {"atapi", "ata"}
  RAMDISK_LBAS = 7
  ATA_MAX_RETRIES = 3
  Width = 3
  Height = 2
  Deltas <- MCDeltas
  MaxJams = 1
  MaxLate = 1
  Lines = {0, 7, 12, 15}
  NicLines = {7, 15}
  TICK_WRAP = 8
  TICK_MS = 10
  Sleepers = {1}
  Durations = {0, 5, 20, 30}
  MaxDelay = 1
  Digits = 3
  Radix = 2
  ReadAttempts = 3
  Calendar <- MCCalendar
  RTL_RX_RING_SIZE = 12
  RTL_HEADER = 2
  RTL_ALIGN = 2
  FrameLengths = {1, 4}
  RtlNumbers = 4
  TX_SLOTS = 3
  MaxBad = 1
  fb_width = 2
  fb_height = 5
  FONT_WIDTH = 1
  FONT_HEIGHT = 2
  VBE_TOPBAR_HEIGHT = 1
  Glyph <- MCGlyph
  POINTER_WIDTH = 2
  POINTER_HEIGHT = 2
  Pointer <- MCPointer
  Places <- MCPlaces
  MaxDraws = 3
  MaxReports = 2
  MEM = 10
  WORD = 4
  Letters = {20, 30, 31}
  CASE_GAP = 10
  MaxText = 3
  INT_BITS = 8
  BYTE_BITS = 2
  NAME_LEN = 2
  EXT_LEN = 1
  SIDE = 5
  Parts <- MCParts
  Uptimes = {0, 59, 60, 3599, 3600, 86399, 86400, 863999, 864000, 8639999, 8640000, 86399999}
  CALC_BITS = 4
  Alphabets <- MCAlphabets
  Line <- MCLine
  Typed <- MCTyped
  FileNames = {"s", "t"}
  FileLimit = 2
  MAX_DEPTH = 4
  CMD_HISTORY = 2
  NAME_BUF = 4
  MaxLines = 4
  MaxFailures = 1
  Spots = {"background", "card", "exit"}
  OnCard = {"card"}
  ExitButton = "exit"
  PingButton = "card"
  MaxMoves = 2
  MaxPresses = 1
  PciSlots = 4
  Functions = 3
  Cards <- MCCards
  E1000_IDS <- MCE1000
  RTL8139_ID = "rtl8139"
  PCI_MAX_DEVICES = 4
  NicKinds = {"E1000", "RTL8139"}
  FrameRoom <- MCFrameRoom
  RX_BUDGET = 3
  Threads = {1, 2}
  Main = 1
  Irqs = {0, 1}
INVARIANTS
  TableKept
  VolumeUsable
  
  MappingsSafe
  LogIsLatest
  EditorCorrect
  
  
  InterruptsKept
  TimeKept
  PictureCorrect
  
  DesktopSettles
  
PROPERTIES
  ShowsLine
  FramesInOrder
  CommandsSound
VIEW View
CHECK_DEADLOCK FALSE
