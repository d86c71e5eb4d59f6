SPECIFICATION MCSpec
CONSTANTS
  Task = {t1, t2, t3}
  Kernel = kernel
  NULL = null
  MAX_TASKS = 4
  MaxPid = 4
SYMMETRY TaskSymmetry
INVARIANTS
  RingOrdered
  MemorySafe
  PsListsSurvivors
PROPERTIES
  ZombieNeverResumed
  NoOvertaking
