SPECIFICATION Spec
CONSTANTS
  Task = {t1, t2}
  Kernel = kernel
  NULL = null
  MAX_TASKS = 3
  MaxPid = 3
PROPERTIES
  Progress
