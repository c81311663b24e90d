SPECIFICATION Spec
CONSTANTS
  Callers = {api}
  Threads = {t1, t2}
  CpuThreads = 0
  CudaCompiled = TRUE
  Configs = {none, poolA, poolB}
  Unconfigured = {none}
  Unworkable = {}
  MaxGeneration = 2
  MaxVersion = 1
PROPERTIES
  ConfigFrozenWhileConnected
