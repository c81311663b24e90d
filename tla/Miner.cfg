SPECIFICATION FairSpec
CONSTANTS
  Callers = {api}
  Threads = {t1, t2, t3}
  CpuThreads = 2
  CudaCompiled = TRUE
  Configs = {none, poolA}
  Unconfigured = {none}
  Unworkable = {3}
  MaxGeneration = 3
  MaxVersion = 3
INVARIANTS
  StoppedIsClean
  NoHashingAtRest
PROPERTIES
  ChunksOnCurrentJob
  PoolOutlivesSubmit
  StopReturns
  JobIsWorked
