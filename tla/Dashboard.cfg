SPECIFICATION FairSpecAll
CONSTANTS
  Callers = {"main", "api"}
  Threads = {t1, t2}
  CpuThreads = 1
  CudaCompiled = FALSE
  Configs = {none, poolA}
  Unconfigured = {none}
  Unworkable = {}
  MaxGeneration = 1
  MaxVersion = 1
  busy = busy
  plain = plain
  Clients <- MCClients
  Hasty = {busy}
  Requests <- MCRequests
  MaxRequest = 2
  NoClient = NoClient
  NoRequest = NoRequest
CONSTRAINT
  FewOverlaps
INVARIANTS
  ExitIsClean
PROPERTIES
  SerialCallsAreSafe
  ShutdownEnds
  RequestsAnswered
