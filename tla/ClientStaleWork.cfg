SPECIFICATION Spec
CONSTANTS
  Shares = {s1}
  Pushes = {"notify"}
  MaxSession = 2
  MaxInbox = 1
  MaxDifficulty = 0
  InitialDelay = 1
  MaxDelay = 2
INVARIANTS
  SubmitsOnlyCurrentWork
