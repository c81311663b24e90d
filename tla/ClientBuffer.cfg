SPECIFICATION Spec
CONSTANTS
  Shares = {}
  Pushes = {"oversized"}
  MaxSession = 2
  MaxInbox = 1
  MaxDifficulty = 0
  InitialDelay = 1
  MaxDelay = 2
INVARIANTS
  FreshLineBuffer
