SPECIFICATION FairSpec
CONSTANTS
  Shares = {s1}
  Pushes = {"notify", "reconnect"}
  MaxSession = 2
  MaxInbox = 1
  MaxDifficulty = 0
  InitialDelay = 1
  MaxDelay = 1
PROPERTIES
  StopReturns
  Reconnects
  QueuedShareLeaves
