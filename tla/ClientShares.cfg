SPECIFICATION Spec
CONSTANTS
  Shares = {s1, s2}
  Pushes = {"notify", "difficulty", "extranonce"}
  MaxSession = 2
  MaxInbox = 1
  MaxDifficulty = 0
  InitialDelay = 1
  MaxDelay = 1
SYMMETRY Symmetry
CONSTRAINT NeverStopped
INVARIANTS
  CountedAtMostOnce
  SharesInCustody
  AcceptedOnlyByThePool
PROPERTIES
  KeepsLedger
