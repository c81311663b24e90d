SPECIFICATION HSpec
CONSTANTS
  Shares = {}
  Pushes = {"notify", "difficulty", "extranonce", "reconnect", "oversized"}
  MaxSession = 3
  MaxInbox = 1
  MaxDifficulty = 2
  InitialDelay = 2
  MaxDelay = 5
INVARIANTS
  TypeOK
  JobOfThisSession
  JobAtAnnouncedDifficulty
  DescriptorsClosedOnce
  StoppedIsQuiet
  BackOffFollowsAttempts
