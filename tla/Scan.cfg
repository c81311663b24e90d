SPECIFICATION FairSpec
CONSTANTS
  NonceSpace = 8
  CountSpace = 64
  ChunkSize = 5
  LaunchSize = 2
  PollEvery = 2
  StartNonce = 6
INVARIANTS
  SubmittedOnce
  CountedIsHashed
  ScanIsComplete
PROPERTIES
  ScanEnds
