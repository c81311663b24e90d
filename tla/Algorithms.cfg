SPECIFICATION Spec
CONSTANTS
  Subjects <- TriedSubjects
  Clocks <- Times
  LimbBits = 6
  ByteBits = 2
  DifficultyOneLimb = 6
  ScaleBits = 3
  EdgeLimbs = {0, 1, 32, 63}
  MaxExponent = 20
  MaxLeaves = 17
  CounterBytes = 2
  WordBytes = 2
  HashWords = 2
  Kept = 4
  Windows = {1, 3}
  MaxTime = 6
  MaxRecordings = 4
  BlockSize = 6
  LengthSize = 2
  MaxPart = 8
  MaxDepth = 2
  MaxText = 5
  Ports = 4
  IntSpace = 16
INVARIANTS
  NumbersAreExact
  TargetsAreExact
  HashesAreStandard
  StatisticsAreExact
  WorkIsDistinct
  PoolsAgree
  TextsAreRead
  EditsAreLocal
