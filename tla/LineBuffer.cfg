SPECIFICATION Spec
CONSTANTS
  MaxLineLength = 3
  MaxChunk = 3
  MaxStream = 7
INVARIANTS
  LinesOfTheStream
PROPERTIES
  OverflowIsDeserved
