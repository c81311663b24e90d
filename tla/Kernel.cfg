SPECIFICATION Spec
CONSTANTS
  NonceCount = 4
  StartNonce = 3
  NonceSpace = 5
INVARIANTS
  ReportsWinner
  FindsIfAny
  ClaimInv
