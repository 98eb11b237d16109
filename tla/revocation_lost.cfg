SPECIFICATION Spec
CONSTANTS
  Claims = {c1}
  MtpClaims = {c1}
  Revocable = {c1}
  Workers = {w1}
  MaxStates = 3
  MaxTxs = 2
  Faults <- LateRows
INVARIANT PublishedIsOnChain
CHECK_DEADLOCK FALSE
