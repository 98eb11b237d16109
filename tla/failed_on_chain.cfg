SPECIFICATION Spec
CONSTANTS
  Claims = {c1}
  MtpClaims = {c1}
  Revocable = {c1}
  Workers = {w1}
  MaxStates = 3
  MaxTxs = 2
  Faults <- NoFaults
INVARIANT FailedTransactionFailed
CHECK_DEADLOCK FALSE
