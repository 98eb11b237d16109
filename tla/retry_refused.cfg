SPECIFICATION Spec
CONSTANTS
  Claims = {c1}
  MtpClaims = {c1}
  Revocable <- NoClaims
  Workers = {w1}
  MaxStates = 3
  MaxTxs = 3
  Faults <- LostReply
INVARIANT RetryPublishes
CHECK_DEADLOCK FALSE
