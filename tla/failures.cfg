SPECIFICATION Spec
CONSTANTS
  Claims = {c1, c2}
  MtpClaims = {c1, c2}
  Revocable = {c1}
  Workers = {w1}
  MaxStates = 3
  MaxTxs = 2
  Faults <- PartialFailures
INVARIANT IInv
 
 
CHECK_DEADLOCK FALSE
