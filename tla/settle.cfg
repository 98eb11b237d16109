SPECIFICATION FairSpec
CONSTANTS
  Claims = {c1}
  MtpClaims = {c1}
  Revocable <- NoClaims
  Workers = {w1}
  MaxStates = 3
  MaxTxs = 3
  Faults <- Interruptions
PROPERTY EntryReleased
PROPERTY TransactedSettles
CHECK_DEADLOCK FALSE
