SPECIFICATION FairSpec
CONSTANTS
  Claims = {c1, c2}
  MtpClaims = {c1, c2}
  Revocable <- NoClaims
  Workers = {w1}
  MaxStates = 3
  MaxTxs = 3
  Faults <- TwoWatchers
PROPERTY EveryCredentialAnchored
CHECK_DEADLOCK FALSE
