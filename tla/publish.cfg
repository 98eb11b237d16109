SPECIFICATION Spec
CONSTANTS
  Claims = {c1, c2, c3}
  MtpClaims = {c1, c2}
  Revocable <- NoClaims
  Workers = {w1}
  MaxStates = 4
  MaxTxs = 4
  Faults <- NetworkFaults
INVARIANT ProofFitsState
INVARIANT DbFollowsChain
INVARIANT OneTxInFlight
PROPERTY ConfirmedIsFinal
CHECK_DEADLOCK FALSE
