SPECIFICATION Spec
CONSTANTS
  Claims = {c1}
  MtpClaims = {c1}
  Revocable = {c1}
  Workers = {w1, w2}
  MaxStates = 3
  MaxTxs = 2
  Faults <- TwoWatchers
PROPERTY ImplementsStateLedger
INVARIANT ConfirmedIsAnchored
INVARIANT ProofMeansOnChain
 
 
SYMMETRY SameRequests
CHECK_DEADLOCK FALSE
