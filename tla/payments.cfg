SPECIFICATION Spec
CONSTANTS
  Issuers = {i1, i2}
  Options = {o1}
  Requests = {r1, r2}
  Nonces = {n1, n2}
  EvmRails = {evm}
  SolanaRails = {sol}
  Configs <- OneRail
  TxIds = {t1}
  Editors = {c1}
  Verifiers = {c1, c2}
  None = None
INVARIANT TypeOK
INVARIANT SuccessIsPaid
INVARIANT RequestMatchesOption
INVARIANT ListedSuccess
PROPERTY SuccessIsKept
PROPERTY HalfDeletedIsFrozen
SYMMETRY SameRows
PROPERTY ImplementsLedger
CHECK_DEADLOCK FALSE
