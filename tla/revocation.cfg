SPECIFICATION Spec
CONSTANTS
  Credentials = {g, k1, k2}
  Genesis = g
  Keys = {x0, x1}
  GenesisKey = x0
  Nonces = {n1, n2}
  Callers = {c1, c2}
  None = None
SYMMETRY Symmetry
INVARIANT TypeOK
 
INVARIANT SigningKeyKept
INVARIANT RevokedIsLeaf
INVARIANT NoSecondLeaf
 
CHECK_DEADLOCK FALSE
