SPECIFICATION Spec
CONSTANTS
  LinkIds = {l1}
  MaxIssuance <- TwoEach
  Users = {u1, u2}
  Credentials = {k1, k2, k3, k4}
  Callers = {c1, c2}
  None = None
INVARIANT TypeOK
INVARIANT OvershootIsBounded
INVARIANT DuplicatesAreBounded
INVARIANT LinkedToRow
INVARIANT ListingAgrees
INVARIANT FetchedIsNotRevoked
PROPERTY DeactivationHolds
PROPERTY DeletionHolds
SYMMETRY Symmetry
CHECK_DEADLOCK FALSE
