SPECIFICATION Spec
CONSTANTS
  Users = {u1, u2}
  Credentials = {k1, k2}
  Connections = {n1}
  Callers = {c1}
  Kinds = {{"signature"}, {"mtp"}}
  MaxStates = 1
  None = None
SYMMETRY Symmetry
INVARIANT TypeOK
INVARIANT NoOfferForgotten
INVARIANT PushedToSubject
INVARIANT NoNoticeForgotten
CHECK_DEADLOCK FALSE
