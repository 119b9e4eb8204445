SPECIFICATION Spec
CONSTANTS
  StampSteps = {1}
  Requests = {r1, r2, r3, r4}
  ExceptionIds = {x1}
  Tenants = {t1, t2}
  Loans = {n1}
  Users = {u1, u2}
  MaxInFlight = 3
  NoException = NoException
  NoCall = NoCall
  NoUser = NoUser
SYMMETRY Symmetry
INVARIANTS
  DecisionIsWhole
  DecisionIsAuthorised
  LedgerAgrees
PROPERTY
  DecisionSettles
