SPECIFICATION Spec
CONSTANTS
  StampSteps = {1}
  Requests = {r1, r2, r3, r4}
  LockIds = {l1, l2}
  Tenants = {t1, t2}
  Loans = {n1}
  Periods = {15}
  Days = {3}
  MaxInFlight = 3
  NoLock = NoLock
  NoCall = NoCall
SYMMETRY Symmetry
INVARIANTS
  TypeOK
  StatusFollowsHistory
  HistoryIsGenuine
  HistoryIsAudited
  ExpiryIsGranted
