SPECIFICATION Spec
CONSTANTS
  StampSteps = {1}
  Requests = {r1, r2, r3}
  LockIds = {l1}
  Tenants = {t1, t2}
  Loans = {n1}
  Periods = {15}
  Days = {1, 3}
  MaxInFlight = 1
  NoLock = NoLock
  NoCall = NoCall
SYMMETRY Symmetry
PROPERTY
  VoidIsIrreversible
