SPECIFICATION Spec
CONSTANTS
  ApiWriters = {a1, a2}
  SqlWriters = {s1}
  Tenants = {1, 2}
  Loans = {0, 1}
  ApiTargets <- Everything
  SqlTargets <- Everything
  MaxInFlight = 3
  MaxEvents = 3
  MaxStamp = 2
  StampSteps = {0, 1}
  Windows <- Whole
SYMMETRY Symmetry
INVARIANTS
  ChainDescends
