SPECIFICATION Spec
CONSTANTS
  ApiWriters = {a1}
  SqlWriters = {}
  Tenants = {1}
  Loans = {1, 2}
  ApiTargets <- TwoLoans
  SqlTargets <- TwoLoans
  MaxInFlight = 1
  MaxEvents = 4
  MaxStamp = 4
  StampSteps = {1}
  Windows <- Whole
INVARIANT
  VerificationIsClean
