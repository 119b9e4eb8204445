SPECIFICATION Spec
CONSTANTS
  ApiWriters = {a1}
  SqlWriters = {s1}
  Tenants = {1, 2}
  Loans = {0, 1}
  ApiTargets <- OneLoan
  SqlTargets <- SqlLoans
  MaxInFlight = 1
  MaxEvents = 5
  MaxStamp = 5
  StampSteps = {1}
  Windows <- Nightly
INVARIANTS
  ChainIsLinear
  VerificationIsClean
