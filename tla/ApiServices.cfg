SPECIFICATION Spec
CONSTANTS
  t1 = t1
  t2 = t2
  k1 = k1
  k2 = k2
  u1 = u1
  n1 = n1
  MaxRequests = 2
  MaxProcesses = 2
  Tenants = {t1, t2}
  Keys = {k1, k2}
  MaxInFlight = 2
  NoCall = NoCall
  TaskTenant <- TaskTenants
  NoUser = NoUser
  VendorRows <- SomeVendors
  NoTenant = NoTenant
  NoSignature = NoSignature
  StampSteps = {1}
  Calls <- SomeCalls
  MaxFaults = 1
INVARIANTS
  TrailIsOnePath
  TrailIsGenuine
  RoutedAsAsked
  ReceiptsAreGenuine
  QuoteIsTold
  RepeatChangesNothing
  SpentForAllServices
