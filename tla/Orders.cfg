SPECIFICATION Spec
CONSTANTS
  t1 = t1
  t2 = t2
  k1 = k1
  k2 = k2
  n1 = n1
  n2 = n2
  v1 = v1
  flood = flood
  MaxRequests = 2
  MaxProcesses = 2
  Tenants = {t1, t2}
  Keys = {k1, k2}
  MaxInFlight = 2
  NoCall = NoCall
  Loans = {n1, n2}
  Services = {flood}
  FLOOD = flood
  VendorTenant <- OneVendor
  NoVendor = NoVendor
  NoTenant = NoTenant
  DlqTenant <- OneDeadLetter
  Calls <- SomeCalls
  MaxFaults = 2
INVARIANTS
  OrdersAreWhole
  VendorIsShared
  RepeatWritesNothing
  AnswerIsOwn
PROPERTY
  RequestsSettle
