SPECIFICATION Spec
CONSTANTS
  t1 = t1
  t2 = t2
  c1 = c1
  c2 = c2
  d1 = d1
  d2 = d2
  a1 = a1
  a2 = a2
  b1 = b1
  Tenants = {t1, t2}
  Clients = {c1, c2}
  DrillIds = {d1, d2}
  Borrowers <- SomeBorrowers
  Roles <- SomeRoles
  AuditIds = {a1, a2}
  Actions = {"unmask", "restore"}
  NoRow = NoRow
SYMMETRY Symmetry
INVARIANTS
  FlagNamesOpenDrill
  FlagFollowsDrills
  UnmaskingIsAudited
