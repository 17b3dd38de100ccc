SPECIFICATION Spec
CONSTANTS
  Emails = {"seller", "demo"}
  SellerEmail = "seller"
  DemoEmail = "demo"
  Stranger = "stranger"
  LegacyRoles = {"buyer", "Auditor", "auditor"}
  Fold <- CaseInsensitive
  Failed = Failed
  None = None
  Stops = {0, 2, 4, 5, 6, 7, 9, 10, 11, 19, 20, 23, 26, 28, 29, 30, 31, 32}
  MaxWrites = 3
INVARIANTS TypeOK SchemaOfRevision SeedsOfRevision HeadReachable PrimaryRoleHeld
PROPERTIES AccountsSurvive
CHECK_DEADLOCK FALSE
