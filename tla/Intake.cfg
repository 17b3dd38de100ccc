SPECIFICATION Spec
CONSTANTS
  toyota = toyota
  nissan = nissan
  corolla = corolla
  patrol = patrol
  ali = ali
  omar = omar
  deputy = deputy
  agent = agent
  v1 = v1
  v2 = v2
  Requests = {q1, q2}
  Makes = {toyota, nissan}
  Models = {corolla, patrol}
  Users = {ali, omar}
  SubSellers = {deputy, agent}
  MakeOf <- TwoModels
  SellerOf <- Contacts
  Bearing <- Names
  Chassis = {v1, v2}
  Forms <- SomeForms
  Sheets <- SomeSheets
  Blank = Blank
  NoRow = NoRow
  Idle = Idle
  Curated = {toyota, corolla, ali, deputy}
  MaxChanges = 1
  MaxFaults = 1
SYMMETRY Symmetry
INVARIANTS TypeOK ReportTrue AnsweredRowByRow OfferedIsAccepted
PROPERTIES AsTheSheetSays
CHECK_DEADLOCK FALSE
