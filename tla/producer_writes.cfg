SPECIFICATION Spec
CONSTANTS
  Documents = {cpf, active, inactive}
  Cnpjs = {active, inactive}
  ActiveCnpjs = {active}
  EsgCarEnabled = TRUE
  Producers = {p1, p2}
  Requests = {r1, r2}
  Endpoints = {"create", "rename", "update", "revalidate", "delete"}
  Anonymised = Anonymised
  NoRow = NoRow
  MaxStarts = 3
SYMMETRY Symmetry
INVARIANTS TypeOK UniqueDocuments HashFollowsRow DocumentStatusFits AuditTrailConnects PendingIsWarned
PROPERTIES UndisturbedActsAtOnce
