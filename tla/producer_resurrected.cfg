SPECIFICATION Spec
CONSTANTS
  Documents = {cpf, active}
  Cnpjs = {active}
  ActiveCnpjs = {active}
  EsgCarEnabled = FALSE
  Producers = {p1}
  Requests = {r1, r2}
  Endpoints = {"create", "update", "rename", "revalidate", "delete"}
  Anonymised = Anonymised
  NoRow = NoRow
  MaxStarts = 1
SYMMETRY Symmetry
PROPERTIES ProducerStaysDeleted
