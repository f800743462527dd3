SPECIFICATION Spec
CONSTANTS
  r1 = r1
  r2 = r2
  r3 = r3
  f1 = f1
  f2 = f2
  p1 = p1
  c1 = c1
  c2 = c2
  s1 = s1
  s2 = s2
  n1 = n1
  y1 = y1
  y2 = y2
  soy = soy
  Producers = {p1}
  Owner <- MCOwner
  Cities = {c1, c2}
  States = {s1, s2}
  RealPlaces <- MCRealPlaces
  CarNumbers = {n1}
  NoCar = NoCar
  NoStatus = NoStatus
  Years = {y1, y2}
  Crops = {soy}
  NoHarvest = NoHarvest
  Keep = Keep
  Drop = Drop
  NoRow = NoRow
  NoEntry = NoEntry
  CreateInputs <- MCCreate
  Farms = {f1}
  Requests = {r1, r2}
  UpdateInputs <- CrudInputs
  EsgCarEnabled = FALSE
  RevalidateEnabled = TRUE
  DistinctMillis = TRUE
  MaxClock = 4
  MaxStarts = 3
SYMMETRY Symmetry
PROPERTIES WritesSeeCurrentRow
