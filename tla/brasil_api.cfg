SPECIFICATION FairSpec
CONSTANTS
  Calls = {c1, c2}
  ActiveCnpjs = {active}
  InactiveCnpjs = {inactive}
  MissingCnpjs = {missing}
  KnownUfs = {SP}
  UnknownUfs = {ZZ}
  MalformedUfs = {X9}
  Cities = {Campinas}
  OtherCities = {Lisboa}
  Timeout = 1
  ResetTimeout = 2
  VolumeThreshold = 2
  TTL = 2
  MaxAttempts = 2
  Backoff = 1
  MaxFires = 2
  NoLookup = NoLookup
INVARIANTS TypeOK NoSilentPositive AnswersFresh PendingCnpjNeedsOutage
PROPERTIES PendingEnds
