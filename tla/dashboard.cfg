SPECIFICATION FairSpec
CONSTANTS
  Unset = Unset
  NoCar = NoCar
  NoScore = NoScore
  TopLimit = 1
  Clients = {c1, c2}
  Behaviours <- MCBehaviours
  FilterSets <- MCFilterSets
  TTL = 1
  MaxLoad = 1
  Horizon = 3
  NoRequest = NoRequest
INVARIANTS AnswersFresh PartsAddUp DrillDownAgrees
PROPERTIES ErrorsEnd
