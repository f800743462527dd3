SPECIFICATION Spec
CONSTANTS
  Unset = Unset
  Options <- MCOptions
  Unaccepted = {101}
  NoData = NoData
  NoChoice = NoChoice
  Unread = Unread
  MaxChoices = 2
  MaxFailures = 1
  MaxWrites = 1
INVARIANTS SettledPageAgrees OwnWritesReach
