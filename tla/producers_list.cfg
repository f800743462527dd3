SPECIFICATION Spec
CONSTANTS
  Ids = {0, 1, 2, 3}
  Documents = {"d1", "d2"}
  DocumentOf <- MCDocumentOf
  NoDocument = NoDocument
  NoId = NoId
  NoData = NoData
  NoName = NoName
  NoCursor = NoCursor
  Failed = Failed
  Containing <- MCContaining
  PageSizes = {1, 2}
  PageSizeDefault = 2
  DigitNames = {"12"}
  Behaviours <- MCBehaviours
  MaxKey = 2
INVARIANTS UntiedWalkIsComplete RotationKeepsReading DeletedLeavesList PagesExist HitIsForBox
CHECK_DEADLOCK FALSE
