SPECIFICATION Spec
CONSTANTS
  Farms = {f1, f2}
  FirstFarms = {f1}
  Years = {y1, y2}
  CropLists = {none, soja}
  DefaultYear = y1
  NoCrops = none
  Documents = {d1, d2}
  TakenDocuments = {d1}
  NoFarm = NoFarm
  Deleted = Deleted
  NoHarvest = NoHarvest
  NoDocument = NoDocument
  MaxQueue = 1
  MaxEdits = 1
  MaxSaves = 2
  MaxOthers = 1

PROPERTIES SavesAreExact SavedMeansStored TypedStaysTyped
