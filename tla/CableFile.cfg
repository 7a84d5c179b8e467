\* A file of cable write-offs whose second row asks for more than is left.
CONSTANTS
  s1 = s1
  s2 = s2
  s3 = s3
  i1 = i1
  cat6 = cat6
  shelfA = shelfA
  shelfB = shelfB
  eq1 = eq1
  Serials = {s1, s2, s3}
  NoSerial = NoSerial
  Inventories = {i1}
  NoInventory = NoInventory
  Items = {cat6}
  NoItem = NoItem
  Places = {shelfA, shelfB}
  NoPlace = NoPlace
  LegacyIds = {eq1}
  NoLegacy = NoLegacy
  MaxCards = 3
  MaxIssues = 2
  MaxQuantity = 3
  OpeningTables <- MCTables
  LegacyNumbers <- NoLegacyNumbers
  Arrivals <- MCArrivals
  CableArrivals <- CableLots
  CableRows <- CableRequests
  CableFiles <- CablesInFiles
  Edits <- CardEdits
  SingleRows <- SingleRequests
  IssueFiles <- Files
  ProvenanceCards = {3}
SPECIFICATION MCSpec
PROPERTIES CableFileAllOrNothing
CHECK_DEADLOCK FALSE
