\* Single requests on a fresh file, on a promoted one and on one with cable lots;
\* files of write-offs, checked or not, with crashes in the middle.
CONSTANTS
  s1 = s1
  s2 = s2
  s3 = s3
  i1 = i1
  cat6 = cat6
  shelfA = shelfA
  shelfB = shelfB
  eq1 = eq1
  Serials = {s1, s2, s3}
  NoSerial = NoSerial
  Inventories = {i1}
  NoInventory = NoInventory
  Items = {cat6}
  NoItem = NoItem
  Places = {shelfA, shelfB}
  NoPlace = NoPlace
  LegacyIds = {eq1}
  NoLegacy = NoLegacy
  MaxCards = 3
  MaxIssues = 2
  MaxQuantity = 3
  OpeningTables <- MCTables
  LegacyNumbers <- NoLegacyNumbers
  Arrivals <- MCArrivals
  CableArrivals <- CableLots
  CableRows <- CableRequests
  CableFiles <- CablesInFiles
  Edits <- CardEdits
  SingleRows <- SingleRequests
  IssueFiles <- Files
  ProvenanceCards = {3}
SPECIFICATION MCSpec
INVARIANTS BooksAreSound CheckedFileNeverRefused
  StockIsOneAndMoves
PROPERTIES NoNewTwins KeepsStockPromise FileAllOrNothing FileRequestEnds
CHECK_DEADLOCK FALSE
