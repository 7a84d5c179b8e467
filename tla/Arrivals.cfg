SPECIFICATION MCSpec
CONSTANTS
  s1 = s1
  s2 = s2
  n1 = n1
  Serials = {s1, s2}
  NoSerial = NoSerial
  Numbers = {n1}
  NoNumber = NoNumber
  MaxCards = 3
  MaxLines = 2
  MaxDocs = 2
  MaxPreviews = 1
  StartCards <- CardsBefore
  Files <- DeliveryFiles
  Givens <- RequestValues
  Blank = blank
  None = none
  NoRow = noRow
  NoBuild = noBuild
  Books <- MCBooks
  Texts <- MCTexts
  Match <- MCMatch
  Tokens <- MCTokens
  Form <- MCForm
  Digits <- MCDigits
  Zeroed <- MCZeroed
  Fields <- MCFields
  TestSerials <- MCTestSerials
  Sheets200 <- MCSheets
  Need <- MCNeed
  Key <- MCKey
  Vendors <- MCVendors
  Models <- MCModels
  ZeroFirst = {"01", "02"}
  Empty = ""
  MaxEdits = 2
  MaxBuilds = 2
  Inputs <- MCInputs
  Fold <- MCFold
  Domains <- MCDomains
  Seeded <- MCSeeded
  Meaning <- MCMeaning
  Apart = {{"dell", "hp"}}
  Doubtful = {"012"}
INVARIANTS
  StatusFollowsLines
  LinksSound
  StagingKeepsNamesApart
  BookIsTheSheets
  SelectedIsBuilt
  BundlesTellTheTruth
PROPERTIES
  AcceptedWholeAndOnce
CHECK_DEADLOCK FALSE
