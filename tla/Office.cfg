SPECIFICATION MCSpec
CONSTANTS
  ann = ann
  bob = bob
  sam = sam
  People = {ann, bob, sam}
  Nobody = Nobody
  LastDay = 2
  Groups = 3
  Posts <- SomePosts
  Newcomers <- Team
  Forms <- SomeForms
  MaxRequests = 2
  MaxShifts = 4
  Sections <- SomeSections
  Resembling <- OneResembles
  Book <- FirstBook
  StrictForms = FALSE
  Entries <- SomeEntries
  Sheets <- SomeSheets
  Switched = {"linux", "Done"}
  MaxLogs = 2
  EndDay = 1
  FileNames = {f1, f2, f3}
  Elsewhere = Elsewhere
  MaxArticles = 2
  MaxAttached = 2
  MaxBackups = 1
  Searches = {r1, r2}
  r1 = r1
  r2 = r2
  Asked <- MCAsked
  OddHosts = {"-x"}
  Named <- MCNamed
  Devices <- MCDevices
  Found <- MCFound
  TechFiles <- MCTech
  DigitalFiles <- MCDigital
  Missing = Missing
  Broken = Broken
  Unread = Unread
  NoSearch = NoSearch
  MaxReplaced = 1
  MaxFaults = 1
INVARIANTS
  LettersFollowTheRules
  OnePostADay
  VerdictTellsDecisions
  NoSilentClash
  FilesAndRowsAgree
PROPERTIES
  ShiftLossIsFlagged
  NothingSlipsAway
  ImportedAsShown
CHECK_DEADLOCK FALSE
