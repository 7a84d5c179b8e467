\* Two sessions, two requests, no summary meets a journal. Beside them, five
\* workbooks of two rows, five decisions, two previews, two builders.
CONSTANTS
  t1 = t1
  t2 = t2
  good = good
  flawed = flawed
  row = row
  Threads = {t1, t2}
  NoThread = NoThread
  MaxWorkspaces = 2
  Sources = {good}
  NoSource = NoSource
  Scopes = {row}
  Blocking <- MCBlocking
  MaxRuns = 2
  MaxResolutions = 1
  NoArg = NoArg
  Builders = {b1, b2}
  Sheets <- MCSheets
  TextKey <- MCTextKey
  Number <- MCNumber
  Manifest = "IX"
  Dictionary <- MCDictionary
  Approved <- MCApproved
  Routine <- MCRoutine
  Offered <- MCOffered
  MaxDecisions = 5
  MaxPreviews = 2
SPECIFICATION MCSpec
SYMMETRY AnyThread
INVARIANTS OneActive
PROPERTIES CandidateIsTheCount
CHECK_DEADLOCK FALSE
