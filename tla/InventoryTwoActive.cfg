\* The guarantee of create_session under every schedule.
CONSTANTS
  t1 = t1
  t2 = t2
  good = good
  flawed = flawed
  row = row
  Threads = {t1, t2}
  NoThread = NoThread
  MaxWorkspaces = 2
  Sources = {good}
  NoSource = NoSource
  Scopes = {row}
  Blocking <- MCBlocking
  MaxRuns = 2
  MaxResolutions = 0
  NoArg = NoArg
SPECIFICATION Spec
SYMMETRY Interchangeable
INVARIANTS OneActive
CHECK_DEADLOCK FALSE
