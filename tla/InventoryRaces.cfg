\* Every interleaving of two requests, late failures included, with crashes or while the server stays up.
CONSTANTS
  t1 = t1
  t2 = t2
  good = good
  flawed = flawed
  row = row
  Threads = {t1, t2}
  NoThread = NoThread
  MaxWorkspaces = 1
  Sources = {good, flawed}
  NoSource = NoSource
  Scopes = {row}
  Blocking <- MCBlocking
  MaxRuns = 2
  MaxResolutions = 2
  NoArg = NoArg
SPECIFICATION MCSpec
INVARIANTS ReviewIsCurrent
PROPERTIES PreviewEndsWhileUp
CHECK_DEADLOCK FALSE
