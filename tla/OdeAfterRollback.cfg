\* Units of work on a database that was created, looked at statement by statement.
SPECIFICATION OdeSpec
CONSTANTS
  p1 = p1
  Creations = {p1}
  Void = Void
  NoFile = NoFile
  u1 = u1
  Units = {u1}
  c1 = c1
  Contexts = {c1}
  ContextOf <- OneContext
  Versions = 1
  MaxWrites = 2
INVARIANTS CommitIsExplicit
CHECK_DEADLOCK FALSE
