\* The operational file with two copies, two errors and two crashes; the database
\* of the next version created by two commands, and worked on by three units of work.
SPECIFICATION MCSpec
CONSTANTS
  o1 = o1
  o2 = o2
  l1 = l1
  Ops = {o1, o2}
  Logins = {l1}
  Uploads <- OfferedFiles
  MaxCopies = 2
  MaxSigned = 1
  MaxFaults = 2
  MaxCrashes = 2
  p1 = p1
  p2 = p2
  u1 = u1
  u2 = u2
  u3 = u3
  c1 = c1
  c2 = c2
  Creations = {p1, p2}
  Void = Void
  NoFile = NoFile
  Units = {u1, u2, u3}
  Contexts = {c1, c2}
  ContextOf <- Nested
  Versions = 2
  MaxWrites = 2
INVARIANTS NothingLost FilesAreWhole
  PublishedWholeOrNotAtAll CommitsAreWholeAndSeen
PROPERTIES OneOfTheTwo
CHECK_DEADLOCK FALSE
