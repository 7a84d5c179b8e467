\* Requests of two sessions, one at a time in the table, on two warehouses; five
\* previews of two authors in a store that holds three.
SPECIFICATION MCSpec
CONSTANTS
  Tokens = {k1, k2}
  Nameless = Nameless
  Threads = {t1, t2}
  Sites = {ix, solar}
  Primary = ix
  Free = Free
  MaxSessions = 1
  Ttl = 1
  MaxTime = 2
  ann = ann
  receipt = receipt
  Authors = {ann, bob}
  FileKinds = {receipt, issue}
  MaxItems = 3
  PerAuthor = 2
  MaxRows = 2
  MaxTotal = 4
  Sizes = {1, 2}
  KeptFor = 2
  MaxIds = 5
  MaxClock = 2
INVARIANTS OneWriterAtATime PostedOnce
PROPERTIES NoSessionReturns NamelessOnlyAfterAChange LocksAreGivenBack ForgetsJustEnough
