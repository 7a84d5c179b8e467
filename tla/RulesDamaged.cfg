SPECIFICATION MCSearchSpec
CONSTANTS
  Searches = {r1, r2}
  r1 = r1
  r2 = r2
  Asked <- MCAsked
  OddHosts = {"-x"}
  Named <- MCNamed
  Devices <- MCDevices
  Found <- MCFound
  TechFiles <- MCTech
  DigitalFiles <- MCDigital
  Missing = Missing
  Broken = Broken
  Unread = Unread
  NoSearch = NoSearch
  MaxReplaced = 1
  MaxFaults = 1
INVARIANTS FailsClosed
CHECK_DEADLOCK FALSE
