SPECIFICATION FairSpec
CONSTANTS
  r1 = r1
  r2 = r2
  s1 = s1
  s2 = s2
  nil = nil
  Nil = nil
  Run <- MCRun
  Snapshot <- MCSnapshot
  Collected <- MCCollected
INVARIANTS
  JournalTypeOK
  RecordsHold
PROPERTIES
  RecordsAreFrozen
  ImplementsRequest
  InterruptedCommandsFinish
