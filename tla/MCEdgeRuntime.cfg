CONSTANTS
  c1 = c1
  c2 = c2
  c3 = c3
  Bootstrap = Bootstrap
  Nil = Nil
  Down = Down
  Candidate <- MCCandidate
  SeqOf <- MCSeqOf
  Parent <- MCParent
SPECIFICATION Spec
INVARIANTS
  TypeOK
  InitializeNeverRefuses
  JournalFreeServesActive
  ProtectedReleasesAreSound
  PrintedOutcomeIsTrue
PROPERTIES
  ReplayFloorMonotone
  PointerMovesWhileStopped
