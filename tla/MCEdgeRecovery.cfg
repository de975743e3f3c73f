CONSTANTS
  c1 = c1
  c2 = c2
  Bootstrap = Bootstrap
  Nil = Nil
  Down = Down
  Candidate <- MCCandidate
  SeqOf <- MCSeqOf
  Parent <- MCParent
  MaxRequests = 2
  NoRequest = NoRequest
  MaxTroubles = 2
SPECIFICATION RecoverySpec
INVARIANTS
  QualTypeOK
PROPERTIES
  RebootsAreSound RecoveryEnds
