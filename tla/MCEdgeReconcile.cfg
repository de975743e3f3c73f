CONSTANTS
  c1 = c1
  c2 = c2
  Bootstrap = Bootstrap
  Nil = Nil
  Down = Down
  Disturbances = {"kill", "power", "queue", "play"}
  Candidate <- MCCandidate
  SeqOf <- MCSeqOf
  Parent <- MCParent
  FixtureFiles = {"ca", "client"}
  CertificateFiles = {"chain", "key"}
  Absent = Absent
  MaxGeneration = 1
  MaxUpsets = 2
SPECIFICATION ReconcileSpec
INVARIANTS
  RotationTypeOK
PROPERTIES
  CredentialsAreSound ReconciliationEnds
