CONSTANTS
  c1 = c1
  c2 = c2
  c3 = c3
  Bootstrap = Bootstrap
  Nil = Nil
  Down = Down
  Disturbances = {"rollback"}
  Candidate <- MCCandidate
  SeqOf <- MCSeqOf
  Parent <- MCParent
SPECIFICATION ActivationSpec
INVARIANTS
  ApplyMatchesAgent
