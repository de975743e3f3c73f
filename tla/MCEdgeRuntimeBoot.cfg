CONSTANTS
  c1 = c1
  c2 = c2
  Bootstrap = Bootstrap
  Nil = Nil
  Down = Down
  Candidate <- MCCandidate
  SeqOf <- MCSeqOf
  Parent <- MCParent
SPECIFICATION FairSpec
PROPERTIES
  CommittedSwitchFinalizes
