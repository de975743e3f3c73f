SPECIFICATION EdgeSpec
CONSTANTS
  c1 = c1
  d1 = d1
  c2 = c2
  d2 = d2
  e2 = e2
  c3 = c3
  d3 = d3
  c4 = c4
  Bootstrap = Bootstrap
  Candidate <- MCCandidate
  SeqOf <- MCSeqOf
  Parent <- MCParent
  n1 = n1
  n2 = n2
  fx = fx
  ms = ms
  mm = mm
  ad = ad
  Nothing = Nothing
  Nodes <- MCNodes
  Bodies <- MCBodies
  FactsOf <- MCFacts
  AuthorityOf <- MCAuthority
  PublicNets <- MCPublicNets
  FixtureNet = fx
  PublicHosts <- MCPublicHosts
  MicrosoftHosts <- MCMicrosoftHosts
  Generators = {g1, g2}
  Dirs = {out}
  MaxSequence = 2
  MaxTime = 1
  Step = 1800
  Timeout = 2
  PingTimeout = 1
  SlowRead = 1
  MaxFlips = 1
  Helpers = {h1, h2}
  Configs = {cf1, cf2, cf3}
  MaxEdits = 1
SYMMETRY MCSymmetry
CHECK_DEADLOCK FALSE
INVARIANTS
  EdgeTypesOK StateLoads StagedReleasesWork NodesRunTheirFacts
  OneSigningKey GateResultsHold ImportIsSafe
PROPERTIES
  AgentMovesForward LineageIsOne
