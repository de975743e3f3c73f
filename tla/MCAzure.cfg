SPECIFICATION AzureSpec
CONSTANTS
  Journals = {j1, j2}
  NoJournal = NoJournal
  MaxMishaps = 2
  Rules = {ra, rb}
  NoPlan = NoPlan
  PlanLife = 2
  Reserve = 1
  Deadline = 2
  MaxClock = 4
  MaxOverlayMishaps = 2
INVARIANTS
  AzureTypesOK OutagesAreSafe OverlayIsSound
PROPERTIES
  AzureWorkEnds
