SPECIFICATION ControllerSpec
CONSTANTS
  Plays = {p1, p2}
  NoPlay = NoPlay
  Sources = {r1, r2}
  Settings = {x}
  Clients = {a, b}
  Passwords = {s1, s2}
  CidrLimit = 2
  MaxRuns = 2
  Nothing = Nothing
INVARIANTS
  ControllerTypesOK OriginalSurvives InstallationIsSound
PROPERTIES
  RestoreIsTrue ControllerWorkEnds
CHECK_DEADLOCK FALSE
