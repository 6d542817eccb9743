SPECIFICATION Spec
CONSTANTS
  Polls = {p1, p2}
  Slots = {s1, s2}
  MaxVotes = 1
  Nothing = Nothing
  Ids = {0, 1, 2, 3}
  SlugOf <- MCSlugOf
  Inputs <- MCInputs
  MaxOptions = 3
  MaxClock = 1
  MaxFaults = 1
INVARIANTS
  AdministrationTypeOK
  ScreenIsTrue
  DefinitionsAreSound
PROPERTIES
  ResultsCatchUp
CHECK_DEADLOCK FALSE
